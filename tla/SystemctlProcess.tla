-------------------------- MODULE SystemctlProcess --------------------------
(***************************************************************************)
(* SystemctlUserSystemdController and SystemctlSliceController             *)
(* (src/src/systemd.cpp): threads of one process that spawn systemctl,     *)
(* read what it prints through a pipe of limited capacity and wait for it. *)
(*                                                                         *)
(* posix_spawn is two steps, fork and exec, between which the child holds  *)
(* a copy of every descriptor of the process, those of other threads too;  *)
(* the calling thread is suspended meanwhile.                              *)
(***************************************************************************)
EXTENDS Naturals, Sequences, FiniteSets

CONSTANTS
    Threads,
    Capacity,  \* chunks a pipe holds
    Length     \* chunks that systemctl show prints

ASSUME ProcessAssumption ==
    Capacity \in Nat \ {0} /\ Length \in Nat /\ "parent" \notin Threads

\* run_process and run_process_capture, in the order of each operation.
Script == [reload |-> <<"run">>, apply |-> <<"run">>,
           lifecycle |-> <<"run", "capture">>, status |-> <<"capture">>]
Operations == DOMAIN Script

\* Holder of a pipe's write end: the process itself, or the child of a thread.
Parent == "parent"
Process == Threads \cup {Parent}

Idle == {"idle", "ok", "dry_run", "error", "read_error"}
Steps == {"pipe", "fork", "exec", "close", "read", "wait"}

VARIABLES
    pc,       \* next step of each thread, or how its last call ended
    op,       \* operation each thread runs
    at,       \* position in its script
    writers,  \* who holds the write end of each thread's pipe
    reading,  \* threads whose pipe's read end the process has open
    piped,    \* chunks in each thread's pipe
    output,   \* chunks each thread has read
    child     \* each thread's child

vars == <<pc, op, at, writers, reading, piped, output, child>>

\* History variables.
VARIABLES
    printed,  \* chunks the child has written
    zombies   \* threads that returned without waiting for their child

allVars == <<vars, printed, zombies>>
-----------------------------------------------------------------------------
Init ==
    /\ pc = [t \in Threads |-> "idle"]
    /\ op = [t \in Threads |-> "status"]
    /\ at = [t \in Threads |-> 1]
    /\ writers = [t \in Threads |-> {}]
    /\ reading = {}
    /\ piped = [t \in Threads |-> 0]
    /\ output = [t \in Threads |-> 0]
    /\ child = [t \in Threads |-> "none"]
    /\ printed = [t \in Threads |-> 0]
    /\ zombies = {}

Goto(t, step) == pc' = [pc EXCEPT ![t] = step]

Kind(t) == Script[op[t]][at[t]]

FirstStep(kind) == IF kind = "capture" THEN "pipe" ELSE "fork"

\* Processes p gives up its copies of the write ends of the pipes in P.
Closed(p, P) == [t \in Threads |-> IF t \in P THEN writers[t] \ {p} ELSE writers[t]]

\* Invalid names and values are refused and dry runs answered without a process.
\* Bound: each thread has at most one child it did not wait for; once that child has
\* ended it is forgotten at the thread's next call.
Call(t, o) ==
    /\ pc[t] \in Idle
    /\ child[t] \in {"none", "succeeded", "failed"}
    /\ op' = [op EXCEPT ![t] = o]
    /\ at' = [at EXCEPT ![t] = 1]
    /\ \/ Goto(t, FirstStep(Script[o][1]))
       \/ Goto(t, "error")
       \/ Goto(t, "dry_run")
    /\ output' = [output EXCEPT ![t] = 0]
    /\ child' = [child EXCEPT ![t] = "none"]
    /\ zombies' = zombies \ {t}
    /\ UNCHANGED <<writers, piped, printed, reading>>

\* pipe2(O_CLOEXEC)
Pipe(t) ==
    /\ pc[t] = "pipe"
    /\ \/ /\ writers' = [writers EXCEPT ![t] = {Parent}]
          /\ reading' = reading \cup {t}
          /\ Goto(t, "fork")
       \/ Goto(t, "error") /\ UNCHANGED <<writers, reading>>
    /\ piped' = [piped EXCEPT ![t] = 0]
    /\ output' = [output EXCEPT ![t] = 0]
    /\ printed' = [printed EXCEPT ![t] = 0]
    /\ UNCHANGED <<op, at, child, zombies>>

\* posix_spawnp: the child starts with a copy of all of the process's descriptors.
Fork(t) ==
    /\ pc[t] = "fork"
    /\ child' = [child EXCEPT ![t] = "forked"]
    /\ writers' = [p \in Threads |-> writers[p] \cup (IF Parent \in writers[p] THEN {t} ELSE {})]
    /\ Goto(t, "exec")
    /\ UNCHANGED <<op, at, piped, output, printed, zombies, reading>>

\* Mutant: pipe() without O_CLOEXEC: other threads' pipes stay open in the child.
Exec_Inherits(t) ==
    /\ pc[t] = "exec"
    /\ child' = [child EXCEPT ![t] = "running"]
    /\ Goto(t, IF Kind(t) = "capture" THEN "close" ELSE "wait")
    /\ UNCHANGED <<op, at, writers, piped, output, printed, zombies, reading>>

\* The file actions put the write end of the thread's own pipe on stdout, exec
\* closes the rest.
Exec(t) ==
    /\ pc[t] = "exec"
    /\ child' = [child EXCEPT ![t] = "running"]
    /\ writers' = Closed(t, Threads \ (IF Kind(t) = "capture" THEN {t} ELSE {}))
    /\ Goto(t, IF Kind(t) = "capture" THEN "close" ELSE "wait")
    /\ UNCHANGED <<op, at, piped, output, printed, zombies, reading>>

\* Mutant: on a failed spawn the pipe is left open.
SpawnFails_Leaks(t) ==
    /\ pc[t] \in {"fork", "exec"}
    /\ child' = [child EXCEPT ![t] = "none"]
    /\ writers' = Closed(t, Threads)
    /\ Goto(t, "error")
    /\ UNCHANGED <<op, at, piped, output, printed, zombies, reading>>

\* posix_spawnp reports that fork or exec failed, having waited for such a child;
\* both ends of the pipe are closed.
SpawnFails(t) ==
    /\ pc[t] \in {"fork", "exec"}
    /\ child' = [child EXCEPT ![t] = "none"]
    /\ writers' = [Closed(t, Threads) EXCEPT ![t] = {}]
    /\ reading' = reading \ {t}
    /\ Goto(t, "error")
    /\ UNCHANGED <<op, at, piped, output, printed, zombies>>

\* Mutant: the child is waited for before its output is read.
CloseWriteEnd_WaitsFirst(t) ==
    /\ pc[t] = "close"
    /\ writers' = Closed(Parent, {t})
    /\ Goto(t, "wait")
    /\ UNCHANGED <<op, at, piped, output, child, printed, zombies, reading>>

CloseWriteEnd(t) ==
    /\ pc[t] = "close"
    /\ writers' = Closed(Parent, {t})
    /\ Goto(t, "read")
    /\ UNCHANGED <<op, at, piped, output, child, printed, zombies, reading>>

\* read() returns some of what is in the pipe and is called again.
ReadOutput(t) ==
    /\ pc[t] = "read"
    /\ \E n \in 1..piped[t] :
          /\ piped' = [piped EXCEPT ![t] = @ - n]
          /\ output' = [output EXCEPT ![t] = @ + n]
    /\ UNCHANGED <<pc, op, at, writers, child, printed, zombies, reading>>

\* read() returns 0: nobody holds the write end any more; the read end is closed.
EndOfOutput(t) ==
    /\ pc[t] = "read"
    /\ piped[t] = 0 /\ writers[t] = {}
    /\ reading' = reading \ {t}
    /\ Goto(t, "wait")
    /\ UNCHANGED <<op, at, writers, piped, output, child, printed, zombies>>

\* read() fails: the read end is closed and the child not waited for; what it still
\* writes is lost and kills it (ChildFails).
ReadFails(t) ==
    /\ pc[t] = "read"
    /\ Goto(t, "read_error")
    /\ zombies' = zombies \cup {t}
    /\ reading' = reading \ {t}
    /\ piped' = [piped EXCEPT ![t] = 0]
    /\ UNCHANGED <<op, at, writers, output, child, printed>>

\* Mutant: the exit status is not looked at.
Reap_AnyStatus(t) ==
    /\ pc[t] = "wait"
    /\ child[t] \in {"succeeded", "failed"}
    /\ child' = [child EXCEPT ![t] = "none"]
    /\ IF at[t] < Len(Script[op[t]])
       THEN at' = [at EXCEPT ![t] = @ + 1] /\ Goto(t, "pipe")
       ELSE Goto(t, "ok") /\ UNCHANGED at
    /\ UNCHANGED <<op, writers, piped, output, printed, zombies, reading>>

\* waitpid returns; only an exit with status 0 goes on, to the next process of the
\* operation or to its end.
Reap(t) ==
    /\ pc[t] = "wait"
    /\ child[t] \in {"succeeded", "failed"}
    /\ child' = [child EXCEPT ![t] = "none"]
    /\ IF child[t] = "failed" THEN Goto(t, "error") /\ UNCHANGED at
       ELSE IF at[t] < Len(Script[op[t]])
            THEN at' = [at EXCEPT ![t] = @ + 1] /\ Goto(t, "pipe")
            ELSE Goto(t, "ok") /\ UNCHANGED at
    /\ UNCHANGED <<op, writers, piped, output, printed, zombies, reading>>

\* waitpid fails: the child was reaped by another part of the program.
WaitFails(t) ==
    /\ pc[t] = "wait"
    /\ child[t] \in {"succeeded", "failed"}
    /\ child' = [child EXCEPT ![t] = "none"]
    /\ Goto(t, "error")
    /\ UNCHANGED <<op, at, writers, piped, output, printed, zombies, reading>>
-----------------------------------------------------------------------------
(* systemctl: writes to a pipe with room and a reader, succeeds when it has    *)
(* printed everything, and may be killed or fail at any time.                  *)

ChildPrints(t) ==
    /\ child[t] = "running"
    /\ t \in writers[t]
    /\ t \in reading
    /\ printed[t] < Length /\ piped[t] < Capacity
    /\ printed' = [printed EXCEPT ![t] = @ + 1]
    /\ piped' = [piped EXCEPT ![t] = @ + 1]
    /\ UNCHANGED <<pc, op, at, writers, output, child, zombies, reading>>

ChildEnds(t, result) ==
    /\ child[t] = "running"
    /\ child' = [child EXCEPT ![t] = result]
    /\ writers' = Closed(t, Threads)
    /\ UNCHANGED <<pc, op, at, piped, output, printed, zombies, reading>>

ChildSucceeds(t) ==
    /\ Kind(t) = "capture" => printed[t] = Length
    /\ ChildEnds(t, "succeeded")

ChildFails(t) == ChildEnds(t, "failed")

ChildStep(t) == ChildPrints(t) \/ ChildSucceeds(t)
-----------------------------------------------------------------------------
ThreadStep(t) ==
    \/ Pipe(t) \/ Fork(t) \/ Exec(t) \/ CloseWriteEnd(t)
    \/ ReadOutput(t) \/ EndOfOutput(t) \/ Reap(t)

Failure(t) == SpawnFails(t) \/ ReadFails(t) \/ WaitFails(t)

Next ==
    \E t \in Threads :
        \/ \E o \in Operations : Call(t, o)
        \/ ThreadStep(t) \/ Failure(t)
        \/ ChildStep(t) \/ ChildFails(t)

Spec == Init /\ [][Next]_allVars

\* The threads of the program proceed, the calls they make being enabled; no child does.
FairSpec == Spec /\ \A t \in Threads : WF_allVars(ThreadStep(t))

\* Each systemctl does its work, as far as its pipe lets it.
ChildrenWork == \A t \in Threads : WF_allVars(ChildStep(t))
-----------------------------------------------------------------------------
\* State of the threads, their pipes and their children.
TypeOK ==
    /\ pc \in [Threads -> Idle \cup Steps]
    /\ op \in [Threads -> Operations]
    /\ at \in [Threads -> 1..2]
    /\ writers \in [Threads -> SUBSET Process]
    /\ reading \subseteq Threads
    /\ piped \in [Threads -> 0..Capacity]
    /\ output \in [Threads -> 0..Length]
    /\ child \in [Threads -> {"none", "forked", "running", "succeeded", "failed"}]
    /\ printed \in [Threads -> 0..Length]
    /\ zombies \subseteq Threads

\* A status is parsed from all that systemctl prints (run_process_capture), never
\* from the part that had arrived when the loop stopped or from the output of a
\* systemctl that died half way.
CaptureIsWhole ==
    \A t \in Threads :
        pc[t] = "ok" /\ op[t] \in {"lifecycle", "status"} => output[t] = Length

\* However a call ends, the process keeps neither end of its pipe, and no child that
\* nobody waits for: except after a failed read, where run_process_capture returns
\* without waitpid and leaves a zombie.
NothingLeaks ==
    \A t \in Threads : pc[t] \in Idle =>
        /\ Parent \notin writers[t] /\ t \notin reading
        /\ child[t] # "none" => t \in zombies

\* A thread whose systemctl has ended reaps it, though another thread's systemctl runs
\* for ever: its end of output depends on no other child (pipe2 with O_CLOEXEC,
\* close of the write end).
EndOfChildIsEnough ==
    \A t \in Threads :
        child[t] \in {"succeeded", "failed"} ~> child[t] = "none" \/ t \in zombies

\* When systemctl does its work every call returns: neither waits for the other on a
\* full pipe (run_process_capture reads to the end, then waits).
CallReturns == ChildrenWork => \A t \in Threads : pc[t] \in Steps ~> pc[t] \in Idle
=============================================================================
