------------------------- MODULE DeploymentTransaction -------------------------
(***************************************************************************)
(* What a caller of DeploymentOrchestrator::deploy() may think it is: one  *)
(* transaction on the Quadlet of one user.  It commits in one step, or it  *)
(* has not happened; the only other way it can end, which it reports (or   *)
(* dies of), leaves an accepted text or the old one, and is remembered in  *)
(* suspect until the next commit.  There is no rollback to be seen here,   *)
(* nor a text that was installed and withdrawn.                            *)
(***************************************************************************)
CONSTANTS
    Slots,      \* the Quadlets of all users
    Accepted,   \* texts the policy accepts
    Revisions   \* all texts, and the absence of a Quadlet

VARIABLES
    settled,    \* the text of each slot as the next deployment will find it
    committed,  \* the text of the last deployment that returned success
    suspect     \* slots a failed or dead deployment has left its text in

Init ==
    /\ settled \in [Slots -> Revisions]
    /\ committed = settled
    /\ suspect = {}

Commit(s, text) ==
    /\ settled' = [settled EXCEPT ![s] = text]
    /\ committed' = [committed EXCEPT ![s] = text]
    /\ suspect' = suspect \ {s}

LeaveBehind(s, text) ==
    /\ settled' = [settled EXCEPT ![s] = text]
    /\ suspect' = suspect \cup {s}
    /\ UNCHANGED committed

Next == \E s \in Slots :
           \/ \E text \in Accepted : Commit(s, text)
           \/ \E text \in Accepted \cup {settled[s]} : LeaveBehind(s, text)

Spec == Init /\ [][Next]_<<settled, committed, suspect>>
===============================================================================
