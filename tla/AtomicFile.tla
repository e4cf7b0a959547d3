----------------------------- MODULE AtomicFile -----------------------------
(***************************************************************************)
(* What atomic_write_file and unlink_quadlet_file promise their callers: a *)
(* Quadlet that is replaced or removed in one step, and that after a power *)
(* loss is one of the texts it has had, whole, since it was last made      *)
(* durable.                                                                *)
(***************************************************************************)
CONSTANTS Texts, Absent

VARIABLES
    text,    \* the text readers see, or Absent
    durable  \* the texts, or Absent, a power loss may leave

Values == Texts \cup {Absent}

Init == text \in Values /\ durable = {text}

Replace(v) == text' = v /\ durable' = durable \cup {v}

\* Some of the older texts can no longer come back.
Sync == /\ durable' \in SUBSET durable
        /\ text \in durable'
        /\ UNCHANGED text

PowerLoss == text' \in durable /\ durable' = {text'}

Next == (\E v \in Values : Replace(v)) \/ Sync \/ PowerLoss

Spec == Init /\ [][Next]_<<text, durable>>
=============================================================================
