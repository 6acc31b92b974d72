---------------------------- MODULE RunLifecycle ----------------------------
(***************************************************************************)
(* What PufferLab promises of an evaluation run, whoever executes it: the  *)
(* life cycle drawn by _ALLOWED_TRANSITIONS and the job invariants of the  *)
(* contracts document.  A run is a phase and the set of (config, query)    *)
(* attempts whose outcome is durable.  The runs are independent of each    *)
(* other, so one step may move several of them (start-up recovery does).   *)
(***************************************************************************)

CONSTANTS Runs, Attempts

VARIABLES phase, durable

vars == <<phase, durable>>

Terminal == {"completed", "failed", "cancelled", "interrupted"}

\* The order matters: a run is created queued and is claimed before it ends.
Allowed ==
  [ absent  |-> {"queued"},
    queued  |-> {"running", "failed", "cancelled"},
    running |-> Terminal ]

Init ==
  /\ phase = [r \in Runs |-> "absent"]
  /\ durable = [r \in Runs |-> {}]

Stays(r) ==
  /\ phase'[r] = phase[r]
  /\ durable'[r] = durable[r]

\* An outcome becomes durable, and stays so, only while its run executes.
Records(r) ==
  /\ phase[r] = "running"
  /\ phase'[r] = "running"
  /\ \E a \in Attempts : durable'[r] = durable[r] \union {a}

\* A run changes phase along an allowed edge and touches no outcome; it
\* completes only when every attempt is durable.
Moves(r) ==
  /\ phase[r] \in {"absent", "queued", "running"}
  /\ phase'[r] \in Allowed[phase[r]]
  /\ phase'[r] = "completed" => durable[r] = Attempts
  /\ durable'[r] = durable[r]

Next == \A r \in Runs : Stays(r) \/ Records(r) \/ Moves(r)

Spec == Init /\ [][Next]_vars

=============================================================================
