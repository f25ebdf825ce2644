---------------------------- MODULE JobLifecycle ----------------------------
(***************************************************************************)
(* What the durable job queue promises to the code that enqueues a job     *)
(* (jobs/store.py, module docstring; operational-contracts.md, Background  *)
(* Job Contract), with leases, fencing tokens, workers and crashes left    *)
(* out: a job is tried at most MaxAttempts times, a try ends in success,   *)
(* in another try or in the dead letter, and an end is final.              *)
(*                                                                         *)
(* One transaction of the queue may move several jobs, so a step of this   *)
(* specification moves any set of jobs, each along an edge of its own.     *)
(***************************************************************************)
EXTENDS Naturals

CONSTANTS
    Job,            \* the job rows
    MaxAttempts     \* JobPolicy.max_attempts

VARIABLES
    phase,          \* phase[j]: where job j stands
    tries           \* tries[j]: how many times job j was started

lifecycleVars == <<phase, tries>>

Phase == {"absent", "pending", "running", "succeeded", "dead_letter", "pruned"}

Settled == {"succeeded", "dead_letter", "pruned"}

Init ==
    /\ phase = [j \in Job |-> "absent"]
    /\ tries = [j \in Job |-> 0]

Moves(j, from, to) == phase[j] = from /\ phase'[j] = to

SameTries(j) == tries'[j] = tries[j]

Submit(j) == Moves(j, "absent", "pending") /\ SameTries(j)

\* A try starts: a first or a later claim, or the takeover of a lost lease.
Try(j) ==
    /\ Moves(j, "pending", "running") \/ Moves(j, "running", "running")
    /\ tries[j] < MaxAttempts
    /\ tries'[j] = tries[j] + 1

Succeed(j) == Moves(j, "running", "succeeded") /\ SameTries(j)

\* A try that failed goes back to the queue only while tries are left.
Requeue(j) ==
    /\ Moves(j, "running", "pending")
    /\ tries[j] < MaxAttempts
    /\ SameTries(j)

\* A job is given up by its running try, or when the last try was lost.
GiveUp(j) == Moves(j, "running", "dead_letter") /\ SameTries(j)

Prune(j) == Moves(j, "succeeded", "pruned") /\ SameTries(j)

Stays(j) == phase'[j] = phase[j] /\ SameTries(j)

JobStep(j) ==
    \/ Submit(j) \/ Try(j) \/ Succeed(j) \/ Requeue(j)
    \/ GiveUp(j) \/ Prune(j) \/ Stays(j)

Next == \A j \in Job : JobStep(j)

\* Every job that was submitted ends.
Ends == \A j \in Job : phase[j] = "pending" ~> phase[j] \in Settled

SafeSpec == Init /\ [][Next]_lifecycleVars

Spec == SafeSpec /\ Ends
=============================================================================
