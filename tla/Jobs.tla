-------------------------------- MODULE Jobs --------------------------------
(***************************************************************************)
(* BullMQ, as the background processors use it: a job has an id, adding it  *)
(* again while it is there does nothing, one worker runs it at a time, an   *)
(* attempt that throws is repeated until the attempts are used up, and a    *)
(* job is removed when it completes or has failed for good.  A worker that  *)
(* is lost leaves its job to be run again.                                  *)
(***************************************************************************)
EXTENDS Calls

CONSTANTS
    Workers,    \* the handlers that run jobs
    JobIds,
    Attempts,   \* attempts a job is given
    MaxFaults   \* bounds the failures of one behaviour

ASSUME JobsAssumption == Workers \subseteq Handlers /\ Attempts \in Nat \ {0} /\ MaxFaults \in Nat

VARIABLES
    jobs,    \* attempts made of each job, or NoJob
    faults   \* failures so far

jobVars == <<jobs, faults>>

NoJob == -1
JobsInit == jobs = [j \in JobIds |-> NoJob] /\ faults = 0

Clients == Handlers \ Workers
WithJobs(added) == [j \in JobIds |-> IF j \in added /\ jobs[j] = NoJob THEN 0 ELSE jobs[j]]
Taken == {calls[w].job : w \in {v \in Workers : calls[v] # Idle}}
LastAttempt(j) == jobs[j] + 1 >= Attempts

(* A free worker takes a job that waits and begins at pc. *)
Take(w, j, pc) ==
    /\ calls[w] = Idle /\ jobs[j] # NoJob /\ j \notin Taken
    /\ calls' = [calls EXCEPT ![w] = [job |-> j, pc |-> pc]]
    /\ calm' = (calm /\ Quiet)
    /\ UNCHANGED made
Completed(j) == [jobs EXCEPT ![j] = NoJob]
Threw(j) == [jobs EXCEPT ![j] = IF LastAttempt(j) THEN NoJob ELSE jobs[j] + 1]

(* Something fails. *)
Fault == faults < MaxFaults /\ faults' = faults + 1
=============================================================================
