--------------------------- MODULE SchedulerLeases ---------------------------
(* The leases of the scheduled jobs (src/app/services/scheduler_leases.py and *)
(* the wrappers of src/app/main.py): every instance of the app starts every   *)
(* job at its interval, and runs it if it can take the job's row.             *)
(*                                                                            *)
(* The row holds the time at which the lease ends.  Each instance compares    *)
(* it with its own clock, which may be ahead of the slowest one by its skew;  *)
(* `left` is what remains of a lease on the slowest clock.  The code sets no  *)
(* limit on a run: MaxRun is what it takes for the leases to work.            *)
EXTENDS Integers, FiniteSets

CONSTANTS
    Jobs, Instances,
    Lease,     \* how long a lease lasts
    MaxRun,    \* the longest run of a job
    MaxSkew,   \* the most that two clocks differ by
    Skew       \* [Instances -> 0..MaxSkew]

ASSUME LeasesTyped ==
    /\ {Lease, MaxRun, MaxSkew} \subseteq Nat
    /\ Skew \in [Instances -> 0..MaxSkew]
    /\ MaxRun + MaxSkew < Lease

VARIABLES
    left,   \* the time left of each job's lease
    ran     \* how long an instance has been running a job, NotRunning if it is not

leaseVars == <<left, ran>>

NotRunning == -1

LeaseInit ==
    /\ left = [j \in Jobs |-> 0]
    /\ ran = [j \in Jobs |-> [i \in Instances |-> NotRunning]]

(* Mutant: the row is taken whoever holds it.                                *)
LapsedAlways(j, i) == TRUE

(* The lease has ended on the clock of i.                                    *)
Lapsed(j, i) == left[j] <= Skew[i]

(* The upsert of claim_scheduler_job, one statement.                          *)
Claim(j, i) ==
    /\ ran[j][i] = NotRunning
    /\ Lapsed(j, i)
    /\ left' = [left EXCEPT ![j] = Lease + Skew[i]]
    /\ ran' = [ran EXCEPT ![j] = [ran[j] EXCEPT ![i] = 0]]

Finish(j, i) ==
    /\ ran[j][i] # NotRunning
    /\ ran' = [ran EXCEPT ![j] = [ran[j] EXCEPT ![i] = NotRunning]]
    /\ UNCHANGED left

(* The lease of a run that is cut short stays until it ends.                  *)
Stopped(i) ==
    /\ ran' = [j \in Jobs |-> [ran[j] EXCEPT ![i] = NotRunning]]
    /\ UNCHANGED left

Tick ==
    /\ \A j \in Jobs, i \in Instances : ran[j][i] < MaxRun
    /\ left' = [j \in Jobs |-> IF left[j] > 0 THEN left[j] - 1 ELSE 0]
    /\ ran' = [j \in Jobs |-> [i \in Instances |->
                 IF ran[j][i] = NotRunning THEN NotRunning ELSE ran[j][i] + 1]]

LeaseNext ==
    \/ Tick
    \/ \E i \in Instances : Stopped(i) \/ \E j \in Jobs : Claim(j, i) \/ Finish(j, i)

LeaseSpec == LeaseInit /\ [][LeaseNext]_leaseVars

Running(j) == {i \in Instances : ran[j][i] # NotRunning}

----------------------------------------------------------------------------
(* Properties                                                                *)

LeaseTypeOK ==
    /\ left \in [Jobs -> 0..(Lease + MaxSkew)]
    /\ ran \in [Jobs -> [Instances -> NotRunning..MaxRun]]

(* A run is covered by a lease that lasts as long as it may take, on every    *)
(* clock: the invariant that keeps a second instance out.                     *)
RunsCovered ==
    \A j \in Jobs : \A i \in Running(j) : left[j] + ran[j][i] >= Lease + Skew[i]

(* A job is not run by two instances at once (claim_scheduler_job), as long   *)
(* as its runs and the clocks keep to their bounds.                           *)
RunsAlone == \A j \in Jobs : \A i, k \in Running(j) : i = k

Exclusive == INSTANCE ExclusiveJob WITH runners <- [j \in Jobs |-> Running(j)]

(* Leases make the jobs exclusive, also when instances go down.               *)
ImplementsExclusiveJob == Exclusive!Spec

=============================================================================
