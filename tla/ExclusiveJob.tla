---------------------------- MODULE ExclusiveJob ----------------------------
(* What the scheduled jobs promise (src/app/services/scheduler_leases.py,     *)
(* "Allow only one app instance to start a scheduled job per lease window"):  *)
(* of the app's instances at most one is running a job.                       *)
EXTENDS FiniteSets

CONSTANTS Jobs, Instances

VARIABLE runners   \* the instances that are running each job

Init == runners = [j \in Jobs |-> {}]

Start(j, i) == /\ runners[j] = {}
               /\ runners' = [runners EXCEPT ![j] = {i}]

Stop(j, i) == /\ i \in runners[j]
              /\ runners' = [runners EXCEPT ![j] = {}]

(* An instance goes down with all it runs.                                   *)
Down(i) == runners' = [j \in Jobs |-> runners[j] \ {i}]

Next == \E i \in Instances : Down(i) \/ \E j \in Jobs : Start(j, i) \/ Stop(j, i)

Spec == Init /\ [][Next]_runners
=============================================================================
