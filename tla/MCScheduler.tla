---------------------------- MODULE MCScheduler ----------------------------
(* Instances of Scheduler for TLC: how the tasks are created.              *)
EXTENDS Scheduler

CONSTANTS first, second, third

(* A one-shot, a one-shot that depends on it, and a recurring task.        *)
KindOfTwo == [t \in {first, second} |-> "once"]
KindOfMixed == [t \in {first, third} |-> IF t = third THEN "cron" ELSE "once"]
ChainOfTwo == [t \in {first, second} |-> IF t = second THEN {first} ELSE {}]
NoDeps == [t \in {first, third} |-> {}]
OnThird == {{third}, {}}
=============================================================================
