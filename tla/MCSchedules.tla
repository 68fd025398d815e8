---------------------------- MODULE MCSchedules ----------------------------
(* A day of three hours with two minutes each; next_run looks four minutes *)
(* ahead, so a job that is due once a day has no next run when it is run.  *)
EXTENDS Schedules

MCCrons == {[minute |-> Step(1), hour |-> Step(1)],
            [minute |-> Ranges({<<1, 1>>}), hour |-> Step(3)]}

MCTriggers == {[event |-> "saved", filter |-> None], [event |-> "saved", filter |-> "b"]}

MCHooks == {[name |-> "in", event |-> "saved"], [name |-> "in", event |-> "pushed"]}
=============================================================================
