-------------------------- MODULE MCStandingTrail --------------------------
\* A trail with nothing on it, and one a manual analysis began: it spent the
\* reserve, its gate failed, and the first tick's task waits for honey.
EXTENDS StandingTrail, DirectChecks

Fresh == [trace |-> EmptyTrace, past |-> {}, runs |-> {}, lines |-> {}, origin |-> NoOrigin]

Waiting ==
    LET spent == ReduceEnergyConsume(MarkEnergySeedPublished(EnsureEnergySeed(EmptyTrace)), 1)
        spec == [phase |-> "work", deps |-> {}, bee |-> Builder]
        kicked == ReduceTaskReady(ReduceTaskPlan(spent, [k \in {1} |-> spec], FALSE, FALSE, 1),
                                  1, Builder)
    IN  [trace |-> ClaimEnergyPausePublished(
                        DeferPendingDispatch(kicked, TaskDispatch(1, Builder), FALSE, FALSE)),
         past |-> {1},
         runs |-> {[agent |-> 100, task |-> 0, bee |-> "none", purpose |-> "analysis",
                    gate |-> "failed", state |-> "failed", milestone |-> 1],
                   [agent |-> 101, task |-> 0, bee |-> "none", purpose |-> "none",
                    gate |-> "none", state |-> "completed", milestone |-> 0]},
         lines |-> {Said("seeded", 0), Line("consume", 0, 0, 0, "analysis"),
                    Line("rejected", 0, 100, 100, "none"), Line("paused", 0, 0, 1, "none")},
         origin |-> [kind |-> "manual", invocation |-> 0]]

TrailsBefore == {Fresh, Waiting}
=============================================================================
