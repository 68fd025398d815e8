CONSTANTS
    Procs = {p1, p2}
    Hour = 2
    Day = 3
    MaxProbe = 4
    Crons <- MCCrons
    Triggers <- MCTriggers
    Hooks <- MCHooks
    Payloads = {"a", "b"}
    Iterations = 2
    Torn = Torn
    None = None
    MaxTime = 1
    MaxCalls = 3
    MaxFaults = 1
SPECIFICATION FairSpec
INVARIANTS CountersAreCovered OnceAMinute EventsAreQueued
PROPERTIES RunnerReportsItsEnd
CHECK_DEADLOCK FALSE
