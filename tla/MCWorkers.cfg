CONSTANTS
    c1 = c1  c2 = c2
    t1 = t1  t2 = t2  t3 = t3
    r1 = r1  r2 = r2
    Clients <- MCClients
    Tasks <- MCTasks
    Runs <- MCRuns
    Limits <- MCLimits
    NoRun = NoRun
    NoTask = NoTask
SPECIFICATION FairSpec
INVARIANTS NoLostWakeup SlotAccounting OneDispatcher
PROPERTIES ImplementsTaskQueue StopTerminates ServedWhileRunning
