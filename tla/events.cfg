SPECIFICATION FairEvents
CONSTANTS
    run = run
    deployment = deployment
    notifier = notifier
    testWait = testWait
    deploymentWait = deploymentWait
    eventWait = eventWait
    NoOne = NoOne
    Runs = {run}
    Deployments = {}
    Notifiers = {notifier}
    TestWaits = {testWait}
    DeploymentWaits = {}
    EventWaits = {eventWait}
    Subject <- MCSubject
    Timed = {testWait}
    Leaving = {eventWait}
    Revocable = {testWait}
    AppendMayFail = TRUE
    Retained = 2
    CommandCapacity = 1
    MaxSubscriptions = 1
    Limit = 1
    MaxCursor = 2
    MaxFaults = 1
CHECK_DEADLOCK FALSE
INVARIANTS
    NoRetainedEventPassed
    SubscriptionIsCancelled
    FinishedRunWakesItsWaiter
PROPERTIES
    WaitsEnd
