\* Three threads contend, two calls each, one nested in the other: the condition
\* variable has two sleepers to choose from, and awake threads barge in.
CONSTANTS
    Thread = {t1, t2, t3}
    NoThread = NoThread
    MaxCalls = 2
    MaxDepth = 2
SPECIFICATION FairSpec
INVARIANTS TypeOK TakesTurns NoLostWakeup SlotEmptyWhenFree CollectsOwnEvents
PROPERTIES ImplementsSerialParses CallsReturn
