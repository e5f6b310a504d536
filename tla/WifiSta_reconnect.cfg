\* The disconnect event may come before the task has suspended itself.
SPECIFICATION FairSpec
CONSTANTS
    MaxEvents = 3
    AttemptsMod = 14
PROPERTIES
    ReconnectsAfterLoss
CHECK_DEADLOCK FALSE
