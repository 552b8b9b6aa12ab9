SPECIFICATION FairSpec
CONSTANTS
    Agents = {a1, a2}
    Keys = {write, read}
    Calls = {c1, c2}
    Mutating = {write}
    AtMostOnce = {write}
    Nobody = Nobody
INVARIANTS ActNeedsApproval KillSwitch NoRepeatAfterLedger IntentBeforeMutation
PROPERTIES ImplementsApproval PendingIsSettled MutationIsAccounted
CHECK_DEADLOCK FALSE
