SPECIFICATION FairSpec
CONSTANTS
    c1 = c1
    c2 = c2
    c3 = c3
    s1 = s1
    s2 = s2
    Commands = {c1, c2, c3}
    CronJobs = {c1}
    Sessions = {s1, s2}
    SessionOf <- MCSessionOf
    LaneOrder <- MCLaneOrder
    Slots = {1, 2}
    MaxRestarts = 1
    MaxReloads = 1
INVARIANTS NoIdleSlot SessionSerial DrainedIsTrue
PROPERTY CalledIsSettled
CHECK_DEADLOCK FALSE

