CONSTANTS
    i1 = i1  i2 = i2  s1 = s1
    NoCap = NoCap
    Ids <- TwoIds
    Sizes = {1, 2}
    Caps = {1, 2}
    ChanMax = 2
    Subs <- OneStream
    Filters <- SomeFilters
    Calls <- TimedOnly
SPECIFICATION Spec
INVARIANTS
    TypeOK
    UsageWithinQuota
    ReplicaFollows
PROPERTY TimedOutUnlessBusy
\* When the tenant and the stream are dropped nothing is left to do.
CHECK_DEADLOCK FALSE
