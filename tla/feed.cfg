SPECIFICATION FairSpec
CONSTANTS
    u1 = u1
    u2 = u2
    People = {u1, u2}
    Founder = u1
    Comments = {c1, c2}
    Options = {o1, o2}
    Reminders <- SomeReminders
    MaxNotices = 2
    MaxCount = 2
    Mixes <- Mixture
    Workers = {w1, w2}
    Nothing = Nothing
INVARIANTS CountersCount SentWasNotified RemindedOnce
PROPERTY FoundIsMarked
CHECK_DEADLOCK FALSE
