SPECIFICATION Spec
CONSTANTS
    t1 = t1  t2 = t2  h = h  c = c
    Tokens = {t1, t2}
    Keys = {h, c}
    Home = h
    Workers = {w1, w2}
    None = None
    Pairs <- Shared
    Subscriptions <- Shared
    maxSize = 1
    purgeSeconds = 0
    MaxChanges = 2
    MaxEvents = 3
INVARIANTS TypeOK NothingForgotten
PROPERTIES ErrorHitsItsToken ResubscribedStays PromiseKept
CHECK_DEADLOCK FALSE
