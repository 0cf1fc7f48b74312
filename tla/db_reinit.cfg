SPECIFICATION FairSpec
CONSTANTS
    t1 = t1
    Threads = {t1}
    Main = t1
    Forked = TRUE
    Free = Free
    Parent = Parent
PROPERTY SessionIsServed
CHECK_DEADLOCK FALSE
