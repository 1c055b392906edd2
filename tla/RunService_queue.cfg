SPECIFICATION RSFiniteSpec
CONSTANTS
    t1 = t1  t2 = t2  t3 = t3
    r1 = r1  r2 = r2
    Threads = {t1, t2, t3}
    Clients = {r1}
    NoThread = NoThread
    Cron = TRUE
CHECK_DEADLOCK FALSE
PROPERTY QueuedRunIsTaken
