SPECIFICATION FairSpec
CONSTANTS
    exe = exe
    vcam = vcam
    p1 = p1
    p2 = p2
    q1 = q1
    q2 = q2
    Ordinary = {exe}
    VirtualCam = {vcam}
    Programs = {p1, p2}
    Pids = {q1, q2}
    PoolSize = 2
    Interactive = TRUE
    MaxMeddling = 2
INVARIANTS TypeOK PanelHasAFuture NothingSlipsThrough
PROPERTY EventuallyDecided
CHECK_DEADLOCK FALSE
