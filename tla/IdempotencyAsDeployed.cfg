\* What the client of a deployed API sees: the interceptor is in no list of interceptors.
SPECIFICATION MCSpec
CONSTANTS
    c1 = c1  c2 = c2  c3 = c3  s1 = s1  s2 = s2  p1 = p1  p2 = p2  x1 = x1  x2 = x2  y1 = y1
    r1 = r1  r2 = r2  q1 = q1  q2 = q2  w1 = w1  w2 = w2
    KeyA = KeyA  CartA = CartA  CartB = CartB  Pay = Pay
    \* Idempotency
    Callers = {c1, c2, c3}
    NoCaller = NoCaller
    Keys = {KeyA}
    NoKey = NoKey
    Operations <- MCOperations
    Installed = FALSE
    NoHash = NoHash
    OrgOnRequest = TRUE
    \* RateLimit
    Servers = {s1, s2}
    Calls = {c1, c2, c3}
    Limit = 1
    Window = 2
    MaxTime = 2
    \* JobRunner
    Processes = {p1, p2}
    Conns = {x1, x2, y1}
    PoolOf <- MCPoolOf
    Cycles = {r1, r2, c1}
    RunBy <- MCRunBy
    MaxDepth = 3
    NoConn = NoConn
    NoProcess = NoProcess
    \* IntegrationJobs
    InitAt <- MCRunnerLast
    Requests = {q1, q2}
    DedupeKeys = {KeyA}
    NoDedupe = NoDedupe
    Slots = {w1, w2}
    NoSlot = NoSlot
    MaxAttempts = 2
    MaxStalled = 1
PROPERTY OncePerKey
CHECK_DEADLOCK FALSE
