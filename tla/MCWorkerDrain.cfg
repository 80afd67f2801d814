CONSTANTS
  t1 = t1
  t2 = t2
  x1 = x1
  f1 = f1
  c1 = c1
  c2 = c2
  a1 = a1
  a2 = a2
  Stop = Stop
  Efd = Efd
  DrainExpiry = TRUE
  Tasks <- MCTasks
  Timers <- MCTimers
  Fds = {}
  Apps <- MCApps
  Ctxs <- MCCtxs
  CtxOf <- MCCtxOf
  MaxExec = 2

SPECIFICATION Spec


PROPERTY EventualDelivery
