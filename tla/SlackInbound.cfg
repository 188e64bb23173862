SPECIFICATION FairSpec
CONSTANTS
  r1 = r1
  c1 = c1
  a1 = a1
  a2 = a2
  t1 = t1
  t2 = t2
  Msgs = {r1}
  Commands = {}
  Actions = {a1, a2}
  NoAction = NoAction
  Tasks = {t1, t2}
  NoTask = NoTask
  MaxDeliveries = 2
  MaxFaults = 1
INVARIANTS ResentOnlyAfterSlip UnsentForCause
PROPERTY EffectSettles
CHECK_DEADLOCK FALSE
