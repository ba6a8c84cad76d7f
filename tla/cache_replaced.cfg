SPECIFICATION Spec
CONSTANTS
  m1 = m1
  m2 = m2
  m3 = m3
  t1 = t1
  t2 = t2
  Memfds = {m1, m2, m3}
  IdentityOf <- TwoPools
  Threads = {t1, t2}
  MaxUid = 3
INVARIANTS KeyKeepsItsMemfd
CHECK_DEADLOCK FALSE
