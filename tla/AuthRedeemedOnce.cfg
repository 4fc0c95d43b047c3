\* Two refreshes of one token at the same time.
SPECIFICATION Spec
CONSTANTS
  Users = {u1}
  Emails = {e1}
  Passwords = {p1}
  Profiles = {pf1}
  Subjects = {}
  Tokens = {t1, t2, t3}
  Requests = {r1, r2}
  Ops = {"signup", "refresh"}
  MaxFaults = 0
  None = None
INVARIANT
  RedeemedOnce
CHECK_DEADLOCK FALSE
