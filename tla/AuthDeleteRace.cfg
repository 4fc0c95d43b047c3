\* A refresh in flight while the account is deleted.
SPECIFICATION Spec
CONSTANTS
  Users = {u1}
  Emails = {e1}
  Passwords = {p1}
  Profiles = {pf1}
  Subjects = {}
  Tokens = {t1, t2, t3}
  Requests = {r1, r2}
  Ops = {"signup", "refresh", "delete"}
  MaxFaults = 0
  None = None
INVARIANT
  DeletedMeansSignedOut
CHECK_DEADLOCK FALSE
