\* Two Google sign-ins of one subject, and a deletion between them.
SPECIFICATION Spec
CONSTANTS
  Users = {u1, u2}
  Emails = {e1, e2}
  Passwords = {p1}
  Profiles = {pf1}
  Subjects = {s1}
  Tokens = {t1, t2, t3, t4}
  Requests = {r1, r2}
  Ops = {"signup", "google", "delete"}
  MaxFaults = 0
  None = None
PROPERTY
  GoogleSignInRestores
CHECK_DEADLOCK FALSE
