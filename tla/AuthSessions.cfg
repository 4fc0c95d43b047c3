\* One account: sign-up, login, rotation, replay, edits, deletion, restoration, purge.
SPECIFICATION Spec
CONSTANTS
  Users = {u1}
  Emails = {e1, e2}
  Passwords = {p1, p2}
  Profiles = {pf1, pf2}
  Subjects = {}
  Tokens = {t1, t2, t3, t4}
  Requests = {r1, r2}
  Ops = {"signup", "login", "refresh", "delete", "email", "password", "profile"}
  MaxFaults = 1
  None = None
INVARIANTS
  SignedOutUnlessOvertaken
  UsedBeforeSuccessor
PROPERTY
  DeletedRowsFrozen
SYMMETRY Interchangeable
CHECK_DEADLOCK FALSE
