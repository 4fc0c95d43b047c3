\* Two accounts, two addresses, one Google subject, with time and purge running.
SPECIFICATION FairSpec
CONSTANTS
  Users = {u1, u2}
  Emails = {e1, e2}
  Passwords = {p1}
  Profiles = {pf1}
  Subjects = {s1}
  Tokens = {t1, t2}
  Requests = {r1, r2}
  Ops = {"signup", "login", "refresh", "google", "email", "delete"}
  MaxFaults = 1
  None = None
INVARIANT
  AccountsIntact
PROPERTIES
  AccountsKept
  RequestsEnd
CHECK_DEADLOCK FALSE
