CONSTANTS
  u1 = u1
  e1 = e1
  e2 = e2
  k1 = k1
  k2 = k2
  p2 = p2
  Users = {u1, u2}
  Emails = {e1, e2, e3}
  Links = {l1, l2}
  Passwords = {p1, p2}
  Passkeys = {k1, k2}
  Sessions = {s1, s2}
  Strong = {p2}
  Purposes = {"change", "reset"}
  Patches = {}
  Activities = {"passwords", "promote"}
  Root = {}
  Requests = {r1, r2}
  MaxPasswords = 1
  MaxVersion = 2
  MaxFaults = 0
  FirstEmail <- MCFirstEmail
  FirstPasswords <- OnePassword
  FirstPasskeys <- OnePasskeyEach
SPECIFICATION Spec
CONSTRAINT EitherStory
SYMMETRY Symmetric
INVARIANTS EmailsUnique
PROPERTIES LoginMethodRemains
CHECK_DEADLOCK FALSE
