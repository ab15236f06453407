CONSTANTS
  u1 = u1
  e1 = e1
  e2 = e2
  k1 = k1
  k2 = k2
  p2 = p2
  Users = {u1}
  Emails = {e1}
  Links = {l1}
  Passwords = {}
  Passkeys = {k1}
  Sessions = {s1}
  Strong = {}
  Purposes = {"verify"}
  Patches = {"name"}
  Activities = {}
  Root = {}
  Requests = {r1, r2}
  MaxPasswords = 2
  MaxVersion = 1
  MaxFaults = 0
  FirstEmail <- MCFirstEmail
  FirstPasswords <- Nothing
  FirstPasskeys <- OnePasskeyEach
SPECIFICATION Spec
PROPERTIES VerificationStands
CHECK_DEADLOCK FALSE
