----------------------------- MODULE MCAccounts -----------------------------
(* Accounts for TLC: who starts with which address and which login methods. *)
EXTENDS Accounts, TLC

CONSTANTS u1, e1, e2, k1, k2, p2

Nothing == [u \in Users |-> {}]
OnePasskey == [u \in Users |-> IF u = u1 THEN {k1} ELSE {k2}]

MCFirstEmail == [u \in Users |-> IF u = u1 THEN e1 ELSE e2]
OnePassword == [u \in Users |-> IF u = u1 THEN {p2} ELSE {}]
NewOrNot == {Nothing, OnePasskey}
OnePasskeyEach == {OnePasskey}
Symmetric == Permutations(Requests) \cup Permutations(Links)

(* Two stories in one run.  Two accounts with the login methods they have     *)
(* change their addresses; or one account has its password reset while its   *)
(* role and its login methods change, and the other account stays as it is.  *)
Story(purpose) ==
  /\ \A l \in Links : Unused(l) \/ link[l].purpose = purpose
  /\ \A r \in Requests : req[r].pc \in {"version", "row", "store"} => req[r].purpose = purpose
AddressStory ==
  /\ Story("change")
  /\ \A u \in Users : user[u].version <= 1 /\ user[u].passwords = FirstPasswords[u]
  /\ \A r \in Requests : req[r].key = None
MethodStory ==
  /\ Story("reset")
  /\ \A u \in Users \ {u1} :
       user[u].version = 0 /\ \A r \in Requests : req[r].pc # "idle" => req[r].user # u
  /\ \A s \in Sessions : sess[s].st = "none"
EitherStory == AddressStory \/ MethodStory
=============================================================================
