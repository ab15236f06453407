-------------------------- MODULE MCRefreshTokens --------------------------
(* RefreshTokens for TLC: the constants are model values and small sets    *)
(* given in the .cfg files; Families are numbers because the prune orders  *)
(* them.                                                                   *)
EXTENDS RefreshTokens, TLC

(* Worker invocations are interchangeable, and so are scopes.              *)
Symmetric == Permutations(Requests) \cup Permutations(Scopes)

(* The late part of a life, expiry and clean-up, is explored without        *)
(* faults or narrowing, for one client, and one request at a time.          *)
SmallWhenOld ==
  clock > 1 => /\ faults = 0 /\ \A f \in Families : family[f].generation <= 1
               /\ \A f \in Families : family[f].scope # {} => family[f].scope = Scopes
               /\ \A f \in Families : row[f].st # "absent" => row[f].client = AnyOf(Clients)
               /\ \A r, q \in Requests : r # q => req[r].pc = "idle" \/ req[q].pc = "idle"
=============================================================================
