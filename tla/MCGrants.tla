------------------------------ MODULE MCGrants ------------------------------
(* Grants for TLC: sessions and their owners, and interchangeable names.   *)
EXTENDS Grants, TLC

CONSTANTS u1, u2, s1, s2

MCOwnerOf == [s \in Sessions |-> IF s = s2 /\ u2 \in Users THEN u2 ELSE u1]
Symmetric == Permutations(Requests) \cup Permutations(Issues) \cup Permutations(Scopes)

(* Two stories in one run.  A code: one user, every choice of scopes, a     *)
(* fault.  A device: two users who may decide, all scopes.  In both one     *)
(* application does everything; another one, agreed to for all scopes, is   *)
(* there to exchange what is not its own.  The sessions of one user end,    *)
(* those of the other stay.                                                *)
Application == NoRequest.client
OneApplication ==
  /\ \A r \in Requests :
       \/ req[r].client = Application
       \/ req[r].scope = Scopes /\ req[r].pc \in {"save", "store", "check", "issue", "record", "respond"}
  /\ \A u \in Users \ {u1} : enabled[u] /\ \A s \in Sessions \ {s1} : live[s]
CodeStory ==
  /\ \A d \in Devices : device[d].st = "none"
  /\ \A r \in Requests : req[r].user \in {NoRequest.user, u1}
DeviceStory ==
  /\ faults = 0 /\ \A k \in Codes : code[k].st = "none"
  /\ \A r \in Requests : req[r].pc \notin {"consent", "save", "store"}
  /\ \A d \in Devices : device[d].client = Application /\ device[d].scope \in {{}, Scopes}
  /\ \A u \in Users : consent[u, Application] \in {{}, Scopes}

StoriesSpec == Init /\ [][Next /\ OneApplication' /\ (CodeStory \/ DeviceStory)']_vars

(* The story of a revoked application: the resource stays registered, so    *)
(* consent is lost by revoking it and not with the resource.               *)
ResourceStays == api
=============================================================================
