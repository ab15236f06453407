--------------------------- MODULE RefreshExpiry ---------------------------
(***************************************************************************)
(* RefreshTokens with a history variable: the session each family was      *)
(* issued from.  D1 forgets it when the session row is deleted (ON DELETE   *)
(* SET NULL), and a row without a session passes for one that never had     *)
(* any.                                                                    *)
(***************************************************************************)
EXTENDS RefreshTokens

VARIABLE source   \* source[f]: the session_id the row of f was inserted with

histVars == <<vars, source>>

HistInit == Init /\ source = [f \in Families |-> NoSession]

HistNext ==
  /\ Next
  /\ source' = [f \in Families |-> IF row[f].st = "absent" THEN row'[f].session ELSE source[f]]

HistSpec == HistInit /\ [][HistNext]_histVars

(* handleRefreshToken refuses a family whose source session "was revoked,  *)
(* expired, or changed owner"; a request that gets past that check is one  *)
(* whose family's source session, if it had one, is unexpired right then.  *)
ExpiredSessionEndsFamily ==
  [][\A r \in Requests :
       (/\ req[r].pc = "policy" /\ req'[r].pc = "rotate"
        /\ source[req[r].fam] # NoSession)
         => clock < sess[source[req[r].fam]].expiresAt]_histVars
=============================================================================
