------------------------- MODULE RefreshFamilySpec -------------------------
(***************************************************************************)
(* What a refresh-token family promises to the party that holds its        *)
(* tokens, without Durable Objects, D1 rows or requests.  A family is       *)
(* opened with one token; from then on a token is handed out, exchanged     *)
(* for its only successor, the successor is handed out, and so on, until    *)
(* the family is closed.  A closed family is closed for good.               *)
(***************************************************************************)
EXTENDS Integers

CONSTANT Families

VARIABLES
  phase,    \* phase[f]: "none", "open" or "closed"
  tip,      \* tip[f]: the only token of f that can be exchanged
  handed    \* handed[f]: the tokens of f that have left the server

specVars == <<phase, tip, handed>>

Init ==
  /\ phase = [f \in Families |-> "none"]
  /\ tip = [f \in Families |-> 0]
  /\ handed = [f \in Families |-> {}]

(* Only the newest token, and only once it has been handed out, is         *)
(* exchanged; its successor is a token nobody has ever held.               *)
Exchange(f) ==
  /\ phase[f] = "open"
  /\ tip[f] \in handed[f]
  /\ tip'[f] \notin handed[f]
  /\ tip' = [tip EXCEPT ![f] = tip'[f]]
  /\ UNCHANGED <<phase, handed>>

(* A response carries the newest token.  The response may still be on its  *)
(* way when the family is closed: the token it carries is then dead.       *)
HandOut(f) ==
  /\ phase[f] # "none"
  /\ handed' = [handed EXCEPT ![f] = @ \cup {tip[f]}]
  /\ UNCHANGED <<phase, tip>>

(* A family starts with its first token, which nobody holds yet; starting *)
(* it may close older families of the same user and client.                *)
Open(f, F) ==
  /\ phase[f] = "none"
  /\ \A g \in F : phase[g] = "open"
  /\ phase' = [g \in Families |-> IF g = f THEN "open"
                                  ELSE IF g \in F THEN "closed"
                                  ELSE phase[g]]
  /\ UNCHANGED <<tip, handed>>

(* Families are closed one by one or many at a time: a logout closes every *)
(* family of the session.                                                  *)
Close(F) ==
  /\ \A f \in F : phase[f] = "open"
  /\ phase' = [f \in Families |-> IF f \in F THEN "closed" ELSE phase[f]]
  /\ UNCHANGED <<tip, handed>>

Next ==
  \/ \E f \in Families : Exchange(f) \/ HandOut(f)
  \/ \E F \in SUBSET Families : Close(F) \/ \E f \in Families : Open(f, F)

Spec == Init /\ [][Next]_specVars
=============================================================================
