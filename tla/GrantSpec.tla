----------------------------- MODULE GrantSpec -----------------------------
(***************************************************************************)
(* What an authorization code, a device code or a link sent by e-mail       *)
(* promises.  It is offered once; then it is either refused or spent, and   *)
(* neither is taken back; a spent one is honoured at most once, with tokens *)
(* or with a change to the account, a refused one never.                    *)
(***************************************************************************)
EXTENDS Integers

CONSTANT Sources          \* codes and links

VARIABLES
  phase,                  \* "none", "offered", "refused" or "spent"
  honours                 \* how many times the source has been honoured

grantVars == <<phase, honours>>

Init ==
  /\ phase = [x \in Sources |-> "none"]
  /\ honours = [x \in Sources |-> 0]

Offer(x) ==
  /\ phase[x] = "none"
  /\ phase' = [phase EXCEPT ![x] = "offered"]
  /\ UNCHANGED honours

Spend(x) ==
  /\ phase[x] = "offered"
  /\ phase' = [phase EXCEPT ![x] = "spent"]
  /\ UNCHANGED honours

(* Deleting a resource refuses many device codes at a time.                *)
Refuse(X) ==
  /\ \A x \in X : phase[x] = "offered"
  /\ phase' = [x \in Sources |-> IF x \in X THEN "refused" ELSE phase[x]]
  /\ UNCHANGED honours

Honour(x) ==
  /\ phase[x] = "spent" /\ honours[x] = 0
  /\ honours' = [honours EXCEPT ![x] = 1]
  /\ UNCHANGED phase

Next ==
  \/ \E x \in Sources : Offer(x) \/ Spend(x) \/ Honour(x)
  \/ \E X \in SUBSET Sources : Refuse(X)

Spec == Init /\ [][Next]_grantVars
=============================================================================
