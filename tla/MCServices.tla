----------------------------- MODULE MCServices -----------------------------
(* RateLimit and Delivery for TLC.  The counter, the audit queue and the    *)
(* e-mail queue share no state: an initial state picks the one that moves.  *)
EXTENDS RateLimit, Delivery

VARIABLE focus

servicesVars == <<focus, rateLimitVars, deliveryVars>>

Init == focus \in {"limit", "audit", "mail"} /\ RateLimitInit /\ DeliveryInit

Unsent(messages) == messages \cap (told \cup Queued) = {}

Next ==
  /\ UNCHANGED focus
  /\ IF focus = "limit" THEN RateLimitNext ELSE UNCHANGED rateLimitVars
  /\ IF focus # "limit" THEN DeliveryNext ELSE UNCHANGED deliveryVars
  /\ (focus = "audit" => Unsent(Mails))' /\ (focus = "mail" => Unsent(Events))'

Spec == Init /\ [][Next]_servicesVars /\ DeliveryFairness
=============================================================================
