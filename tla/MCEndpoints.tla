----------------------------- MODULE MCEndpoints -----------------------------
(* Access, MetadataClients, ClientAuth, Passkeys and Reauthentication for   *)
(* TLC.  They share no state: each initial state picks the component that   *)
(* moves, and the others rest in one of theirs, so that the state spaces    *)
(* add up instead of multiplying.                                          *)
EXTENDS Access, MetadataClients, ClientAuth, Passkeys, Reauthentication

VARIABLE focus

endpointVars == <<focus, accessVars, metadataVars, clientAuthVars, passkeyVars, reauthenticationVars>>

Leaf(field, is, values) == [field |-> field, is |-> is, values |-> values]
And(conditions) == [op |-> "and", of |-> conditions]
Rule(effect, when) == [effect |-> effect, when |-> when]

(* One of the documents is too deep to be accepted.                        *)
MCSubmissions ==
  {{Rule("allow", And({Leaf("application", TRUE, {"a"}), Leaf("api", TRUE, {"p"})})),
    Rule("allow", And({Leaf("api", TRUE, {"p"}), Leaf("scope", TRUE, {"s"})}))},
   {Rule("allow", Leaf("application", FALSE, {"a"})), Rule("allow", Leaf("scope", TRUE, {"s"}))},
   {Rule("deny", Leaf("application", TRUE, {"a", "b"}))},
   {Rule("allow", And({And({Leaf("api", TRUE, {"p"})})}))}}

MCLeaves ==
  {Leaf("application", TRUE, {"a"}), Leaf("application", FALSE, {"a"}), Leaf("application", TRUE, {"a", "b"}),
   Leaf("api", TRUE, {"p"}), Leaf("scope", TRUE, {"s"})}

MCConditions ==
  MCLeaves \cup {And({And({Leaf("api", TRUE, {"p"})})})}
    \cup {And(parts) : parts \in SUBSET {Leaf("application", TRUE, {"a"}), Leaf("api", TRUE, {"p"})}}
    \cup {And(parts) : parts \in SUBSET {Leaf("api", TRUE, {"p"}), Leaf("scope", TRUE, {"s"})}}

MCTokens ==
  {[kind |-> "access", app |-> "a", api |-> "p", scopes |-> {"openid", "s"}],
   [kind |-> "access", app |-> "b", api |-> "p", scopes |-> {"openid"}],
   [kind |-> "refresh", app |-> "a", api |-> "p", scopes |-> {"openid"}],
   [kind |-> "service", app |-> "b", api |-> "p", scopes |-> {"s"}]}

MCAssertions == {[jti |-> "j", exp |-> 1], [jti |-> "j", exp |-> 2]}

(* The states at rest.                                                     *)
AccessRests ==
  /\ bundle = [g \in Bundles |-> Min(Priorities)] /\ rules = [g \in Bundles |-> CHOOSE s \in Accepted : Cardinality(s) = 1]
  /\ "source" \in live
MetadataRests == admission = (CHOOSE p \in AdmissionPolicies : TRUE) /\ served = CHOOSE d \in Documents : TRUE
PasskeysRest == passkey = [k \in Keys |-> NoKey] /\ DOMAIN since = {CHOOSE u \in People : TRUE}
ReauthenticationRests ==
  browser[CHOOSE s \in Browsing : TRUE] = [NoBrowser EXCEPT !.st = "live", !.of = CHOOSE u \in Visitors : TRUE]

Init ==
  /\ focus \in {"access", "metadata", "authentication", "passkeys", "reauthentication"}
  /\ AccessInit /\ (focus # "access" => AccessRests)
  /\ MetadataInit /\ (focus # "metadata" => MetadataRests)
  /\ ClientAuthInit
  /\ PasskeysInit /\ (focus # "passkeys" => PasskeysRest)
  /\ ReauthenticationInit /\ (focus # "reauthentication" => ReauthenticationRests)

Next ==
  /\ UNCHANGED focus
  /\ IF focus = "access" THEN AccessNext ELSE UNCHANGED accessVars
  /\ IF focus = "metadata" THEN MetadataNext ELSE UNCHANGED metadataVars
  /\ IF focus = "authentication" THEN ClientAuthNext ELSE UNCHANGED clientAuthVars
  /\ IF focus = "passkeys" THEN PasskeysNext ELSE UNCHANGED passkeyVars
  /\ IF focus = "reauthentication" THEN ReauthenticationNext ELSE UNCHANGED reauthenticationVars

Spec == Init /\ [][Next]_endpointVars

(* The variables of each component have their types.                       *)
EndpointsTypeOK ==
  /\ AccessTypeOK /\ MetadataTypeOK /\ ClientAuthTypeOK /\ PasskeysTypeOK /\ ReauthenticationTypeOK

(* Two requests about metadata clients overlap up to the third event from   *)
(* outside; the later ones come one after the other.                        *)
LaterInTurn == visits <= 3 \/ Cardinality({v \in Visits : visit[v].pc # "away"}) <= 1

(* Requests are interchangeable, and so are sessions.                       *)
Interchangeable == Permutations(Calls) \cup Permutations(Browsing)
=============================================================================
