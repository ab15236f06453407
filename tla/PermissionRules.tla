--------------------------- MODULE PermissionRules ---------------------------
(***************************************************************************)
(* The rules of permission groups: which are well formed, what they name,   *)
(* when one matches a request, and how those of several groups are          *)
(* resolved.  A condition is a leaf, which compares one field with a set of *)
(* values (a single value is a set of one), or "and" or "or" over others.   *)
(***************************************************************************)
EXTENDS Naturals, FiniteSetsExt

CONSTANTS
  MaxDepth, MaxNodes,   \* MAX_PERMISSION_RULE_DEPTH, MAX_PERMISSION_RULE_NODES
  Conditions            \* the conditions that rules are made of, and their parts

(* Stands for openid, profile, email and offline_access.                    *)
Standard == {"openid"}

IsLeaf(c) == "field" \in DOMAIN c

ASSUME ConditionsAssumption ==
  /\ MaxDepth \in Nat /\ MaxNodes \in Nat
  /\ \A c \in Conditions : ~IsLeaf(c) => c.of \subseteq Conditions

(* inspectCondition. *)
Inspect[c \in Conditions, depth \in 1..(MaxDepth + 1)] ==
  IF depth > MaxDepth THEN [nodes |-> 1, valid |-> FALSE, standard |-> FALSE]
  ELSE IF IsLeaf(c)
  THEN [nodes |-> 1, valid |-> TRUE, standard |-> c.field = "scope" /\ c.values \cap Standard # {}]
  ELSE LET below(d) == Inspect[d, depth + 1]
           nodes == 1 + MapThenSumSet(LAMBDA d : below(d).nodes, c.of) IN
       [nodes |-> nodes,
        valid |-> c.of # {} /\ (\A d \in c.of : below(d).valid) /\ nodes <= MaxNodes,
        standard |-> \E d \in c.of : below(d).standard]

(* validatePermissionGroupRules, for one rule.                             *)
WellFormed(c) == Inspect[c, 1].valid /\ ~Inspect[c, 1].standard

(* conditionUsesScope, listPermissionRuleReferences.                        *)
UsesScope[c \in Conditions] == IF IsLeaf(c) THEN c.field = "scope" ELSE \E d \in c.of : UsesScope[d]

References[c \in Conditions] ==
  IF IsLeaf(c) THEN {<<c.field, v>> : v \in c.values} ELSE UNION {References[d] : d \in c.of}

(* permissionRuleMatches; "is" tells equals and in from not_equals and not_in. *)
Matches(condition, context) ==
  LET holds[c \in Conditions] ==
        CASE IsLeaf(c) -> (context[c.field] \in c.values) = c.is
          [] ~IsLeaf(c) /\ c.op = "and" -> \A d \in c.of : holds[d]
          [] OTHER -> \E d \in c.of : holds[d]
  IN  holds[condition]

Matching(rules, context, stage) ==
  {x \in rules : UsesScope[x.when] = (stage = "scope") /\ Matches(x.when, context)}

(* The rules that match at the smallest priority.                          *)
Winning(matching) ==
  {x \in matching : \A y \in matching : x.priority <= y.priority}

(* Slip: an allow wins ties.                                               *)
ResolveAllowFirst(rules, context, stage) ==
  \E x \in Winning(Matching(rules, context, stage)) : x.effect = "allow"

(* resolvePermissionRules. *)
Resolve(rules, context, stage) ==
  LET matching == Matching(rules, context, stage) IN
  /\ matching # {}
  /\ \A x \in Winning(matching) : x.effect # "deny"

(* What it is to compute: some allow comes before every deny.               *)
Permitted(rules, context, stage) ==
  LET matching == Matching(rules, context, stage) IN
  \E a \in matching :
    a.effect = "allow" /\ \A d \in matching : d.effect = "deny" => a.priority < d.priority
=============================================================================
