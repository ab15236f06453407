----------------------------- MODULE AccessProofs -----------------------------
(***************************************************************************)
(* Proofs about PermissionRules and Access for every set of conditions,     *)
(* rule documents, groups, clients, APIs, tokens and concurrent             *)
(* invocations, and about the composition of Access with the other          *)
(* components of MCEndpoints.                                               *)
(***************************************************************************)
EXTENDS MCEndpoints, CredentialsProofs, WellFoundedInduction, SequenceTheorems

-----------------------------------------------------------------------------
(* Resolving rules.                                                        *)

(* Some element of a non-empty set of numbers is the smallest.              *)
LEMMA SmallestExists ==
  ASSUME NEW S, S \subseteq Nat, S # {}
  PROVE  \E n \in S : \A m \in S : n <= m
<1>1. PICK n \in S : \A m \in S : ~(<<m, n>> \in OpToRel(<, Nat))
  BY NatLessThanWellFounded, WFMin, Zenon
<1>2. \A m \in S : ~(m < n)
  BY <1>1 DEF OpToRel
<1> QED BY <1>2

LEMMA MinIsLeast ==
  ASSUME NEW S, S \subseteq Nat, S # {}
  PROVE  Min(S) \in S
BY SmallestExists DEF Min

Ranked(x) == x.priority \in Nat /\ x.effect \in {"allow", "deny"}

(* In a non-empty set of rules some have the smallest priority.             *)
LEMMA SomeWin ==
  ASSUME NEW matching, \A x \in matching : Ranked(x), matching # {}
  PROVE  Winning(matching) # {}
<1> DEFINE S == {x.priority : x \in matching}
<1>1. S \subseteq Nat /\ S # {}
  BY DEF Ranked
<1>2. PICK n \in S : \A m \in S : n <= m
  BY <1>1, SmallestExists
<1>3. PICK x \in matching : x.priority = n
  OBVIOUS
<1> QED BY <1>2, <1>3 DEF Winning

(* The winners hold no deny exactly if an allow comes before every deny.    *)
LEMMA WinnersAgree ==
  ASSUME NEW matching, \A x \in matching : Ranked(x)
  PROVE  (matching # {} /\ \A x \in Winning(matching) : x.effect # "deny")
           <=> \E a \in matching : /\ a.effect = "allow"
                                   /\ \A d \in matching : d.effect = "deny" => a.priority < d.priority
<1>1. ASSUME matching # {}, \A x \in Winning(matching) : x.effect # "deny"
      PROVE  \E a \in matching : /\ a.effect = "allow"
                                 /\ \A d \in matching : d.effect = "deny" => a.priority < d.priority
  <2>1. PICK a \in Winning(matching) : TRUE
    BY <1>1, SomeWin
  <2>2. a \in matching /\ a.effect = "allow" /\ \A y \in matching : a.priority <= y.priority
    BY <1>1, <2>1 DEF Winning, Ranked
  <2>3. ASSUME NEW d \in matching, d.effect = "deny" PROVE a.priority < d.priority
    <3>1. d \notin Winning(matching)
      BY <1>1, <2>3
    <3>2. PICK y \in matching : ~(d.priority <= y.priority)
      BY <3>1, <2>3 DEF Winning
    <3> QED BY <2>2, <3>2, <2>3 DEF Ranked
  <2> QED BY <2>2, <2>3
<1>2. ASSUME NEW a \in matching, a.effect = "allow",
             \A d \in matching : d.effect = "deny" => a.priority < d.priority
      PROVE  matching # {} /\ \A x \in Winning(matching) : x.effect # "deny"
  <2>1. ASSUME NEW x \in Winning(matching), x.effect = "deny" PROVE FALSE
    <3>1. x \in matching /\ x.priority <= a.priority
      BY <2>1, <1>2 DEF Winning
    <3> QED BY <3>1, <2>1, <1>2 DEF Ranked
  <2> QED BY <2>1, <1>2
<1> QED BY <1>1, <1>2

LEMMA ResolvesAsPermitted ==
  ASSUME NEW rs, \A x \in rs : Ranked(x), NEW context, NEW stage
  PROVE  Resolve(rs, context, stage) <=> Permitted(rs, context, stage)
<1>1. \A x \in Matching(rs, context, stage) : Ranked(x)
  BY DEF Matching
<1> QED BY <1>1, WinnersAgree DEF Resolve, Permitted

(* If no deny is lost, what fewer rules permit all of them do.              *)
LEMMA FewerPermitLess ==
  ASSUME NEW rs, NEW some \in SUBSET rs, \A x \in rs \ some : x.effect # "deny",
         NEW context, NEW stage, Permitted(some, context, stage)
  PROVE  Permitted(rs, context, stage)
<1>1. Matching(some, context, stage) \subseteq Matching(rs, context, stage)
  BY DEF Matching
<1>2. \A d \in Matching(rs, context, stage) : d.effect = "deny" => d \in Matching(some, context, stage)
  BY DEF Matching
<1> QED BY <1>1, <1>2 DEF Permitted
-----------------------------------------------------------------------------
(* Type correctness of Access: what is stored was validated, and what an    *)
(* invocation carries over an await is what its later steps take it for.    *)

RuleRecords == [effect : {"allow", "deny"}, when : Conditions]

Stored(rs) == rs \subseteq RuleRecords /\ \A x \in rs : WellFormed(x.when)

CallRecords ==
  [pc : {"idle", "check", "active", "references", "rules", "configure", "register", "update", "insert"},
   on : Bundles \cup Apps \cup {"none"}, apis : SUBSET Apis, scopes : SUBSET Scopes,
   rules : SUBSET RuleRecords, token : Tokens \cup {"none"}, todo : Seq(Facts)]

CallHolds(c) ==
  /\ c.pc \in {"check", "active"} => c.token \in Tokens
  /\ c.pc = "check" => c.todo # << >>
  /\ c.pc \in {"references", "rules"} => c.on \in Bundles /\ Stored(c.rules)
  /\ c.pc \in {"configure", "register", "update", "insert"} => c.on \in Apps

StoreInv ==
  /\ bundle \in [Bundles -> Priorities \cup {Unranked}] /\ joined \subseteq Bundles
  /\ api \in [Apis -> ApiRows] /\ app \in [Apps -> AppRows]
  /\ agreed \in [Apps \X Apis -> SUBSET Scopes] /\ live \subseteq Facts \cup {"source"}
  /\ rules \in [Bundles -> SUBSET RuleRecords] /\ \A g \in Bundles : Stored(rules[g])
  /\ \A g \in Bundles : ~Stands(g) => rules[g] = {} /\ g \notin joined

CallsInv == call \in [Calls -> CallRecords] /\ \A r \in Calls : CallHolds(call[r])

ObservedInv == gone \in [Calls -> SUBSET Facts] /\ edits \in 0..MaxEdits

AccessInv == StoreInv /\ CallsInv /\ ObservedInv

stored == <<rules, bundle, joined, api, app, agreed, live>>

LEMMA QuietCall == Quiet \in CallRecords /\ CallHolds(Quiet)
<1>1. << >> \in Seq(Facts)
  OBVIOUS
<1> QED BY <1>1 DEF Quiet, CallRecords, CallHolds

LEMMA OneCall ==
  ASSUME CallsInv, NEW r \in Calls, NEW c \in CallRecords, CallHolds(c), call' = [call EXCEPT ![r] = c]
  PROVE  CallsInv'
BY DEF CallsInv

LEMMA SameCalls == ASSUME CallsInv, UNCHANGED call PROVE CallsInv'
BY DEF CallsInv

LEMMA SameStore == ASSUME StoreInv, UNCHANGED stored PROVE StoreInv'
BY DEF StoreInv, stored, Stands

LEMMA EndedHolds == ASSUME CallsInv, NEW r \in Calls, Ended(r) PROVE CallsInv'
BY QuietCall, OneCall DEF Ended

(* Whatever an action does, it ends with Observed.                         *)
LEMMA ObservedHolds ==
  ASSUME ObservedInv, Observed, edits' \in 0..MaxEdits
  PROVE  ObservedInv'
<1>1. \A r \in Calls : Missing'[r] \subseteq Facts
  BY DEF Missing
<1> QED BY <1>1 DEF ObservedInv, Observed

LEMMA EditsStay == ASSUME ObservedInv, edits' = edits PROVE edits' \in 0..MaxEdits
BY DEF ObservedInv

LEMMA EditsCount == ASSUME ObservedInv, edits < MaxEdits, edits' = edits + 1 PROVE edits' \in 0..MaxEdits
BY AccessAssumption DEF ObservedInv

LEMMA StartHolds ==
  ASSUME AccessInv, NEW r \in Calls, NEW c \in CallRecords, CallHolds(c), Start(r, c)
  PROVE  AccessInv'
<1>1. StoreInv'
  BY SameStore DEF AccessInv, Start, stored
<1>2. CallsInv'
  BY OneCall DEF AccessInv, Start
<1>3. ObservedInv'
  BY EditsCount, ObservedHolds DEF AccessInv, Start
<1> QED BY <1>1, <1>2, <1>3 DEF AccessInv

(* A step of an invocation that stores nothing.                            *)
LEMMA StepHolds ==
  ASSUME AccessInv, CallsInv', UNCHANGED <<rules, bundle, joined, api, app, agreed, live, edits>>, Observed
  PROVE  AccessInv'
<1>1. StoreInv'
  BY SameStore DEF AccessInv, stored
<1>2. ObservedInv'
  BY EditsStay, ObservedHolds DEF AccessInv
<1> QED BY <1>1, <1>2 DEF AccessInv

(* A handler without an await.                                             *)
LEMMA AtOnceHolds ==
  ASSUME AccessInv, StoreInv', AtOnceEdit, Observed
  PROVE  AccessInv'
<1>1. CallsInv'
  BY SameCalls DEF AccessInv, AtOnceEdit
<1>2. ObservedInv'
  BY EditsCount, ObservedHolds DEF AccessInv, AtOnceEdit
<1> QED BY <1>1, <1>2 DEF AccessInv
LEMMA HandlersLook ==
  ASSUME NEW t \in Tokens, NEW h \in Handlers(t)
  PROVE  h \in Seq(Facts) /\ h # << >>
<1>1. /\ IntrospectAccessToken \in Seq(Facts) /\ IntrospectAccessToken # << >>
      /\ HandleUserInfo \in Seq(Facts) /\ HandleUserInfo # << >>
      /\ IntrospectServiceToken \in Seq(Facts) /\ IntrospectServiceToken # << >>
      /\ HandleClientCredentials \in Seq(Facts) /\ HandleClientCredentials # << >>
      /\ HandleIntrospect \in Seq(Facts) /\ HandleIntrospect # << >>
  BY DEF IntrospectAccessToken, HandleUserInfo, IntrospectServiceToken, HandleClientCredentials,
         HandleIntrospect, Facts
<1>2. t.kind \in {"access", "refresh", "service"}
  BY AccessAssumption DEF Kinds
<1> QED BY <1>1, <1>2 DEF Handlers

LEMMA PresentHolds ==
  ASSUME AccessInv, NEW r \in Calls, NEW t \in Tokens, NEW h \in Handlers(t), Present(r, t, h)
  PROVE  AccessInv'
<1> DEFINE c == [Quiet EXCEPT !.pc = "check", !.token = t, !.todo = h]
<1>1. h \in Seq(Facts) /\ h # << >>
  BY HandlersLook
<1>2. c \in CallRecords /\ CallHolds(c)
  BY <1>1, QuietCall DEF CallRecords, CallHolds
<1> QED BY <1>2, StartHolds DEF Present

LEMMA LongTail ==
  ASSUME NEW S, NEW s \in Seq(S), Len(s) > 1
  PROVE  Tail(s) \in Seq(S) /\ Tail(s) # << >>
<1>1. Len(<< >>) = 0 /\ Len(s) \in Nat
  BY EmptySeq, LenProperties
<1>2. Len(s) # 0
  BY <1>1
<1>3. s # << >>
  BY <1>1, <1>2, Zenon
<1>4. Tail(s) \in Seq(S) /\ Len(Tail(s)) = Len(s) - 1
  BY <1>3, HeadTailProperties
<1>5. Len(Tail(s)) # 0
  BY <1>1, <1>4
<1>6. Tail(s) # << >>
  BY <1>1, <1>5, Zenon
<1> QED BY <1>4, <1>6

LEMMA LeftLooks ==
  ASSUME NEW s \in Seq(Facts), Len(s) > 1
  PROVE  Left(s) \in Seq(Facts) /\ Left(s) # << >>
<1>1. Tail(s) \in Seq(Facts) /\ Tail(s) # << >>
  BY LongTail
<1>2. WithoutSession \in Seq(Facts) /\ WithoutSession # << >>
  BY DEF WithoutSession, Facts
<1> QED BY <1>1, <1>2 DEF Left

LEMMA LookUpHolds ==
  ASSUME AccessInv, NEW r \in Calls, LookUp(r)
  PROVE  AccessInv'
<1> DEFINE c == call[r]
<1>1. c \in CallRecords /\ CallHolds(c) /\ c.pc = "check"
  BY DEF LookUp, AccessInv, CallsInv
<1>2. CASE Ended(r)
  BY <1>2, EndedHolds, StepHolds DEF LookUp, AccessInv
<1>3. CASE Len(c.todo) > 1 /\ call' = [call EXCEPT ![r].todo = Left(@)]
  <2> DEFINE d == [c EXCEPT !.todo = Left(@)]
  <2>1. Left(c.todo) \in Seq(Facts) /\ Left(c.todo) # << >>
    BY <1>1, <1>3, LeftLooks DEF CallRecords
  <2>2. d \in CallRecords /\ CallHolds(d)
    BY <1>1, <2>1 DEF CallRecords, CallHolds
  <2>3. call' = [call EXCEPT ![r] = d]
    BY <1>3 DEF AccessInv, CallsInv
  <2> HIDE DEF d
  <2>4. CallsInv'
    BY <2>2, <2>3, OneCall DEF AccessInv
  <2> QED BY <2>4, StepHolds DEF LookUp
<1>4. CASE call' = [call EXCEPT ![r].pc = "active", ![r].todo = << >>]
  <2> DEFINE d == [c EXCEPT !.pc = "active", !.todo = << >>]
  <2>1. << >> \in Seq(Facts)
    OBVIOUS
  <2>2. d \in CallRecords /\ CallHolds(d)
    BY <1>1, <2>1 DEF CallRecords, CallHolds
  <2>3. call' = [call EXCEPT ![r] = d]
    BY <1>4 DEF AccessInv, CallsInv
  <2> HIDE DEF d
  <2>4. CallsInv'
    BY <2>2, <2>3, OneCall DEF AccessInv
  <2> QED BY <2>4, StepHolds DEF LookUp
<1> QED BY <1>2, <1>3, <1>4 DEF LookUp

LEMMA AnsweredHolds ==
  ASSUME AccessInv, NEW r \in Calls, Answered(r)
  PROVE  AccessInv'
BY EndedHolds, StepHolds DEF Answered, AccessInv

LEMMA ProceedHolds ==
  ASSUME AccessInv, NEW r \in Calls, Proceed(r, "rules"), call[r].pc = "references"
  PROVE  CallsInv'
<1> DEFINE c == [call[r] EXCEPT !.pc = "rules"]
<1>1. c \in CallRecords /\ CallHolds(c)
  BY DEF AccessInv, CallsInv, CallRecords, CallHolds
<1> QED BY <1>1, OneCall DEF Proceed, AccessInv

LEMMA RulesHold ==
  ASSUME AccessInv, NEW r \in Calls
  PROVE  /\ \A g \in Bundles, rs \in Submissions : SubmitRules(r, g, rs) => AccessInv'
         /\ CheckReferences(r) => AccessInv'
         /\ WriteRules(r) => AccessInv'
<1>1. ASSUME NEW g \in Bundles, NEW rs \in Submissions, SubmitRules(r, g, rs) PROVE AccessInv'
  <2> DEFINE c == [Quiet EXCEPT !.pc = "references", !.on = g, !.rules = rs]
  <2>1. Stored(rs)
    BY <1>1, AccessAssumption DEF SubmitRules, Accepted, Stored, RuleRecords
  <2>2. c \in CallRecords /\ CallHolds(c)
    BY <2>1, QuietCall DEF CallRecords, CallHolds, Stored
  <2> QED BY <1>1, <2>2, StartHolds DEF SubmitRules
<1>2. ASSUME CheckReferences(r) PROVE AccessInv'
  <2>1. CallsInv'
    BY <1>2, ProceedHolds, EndedHolds DEF CheckReferences, AccessInv
  <2> QED BY <1>2, <2>1, StepHolds DEF CheckReferences
<1>3. ASSUME WriteRules(r) PROVE AccessInv'
  <2> DEFINE g == call[r].on
  <2>1. g \in Bundles /\ Stored(call[r].rules)
    BY <1>3 DEF WriteRules, AccessInv, CallsInv, CallHolds
  <2>2. StoreInv'
    BY <1>3, <2>1 DEF WriteRules, AccessInv, StoreInv, Stored, Stands
  <2>3. CallsInv'
    BY <1>3, EndedHolds DEF WriteRules, AccessInv
  <2>4. ObservedInv'
    BY <1>3, EditsStay, ObservedHolds DEF WriteRules, AccessInv
  <2> QED BY <2>2, <2>3, <2>4 DEF AccessInv
<1> QED BY <1>1, <1>2, <1>3
LEMMA ConfigureHolds ==
  ASSUME AccessInv, NEW r \in Calls, NEW a \in Apps, NEW pc \in {"configure", "register"},
         NEW apis \in SUBSET Apis, NEW scopes \in SUBSET Scopes, Configure(r, a, pc, apis, scopes)
  PROVE  AccessInv'
<1> DEFINE c == [Quiet EXCEPT !.pc = pc, !.on = a, !.apis = apis, !.scopes = scopes]
<1>1. c \in CallRecords /\ CallHolds(c)
  BY QuietCall DEF CallRecords, CallHolds
<1> QED BY <1>1, StartHolds DEF Configure

LEMMA ScopeSets == Standard \in SUBSET Scopes /\ Scopes \in SUBSET Scopes
BY AccessAssumption

LEMMA ClientFormsHold ==
  ASSUME AccessInv, NEW r \in Calls, NEW a \in Apps
  PROVE  /\ ConsoleClientSettings(r, a) => AccessInv'
         /\ \A apis \in SUBSET Apis, scopes \in {Standard, Scopes} :
              /\ ConsoleClientAccess(r, a, apis, scopes) => AccessInv'
              /\ AdminPatchClient(r, a, apis, scopes) => AccessInv'
              /\ ConsoleCreateClient(r, a, apis, scopes) => AccessInv'
              /\ AdminCreateClient(r, a, apis, scopes) => AccessInv'
<1>1. app[a].apis \in SUBSET Apis /\ app[a].scopes \in SUBSET Scopes
  BY DEF AccessInv, StoreInv, AppRows
<1>2. ConsoleClientSettings(r, a) => AccessInv'
  BY <1>1, ConfigureHolds DEF ConsoleClientSettings
<1>3. ASSUME NEW apis \in SUBSET Apis, NEW scopes \in {Standard, Scopes}
      PROVE  /\ ConsoleClientAccess(r, a, apis, scopes) => AccessInv'
             /\ AdminPatchClient(r, a, apis, scopes) => AccessInv'
             /\ ConsoleCreateClient(r, a, apis, scopes) => AccessInv'
             /\ AdminCreateClient(r, a, apis, scopes) => AccessInv'
  BY ScopeSets, ConfigureHolds DEF ConsoleClientAccess, AdminPatchClient, ConsoleCreateClient, AdminCreateClient
<1> QED BY <1>2, <1>3

LEMMA ValidateHolds ==
  ASSUME AccessInv, NEW r \in Calls, ValidateClient(r)
  PROVE  AccessInv'
<1>1. CASE Ended(r)
  BY <1>1, EndedHolds, StepHolds DEF ValidateClient, AccessInv
<1>2. ASSUME NEW pc \in {"update", "insert"}, Proceed(r, pc) PROVE AccessInv'
  <2> DEFINE c == [call[r] EXCEPT !.pc = pc]
  <2>1. c \in CallRecords /\ CallHolds(c)
    BY DEF ValidateClient, AccessInv, CallsInv, CallRecords, CallHolds
  <2>2. CallsInv'
    BY <1>2, <2>1, OneCall DEF Proceed, AccessInv
  <2> QED BY <2>2, StepHolds DEF ValidateClient
<1> QED BY <1>1, <1>2 DEF ValidateClient

(* The row of one client changes, in an invocation of its own or at once.   *)
LEMMA OneClient ==
  ASSUME StoreInv, app' \in [Apps -> AppRows], UNCHANGED <<rules, bundle, joined, api, agreed, live>>
  PROVE  StoreInv'
BY DEF StoreInv, Stands

LEMMA WriteClientHolds ==
  ASSUME AccessInv, NEW r \in Calls, UpdateClient(r) \/ CreateClient(r)
  PROVE  AccessInv'
<1>1. call[r] \in CallRecords /\ call[r].on \in Apps
  BY DEF UpdateClient, CreateClient, AccessInv, CallsInv, CallHolds
<1>2. app' \in [Apps -> AppRows]
  <2> DEFINE a == call[r].on
             changed == [app[a] EXCEPT !.apis = call[r].apis, !.scopes = call[r].scopes]
             added == [on |-> "enabled", apis |-> call[r].apis, scopes |-> call[r].scopes]
  <2>1. app \in [Apps -> AppRows] /\ app[a] \in AppRows
    BY <1>1 DEF AccessInv, StoreInv
  <2>2. call[r].apis \in SUBSET Apis /\ call[r].scopes \in SUBSET Scopes
    BY <1>1 DEF CallRecords
  <2>3. changed \in AppRows /\ added \in AppRows
    BY <2>1, <2>2 DEF AppRows, States
  <2>4. \/ UNCHANGED app
        \/ app' = [app EXCEPT ![a] = changed]
        \/ app' = [app EXCEPT ![a] = added]
    <3>1. CASE UpdateClient(r)
      BY <1>1, <2>1, <3>1 DEF UpdateClient
    <3>2. CASE CreateClient(r)
      BY <3>2 DEF CreateClient
    <3> QED BY <3>1, <3>2
  <2> HIDE DEF a, changed, added
  <2> QED BY <2>1, <2>3, <2>4
<1>3. StoreInv'
  BY <1>2, OneClient DEF UpdateClient, CreateClient, AccessInv
<1>4. CallsInv'
  BY EndedHolds DEF UpdateClient, CreateClient, AccessInv
<1>5. ObservedInv'
  BY EditsStay, ObservedHolds DEF UpdateClient, CreateClient, AccessInv
<1> QED BY <1>3, <1>4, <1>5 DEF AccessInv

LEMMA SetClientHolds ==
  ASSUME AccessInv, NEW a \in Apps, NEW on \in {"enabled", "disabled"}, SetClientEnabled(a, on)
  PROVE  AccessInv'
<1>1. app' \in [Apps -> AppRows]
  <2>1. app \in [Apps -> AppRows] /\ app[a] \in AppRows
    BY DEF AccessInv, StoreInv
  <2>2. [app[a] EXCEPT !.on = on] \in AppRows
    BY <2>1 DEF AppRows, States
  <2>3. app' = [app EXCEPT ![a] = [app[a] EXCEPT !.on = on]]
    BY <2>1 DEF SetClientEnabled
  <2> QED BY <2>1, <2>2, <2>3
<1>2. StoreInv'
  BY <1>1, OneClient DEF SetClientEnabled, AccessInv
<1> QED BY <1>2, AtOnceHolds DEF SetClientEnabled

LEMMA UnrankedOutside == Unranked \notin Priorities
BY AccessAssumption DEF Unranked

LEMMA GroupsHold ==
  ASSUME AccessInv, NEW g \in Bundles
  PROVE  /\ DeleteBundle(g) => AccessInv'
         /\ ChangeMembership(g) => AccessInv'
         /\ \A n \in Priorities : SetPriority(g, n) => AccessInv'
<1>1. ASSUME DeleteBundle(g) PROVE AccessInv'
  <2>1. StoreInv'
    BY <1>1 DEF DeleteBundle, AccessInv, StoreInv, Stands, Stored
  <2> QED BY <1>1, <2>1, AtOnceHolds DEF DeleteBundle
<1>2. ASSUME ChangeMembership(g) PROVE AccessInv'
  <2>1. StoreInv'
    BY <1>2 DEF ChangeMembership, AccessInv, StoreInv, Stands
  <2> QED BY <1>2, <2>1, AtOnceHolds DEF ChangeMembership
<1>3. ASSUME NEW n \in Priorities, SetPriority(g, n) PROVE AccessInv'
  <2>1. StoreInv'
    BY <1>3, UnrankedOutside DEF SetPriority, AccessInv, StoreInv, Stands
  <2> QED BY <1>3, <2>1, AtOnceHolds DEF SetPriority
<1> QED BY <1>1, <1>2, <1>3

(* Rules only go: what is left of a group's rules was there before.         *)
LEMMA FewerRules ==
  ASSUME StoreInv, rules' \in [Bundles -> SUBSET RuleRecords], \A g \in Bundles : rules'[g] \subseteq rules[g],
         api' \in [Apis -> ApiRows], app' \in [Apps -> AppRows], agreed' \in [Apps \X Apis -> SUBSET Scopes],
         live' \subseteq Facts \cup {"source"}, UNCHANGED <<bundle, joined>>
  PROVE  StoreInv'
BY DEF StoreInv, Stored, Stands

LEMMA LiveStays == ASSUME StoreInv, NEW field, NEW x PROVE LiveWithout(field, x) \subseteq Facts \cup {"source"}
BY DEF LiveWithout, StoreInv

LEMMA ResourcesHold ==
  ASSUME AccessInv, NEW p \in Apis
  PROVE  /\ \A scopes \in {Standard, Scopes} : CreateResource(p, scopes) => AccessInv'
         /\ \A scopes \in {Standard, Scopes}, on \in {"enabled", "disabled"} :
              UpdateResource(p, on, scopes) => AccessInv'
         /\ DeleteResource(p) => AccessInv'
<1>1. ASSUME NEW scopes \in {Standard, Scopes}, CreateResource(p, scopes) PROVE AccessInv'
  <2>1. StoreInv'
    BY <1>1, ScopeSets DEF CreateResource, AccessInv, StoreInv, Stands, ApiRows, States
  <2> QED BY <1>1, <2>1, AtOnceHolds DEF CreateResource
<1>2. ASSUME NEW scopes \in {Standard, Scopes}, NEW on \in {"enabled", "disabled"}, UpdateResource(p, on, scopes)
      PROVE  AccessInv'
  <2>1. api' \in [Apis -> ApiRows]
    BY <1>2, ScopeSets DEF UpdateResource, AccessInv, StoreInv, ApiRows, States
  <2>2. rules' \in [Bundles -> SUBSET RuleRecords] /\ \A g \in Bundles : rules'[g] \subseteq rules[g]
    BY <1>2 DEF UpdateResource, PrunedScopes, AccessInv, StoreInv
  <2>3. StoreInv'
    BY <1>2, <2>1, <2>2, FewerRules DEF UpdateResource, AccessInv, StoreInv
  <2> QED BY <1>2, <2>3, AtOnceHolds DEF UpdateResource
<1>3. ASSUME DeleteResource(p) PROVE AccessInv'
  <2>1. api' \in [Apis -> ApiRows]
    BY <1>3 DEF DeleteResource, AccessInv, StoreInv, ApiRows, NoApi, States
  <2>2. rules' \in [Bundles -> SUBSET RuleRecords] /\ \A g \in Bundles : rules'[g] \subseteq rules[g]
    BY <1>3 DEF DeleteResource, Pruned, AccessInv, StoreInv
  <2>3. app' \in [Apps -> AppRows]
    BY <1>3 DEF DeleteResource, AccessInv, StoreInv, AppRows
  <2>4. agreed' \in [Apps \X Apis -> SUBSET Scopes]
    BY <1>3 DEF DeleteResource, AccessInv, StoreInv
  <2>5. StoreInv'
    BY <1>3, <2>1, <2>2, <2>3, <2>4, LiveStays, FewerRules DEF DeleteResource, AccessInv
  <2> QED BY <1>3, <2>5, AtOnceHolds DEF DeleteResource
<1> QED BY <1>1, <1>2, <1>3

LEMMA ClientsHold ==
  ASSUME AccessInv, NEW a \in Apps
  PROVE  (DeleteClient(a) => AccessInv') /\ (RevokeConsent(a) => AccessInv')
<1>1. ASSUME DeleteClient(a) PROVE AccessInv'
  <2>1. app' \in [Apps -> AppRows]
    BY <1>1 DEF DeleteClient, AccessInv, StoreInv, AppRows, NoApp, States
  <2>2. rules' \in [Bundles -> SUBSET RuleRecords] /\ \A g \in Bundles : rules'[g] \subseteq rules[g]
    BY <1>1 DEF DeleteClient, Pruned, AccessInv, StoreInv
  <2>3. agreed' \in [Apps \X Apis -> SUBSET Scopes]
    BY <1>1 DEF DeleteClient, AccessInv, StoreInv
  <2>4. StoreInv'
    BY <1>1, <2>1, <2>2, <2>3, LiveStays, FewerRules DEF DeleteClient, AccessInv, StoreInv
  <2> QED BY <1>1, <2>4, AtOnceHolds DEF DeleteClient
<1>2. ASSUME RevokeConsent(a) PROVE AccessInv'
  <2>1. agreed' \in [Apps \X Apis -> SUBSET Scopes]
    BY <1>2 DEF RevokeConsent, AccessInv, StoreInv
  <2>2. StoreInv'
    BY <1>2, <2>1, FewerRules DEF RevokeConsent, AccessInv, StoreInv
  <2> QED BY <1>2, <2>2, AtOnceHolds DEF RevokeConsent
<1> QED BY <1>1, <1>2

LEMMA WithdrawHolds ==
  ASSUME AccessInv, NEW x, Withdraw(x)
  PROVE  AccessInv'
<1>1. StoreInv'
  BY FewerRules DEF Withdraw, AccessInv, StoreInv
<1> QED BY <1>1, AtOnceHolds DEF Withdraw

LEMMA ForgetHolds ==
  ASSUME AccessInv, ForgetSession
  PROVE  AccessInv'
<1>1. StoreInv'
  BY FewerRules DEF ForgetSession, AccessInv, StoreInv
<1>2. CallsInv'
  BY SameCalls DEF ForgetSession, AccessInv
<1>3. ObservedInv'
  BY EditsStay, ObservedHolds DEF ForgetSession, AccessInv
<1> QED BY <1>1, <1>2, <1>3 DEF AccessInv

LEMMA AccessStep ==
  ASSUME AccessInv, [AccessNext]_accessVars
  PROVE  AccessInv'
<1>1. CASE UNCHANGED accessVars
  BY <1>1, SameStore, SameCalls DEF accessVars, stored, AccessInv, ObservedInv
<1>2. ASSUME NEW r \in Calls,
             \/ \E t \in Tokens : \E h \in Handlers(t) : Present(r, t, h)
             \/ LookUp(r) \/ Answered(r)
      PROVE  AccessInv'
  BY <1>2, PresentHolds, LookUpHolds, AnsweredHolds
<1>3. ASSUME NEW r \in Calls,
             \/ \E g \in Bundles, rs \in Submissions : SubmitRules(r, g, rs)
             \/ CheckReferences(r) \/ WriteRules(r)
      PROVE  AccessInv'
  BY <1>3, RulesHold
<1>4. ASSUME NEW r \in Calls,
             \/ \E a \in Apps : ConsoleClientSettings(r, a)
             \/ \E a \in Apps, apis \in SUBSET Apis, scopes \in {Standard, Scopes} :
                  \/ ConsoleClientAccess(r, a, apis, scopes) \/ AdminPatchClient(r, a, apis, scopes)
                  \/ ConsoleCreateClient(r, a, apis, scopes) \/ AdminCreateClient(r, a, apis, scopes)
             \/ ValidateClient(r) \/ UpdateClient(r) \/ CreateClient(r)
      PROVE  AccessInv'
  BY <1>4, ClientFormsHold, ValidateHolds, WriteClientHolds
<1>5. ASSUME NEW g \in Bundles,
             DeleteBundle(g) \/ ChangeMembership(g) \/ \E n \in Priorities : SetPriority(g, n)
      PROVE  AccessInv'
  BY <1>5, GroupsHold
<1>6. ASSUME NEW p \in Apis,
             \/ \E scopes \in {Standard, Scopes} :
                  CreateResource(p, scopes) \/ \E on \in {"enabled", "disabled"} : UpdateResource(p, on, scopes)
             \/ DeleteResource(p)
      PROVE  AccessInv'
  BY <1>6, ResourcesHold
<1>7. ASSUME NEW a \in Apps,
             DeleteClient(a) \/ RevokeConsent(a) \/ \E on \in {"enabled", "disabled"} : SetClientEnabled(a, on)
      PROVE  AccessInv'
  BY <1>7, ClientsHold, SetClientHolds
<1>8. ASSUME NEW x, Withdraw(x) PROVE AccessInv'
  BY <1>8, WithdrawHolds
<1> QED BY <1>1, <1>2, <1>3, <1>4, <1>5, <1>6, <1>7, <1>8, ForgetHolds DEF AccessNext

LEMMA AccessStarts == ASSUME AccessInit PROVE AccessInv
<1>1. bundle \in [Bundles -> Priorities] /\ \A g \in Bundles : Stands(g)
  BY AccessAssumption, MinIsLeast, UnrankedOutside DEF AccessInit, Stands
<1>2. rules \in [Bundles -> SUBSET RuleRecords] /\ \A g \in Bundles : Stored(rules[g])
  BY AccessAssumption DEF AccessInit, Accepted, Stored, RuleRecords
<1>3. api \in [Apis -> ApiRows] /\ app \in [Apps -> AppRows]
  BY DEF AccessInit, ApiRows, AppRows, States
<1>4. agreed \in [Apps \X Apis -> SUBSET Scopes] /\ live \subseteq Facts \cup {"source"} /\ joined \subseteq Bundles
  BY DEF AccessInit, Facts
<1>5. StoreInv
  BY <1>1, <1>2, <1>3, <1>4 DEF StoreInv
<1>6. CallsInv
  BY QuietCall DEF AccessInit, CallsInv
<1>7. ObservedInv
  BY AccessAssumption DEF AccessInit, ObservedInv
<1> QED BY <1>5, <1>6, <1>7 DEF AccessInv

LEMMA AccessInvariant == AccessSpec => []AccessInv
<1>1. AccessInit => AccessInv
  BY AccessStarts
<1>2. AccessInv /\ [AccessNext]_accessVars => AccessInv'
  BY AccessStep
<1> QED BY <1>1, <1>2, PTL DEF AccessSpec

(* Groups, rows, consents and the invocations keep their types; a group     *)
(* that was deleted has neither rules nor members.                          *)
THEOREM AccessTyped == AccessSpec => []AccessTypeOK
<1>1. AccessInv => AccessTypeOK
  BY DEF AccessInv, StoreInv, ObservedInv, AccessTypeOK
<1> QED BY <1>1, AccessInvariant, PTL

(* What is in the policy of a user has a priority and one of two effects.   *)
LEMMA PolicyRanked == ASSUME StoreInv PROVE \A x \in Policy : Ranked(x)
<1>1. SUFFICES ASSUME NEW g \in joined, NEW x \in rules[g]
               PROVE  Ranked([effect |-> x.effect, when |-> x.when, priority |-> bundle[g]])
  BY DEF Policy
<1>2. bundle[g] \in Nat
  BY AccessAssumption DEF StoreInv, Stands
<1>3. x.effect \in {"allow", "deny"}
  BY DEF StoreInv, Stored, RuleRecords
<1> QED BY <1>2, <1>3 DEF Ranked

(* resolvePermissionRules takes the rules that match at the smallest        *)
(* priority and lets a deny among them win; however the rules of several    *)
(* groups overlap, that grants what some allow grants before every deny.    *)
THEOREM RulesResolve == AccessSpec => []ResolutionAgrees
<1>1. AccessInv => ResolutionAgrees
  BY PolicyRanked, ResolvesAsPermitted DEF AccessInv, ResolutionAgrees
<1> QED BY <1>1, AccessInvariant, PTL
-----------------------------------------------------------------------------
(* Answers.  Whatever a positive answer must rest on and the invocation has *)
(* not come to is still among its lookups; whatever it has come to was      *)
(* found, so it has not been missing all the while.                        *)

Elements(s) == {s[i] : i \in 1..Len(s)}

SoughtHolds(c, missing) ==
  /\ c.pc = "check" => missing \cap Needed(c.token.kind) \subseteq Elements(c.todo)
  /\ c.pc = "active" => missing \cap Needed(c.token.kind) = {}

SoughtInv == \A r \in Calls : SoughtHolds(call[r], gone[r])

LEMMA GoneShrinks ==
  ASSUME Observed, NEW r \in Calls, call[r].pc # "idle"
  PROVE  gone'[r] \subseteq gone[r] /\ gone'[r] \subseteq Missing'[r]
BY DEF Observed

LEMMA GoneStarts ==
  ASSUME Observed, NEW r \in Calls, call[r].pc = "idle"
  PROVE  gone'[r] \subseteq Facts
BY DEF Observed, Missing

(* The other invocations seek what they did.                               *)
LEMMA OthersSeek ==
  ASSUME SoughtInv, Observed, NEW r \in Calls, \A q \in Calls : q # r => call'[q] = call[q],
         SoughtHolds(call'[r], gone'[r])
  PROVE  SoughtInv'
<1>1. ASSUME NEW q \in Calls, q # r PROVE SoughtHolds(call'[q], gone'[q])
  <2>1. CASE call[q].pc \in {"check", "active"}
    <3>1. gone'[q] \subseteq gone[q] /\ call'[q] = call[q]
      BY <1>1, <2>1, GoneShrinks
    <3> QED BY <1>1, <3>1 DEF SoughtInv, SoughtHolds
  <2>2. CASE call[q].pc \notin {"check", "active"}
    BY <1>1, <2>2 DEF SoughtHolds
  <2> QED BY <2>1, <2>2
<1> QED BY <1>1 DEF SoughtInv

LEMMA SameSeek == ASSUME SoughtInv, Observed, UNCHANGED call PROVE SoughtInv'
<1>1. SUFFICES ASSUME NEW q \in Calls PROVE SoughtHolds(call'[q], gone'[q])
  BY DEF SoughtInv
<1>2. CASE call[q].pc \in {"check", "active"}
  <2>1. gone'[q] \subseteq gone[q] /\ call'[q] = call[q]
    BY <1>2, GoneShrinks
  <2> QED BY <2>1 DEF SoughtInv, SoughtHolds
<1>3. CASE call[q].pc \notin {"check", "active"}
  BY <1>3 DEF SoughtHolds
<1> QED BY <1>2, <1>3

(* An invocation that is not about a token.                                *)
LEMMA AsideSeek ==
  ASSUME CallsInv, SoughtInv, Observed, NEW r \in Calls, NEW c, call' = [call EXCEPT ![r] = c],
         c.pc \notin {"check", "active"}
  PROVE  SoughtInv'
BY OthersSeek DEF CallsInv, SoughtHolds

LEMMA EndedSeek == ASSUME CallsInv, SoughtInv, Observed, NEW r \in Calls, Ended(r) PROVE SoughtInv'
BY AsideSeek DEF Ended, Quiet

(* Each handler looks up all that its kind of token needs.                 *)
LEMMA HandlersSuffice ==
  ASSUME NEW t \in Tokens, NEW h \in Handlers(t)
  PROVE  Needed(t.kind) \subseteq Elements(h)
<1>1. /\ {"client", "resource", "user", "policy", "consent"} \subseteq Elements(IntrospectAccessToken)
      /\ {"client", "resource", "user", "policy", "consent"} \subseteq Elements(HandleUserInfo)
  BY DEF IntrospectAccessToken, HandleUserInfo, Elements
<1>2. /\ {"client", "resource"} \subseteq Elements(IntrospectServiceToken)
      /\ {"client", "resource"} \subseteq Elements(HandleClientCredentials)
  BY DEF IntrospectServiceToken, HandleClientCredentials, Elements
<1>3. Facts \subseteq Elements(HandleIntrospect)
  BY DEF HandleIntrospect, Facts, Elements
<1>4. t.kind \in {"access", "refresh", "service"}
  BY AccessAssumption DEF Kinds
<1> QED BY <1>1, <1>2, <1>3, <1>4 DEF Handlers, Needed

LEMMA PresentSeeks ==
  ASSUME CallsInv, SoughtInv, NEW r \in Calls, NEW t \in Tokens, NEW h \in Handlers(t), Present(r, t, h)
  PROVE  SoughtInv'
<1>1. /\ \A q \in Calls : q # r => call'[q] = call[q]
      /\ call'[r].pc = "check" /\ call'[r].token = t /\ call'[r].todo = h
  BY DEF CallsInv, Present, Start, Quiet
<1>2. SoughtHolds(call'[r], gone'[r])
  BY <1>1, HandlersSuffice DEF SoughtHolds
<1> QED BY <1>1, <1>2, OthersSeek DEF Present, Start

(* What is looked up in a step is there in that step.                       *)
LEMMA SameFacts ==
  ASSUME UNCHANGED stored, NEW f, NEW t, Holds(f, t)
  PROVE  Holds(f, t)'
BY DEF stored, Holds, ClientServes, ResourceServes, Entitled, Policy

LEMMA HeadAndTail ==
  ASSUME NEW S, NEW s \in Seq(S), s # << >>
  PROVE  /\ Elements(s) \subseteq {Head(s)} \cup Elements(Tail(s))
         /\ ~(Len(s) > 1) => Elements(s) \subseteq {Head(s)}
<1>1. Len(s) \in Nat /\ Len(Tail(s)) = Len(s) - 1
  BY LenProperties, HeadTailProperties
<1>2. ASSUME NEW i \in 1..Len(s), i # 1 PROVE i - 1 \in 1..Len(Tail(s)) /\ Tail(s)[i - 1] = s[i]
  <2>1. i - 1 \in 1..Len(Tail(s)) /\ (i - 1) + 1 = i
    BY <1>1, <1>2
  <2> QED BY <2>1, HeadTailProperties
<1>3. s[1] = Head(s)
  OBVIOUS
<1>4. ASSUME NEW i \in 1..Len(s) PROVE s[i] = Head(s) \/ (Len(s) > 1 /\ s[i] \in Elements(Tail(s)))
  BY <1>1, <1>2, <1>3 DEF Elements
<1> QED BY <1>4 DEF Elements

LEMMA HeldNotMissing ==
  ASSUME NEW r \in Calls, NEW f, NEW t, Holds(f, t)', call'[r].token = t
  PROVE  f \notin Missing'[r]
BY DEF Missing, Lacks

(* Of a family that names no session, none is missing.                     *)
LEMMA NoSessionMissing ==
  ASSUME NEW r \in Calls, "source" \notin live'
  PROVE  "session" \notin Missing'[r]
BY DEF Missing, Lacks

LEMMA LeftElements ==
  ASSUME NEW s \in Seq(Facts), s # << >>
  PROVE  /\ Elements(s) \subseteq {Head(s)} \cup Elements(Left(s))
                                  \cup (IF "source" \in live THEN {} ELSE {"session"})
         /\ ~(Len(s) > 1) => Elements(s) \subseteq {Head(s)}
<1>1. /\ Elements(s) \subseteq {Head(s)} \cup Elements(Tail(s))
      /\ ~(Len(s) > 1) => Elements(s) \subseteq {Head(s)}
  BY HeadAndTail
<1>2. CASE Head(s) = "family" /\ "source" \notin live
  <2>1. {"client", "user", "policy", "consent", "resource"} \subseteq Elements(WithoutSession)
    BY DEF WithoutSession, Elements
  <2>2. Elements(s) \subseteq Facts
    BY LenProperties DEF Elements
  <2> QED BY <1>1, <1>2, <2>1, <2>2 DEF Left, Facts
<1>3. CASE ~(Head(s) = "family" /\ "source" \notin live)
  BY <1>1, <1>3 DEF Left
<1> QED BY <1>2, <1>3

LEMMA LookUpSeeks ==
  ASSUME CallsInv, SoughtInv, NEW r \in Calls, LookUp(r)
  PROVE  SoughtInv'
<1> DEFINE c == call[r]
<1>1. c \in CallRecords /\ c.pc = "check" /\ c.todo \in Seq(Facts) /\ c.todo # << >>
  BY DEF LookUp, CallsInv, CallHolds, CallRecords
<1>2. CASE Ended(r)
  BY <1>2, EndedSeek DEF LookUp
<1>3. CASE ~Ended(r)
  <2>1. PICK f, t : f = Head(c.todo) /\ t = c.token
    OBVIOUS
  <2>2. Holds(f, t)
    BY <1>3, <2>1 DEF LookUp
  <2>3. Holds(f, t)'
    BY <2>2, SameFacts DEF LookUp, stored
  <2>4. /\ call'[r].token = t /\ \A q \in Calls : q # r => call'[q] = call[q]
        /\ \/ call'[r].pc = "check" /\ call'[r].todo = Left(c.todo)
           \/ call'[r].pc = "active" /\ ~(Len(c.todo) > 1)
    BY <1>1, <1>3, <2>1 DEF LookUp, CallsInv, CallRecords
  <2>5. f \notin gone'[r] /\ gone'[r] \subseteq gone[r]
    BY <1>1, <2>3, <2>4, HeldNotMissing, GoneShrinks DEF LookUp
  <2>6. gone[r] \cap Needed(t.kind) \subseteq Elements(c.todo)
    BY <1>1, <2>1 DEF SoughtInv, SoughtHolds
  <2>7. Elements(c.todo) \subseteq {f} \cup Elements(Left(c.todo))
                                       \cup (IF "source" \in live THEN {} ELSE {"session"})
    BY <1>1, <2>1, LeftElements
  <2>8. ~(Len(c.todo) > 1) => Elements(c.todo) \subseteq {f}
    BY <1>1, <2>1, LeftElements
  <2>9. "source" \notin live => "session" \notin gone'[r]
    BY <1>1, NoSessionMissing, GoneShrinks DEF LookUp
  <2>10. SoughtHolds(call'[r], gone'[r])
    BY <2>4, <2>5, <2>6, <2>7, <2>8, <2>9 DEF SoughtHolds
  <2> QED BY <2>4, <2>10, OthersSeek DEF LookUp
<1> QED BY <1>2, <1>3
LEMMA SoughtStep ==
  ASSUME CallsInv, SoughtInv, [AccessNext]_accessVars
  PROVE  SoughtInv'
<1>1. CASE UNCHANGED accessVars
  BY <1>1 DEF accessVars, SoughtInv
<1>2. ASSUME NEW r \in Calls,
             \/ \E t \in Tokens : \E h \in Handlers(t) : Present(r, t, h)
             \/ LookUp(r) \/ Answered(r)
      PROVE  SoughtInv'
  BY <1>2, PresentSeeks, LookUpSeeks, EndedSeek DEF Answered
<1>3. ASSUME NEW r \in Calls, NEW c, Start(r, c), c.pc \notin {"check", "active"} PROVE SoughtInv'
  BY <1>3, AsideSeek DEF Start
<1>4. ASSUME NEW r \in Calls, NEW pc, Proceed(r, pc), Observed, pc \notin {"check", "active"} PROVE SoughtInv'
  <2>1. call' = [call EXCEPT ![r] = [call[r] EXCEPT !.pc = pc]] /\ [call[r] EXCEPT !.pc = pc].pc = pc
    BY <1>4 DEF Proceed, CallsInv, CallRecords
  <2> QED BY <1>4, <2>1, AsideSeek
<1>5. ASSUME NEW r \in Calls,
             \/ \E g \in Bundles, rs \in Submissions : SubmitRules(r, g, rs)
             \/ CheckReferences(r) \/ WriteRules(r)
      PROVE  SoughtInv'
  <2>1. ASSUME NEW g \in Bundles, NEW rs \in Submissions, SubmitRules(r, g, rs) PROVE SoughtInv'
    <3>1. [Quiet EXCEPT !.pc = "references", !.on = g, !.rules = rs].pc = "references"
      BY DEF Quiet
    <3> QED BY <2>1, <3>1, <1>3 DEF SubmitRules
  <2>2. CASE CheckReferences(r)
    BY <2>2, <1>4, EndedSeek DEF CheckReferences
  <2>3. CASE WriteRules(r)
    BY <2>3, EndedSeek DEF WriteRules
  <2> QED BY <1>5, <2>1, <2>2, <2>3
<1>6. ASSUME NEW r \in Calls, NEW a \in Apps, NEW pc \in {"configure", "register"}, NEW apis, NEW scopes,
             Configure(r, a, pc, apis, scopes)
      PROVE  SoughtInv'
  <2>1. [Quiet EXCEPT !.pc = pc, !.on = a, !.apis = apis, !.scopes = scopes].pc = pc
    BY DEF Quiet
  <2> QED BY <1>6, <2>1, <1>3 DEF Configure
<1>7. ASSUME NEW r \in Calls,
             \/ \E a \in Apps : ConsoleClientSettings(r, a)
             \/ \E a \in Apps, apis \in SUBSET Apis, scopes \in {Standard, Scopes} :
                  \/ ConsoleClientAccess(r, a, apis, scopes) \/ AdminPatchClient(r, a, apis, scopes)
                  \/ ConsoleCreateClient(r, a, apis, scopes) \/ AdminCreateClient(r, a, apis, scopes)
      PROVE  SoughtInv'
  BY <1>6, <1>7 DEF ConsoleClientSettings, ConsoleClientAccess, AdminPatchClient, ConsoleCreateClient, AdminCreateClient
<1>8. ASSUME NEW r \in Calls, ValidateClient(r) \/ UpdateClient(r) \/ CreateClient(r) PROVE SoughtInv'
  <2>1. CASE ValidateClient(r)
    BY <2>1, <1>4, EndedSeek DEF ValidateClient
  <2>2. CASE UpdateClient(r) \/ CreateClient(r)
    BY <2>2, EndedSeek DEF UpdateClient, CreateClient
  <2> QED BY <1>8, <2>1, <2>2
<1>9. ASSUME AtOnceEdit, Observed PROVE SoughtInv'
  BY <1>9, SameSeek DEF AtOnceEdit
<1>10. ASSUME NEW g \in Bundles,
              DeleteBundle(g) \/ ChangeMembership(g) \/ \E n \in Priorities : SetPriority(g, n)
       PROVE  SoughtInv'
  BY <1>9, <1>10 DEF DeleteBundle, ChangeMembership, SetPriority
<1>11. ASSUME NEW p \in Apis,
              \/ \E scopes \in {Standard, Scopes} :
                   CreateResource(p, scopes) \/ \E on \in {"enabled", "disabled"} : UpdateResource(p, on, scopes)
              \/ DeleteResource(p)
       PROVE  SoughtInv'
  BY <1>9, <1>11 DEF CreateResource, UpdateResource, DeleteResource
<1>12. ASSUME NEW a \in Apps,
              DeleteClient(a) \/ RevokeConsent(a) \/ \E on \in {"enabled", "disabled"} : SetClientEnabled(a, on)
       PROVE  SoughtInv'
  BY <1>9, <1>12 DEF DeleteClient, RevokeConsent, SetClientEnabled
<1>13. ASSUME NEW x, Withdraw(x) PROVE SoughtInv'
  BY <1>9, <1>13 DEF Withdraw
<1>14. CASE ForgetSession
  BY <1>14, SameSeek DEF ForgetSession
<1> QED BY <1>1, <1>2, <1>5, <1>7, <1>8, <1>10, <1>11, <1>12, <1>13, <1>14 DEF AccessNext

(* A positive answer of introspection, userinfo or the client credentials   *)
(* grant rests on nothing that was missing from the first to the last       *)
(* moment of the request: what was withdrawn before it arrived is refused,  *)
(* in whatever order a handler looks, whatever else changes meanwhile.  The *)
(* session of a refresh token counts while the family's row names it: one   *)
(* that maintenance has deleted reads as none.                             *)
THEOREM AnswersAreCurrent == AccessSpec => []RestsOnCurrent
<1>1. AccessInit => SoughtInv
  BY DEF AccessInit, SoughtInv, SoughtHolds, Quiet
<1>2. AccessInv /\ SoughtInv /\ [AccessNext]_accessVars => SoughtInv'
  BY SoughtStep DEF AccessInv
<1>3. SoughtInv => RestsOnCurrent
  BY DEF SoughtInv, SoughtHolds, RestsOnCurrent
<1> QED BY <1>1, <1>2, <1>3, AccessInvariant, PTL DEF AccessSpec

-----------------------------------------------------------------------------
(* Deletions.                                                              *)

(* Rules that are left: the policy is part of what it was, and what is lost *)
(* of it are rules that groups of the user have lost.                       *)
LEMMA PolicyShrinks ==
  ASSUME joined' \subseteq joined, \A g \in joined' : rules'[g] \subseteq rules[g] /\ bundle'[g] = bundle[g],
         \A g \in joined \ joined' : rules'[g] = {}
  PROVE  /\ Policy' \subseteq Policy
         /\ \A y \in Policy \ Policy' :
              \E g \in joined : \E x \in rules[g] \ rules'[g] : x.effect = y.effect
<1> DEFINE Ranks(x, n) == [effect |-> x.effect, when |-> x.when, priority |-> n]
<1>1. \A y : y \in Policy <=> \E g \in joined : \E x \in rules[g] : y = Ranks(x, bundle[g])
  BY DEF Policy
<1>2. \A y : y \in Policy' <=> \E g \in joined' : \E x \in rules'[g] : y = Ranks(x, bundle'[g])
  BY DEF Policy
<1>3. \A x, n : Ranks(x, n).effect = x.effect
  OBVIOUS
<1> HIDE DEF Ranks
<1>4. Policy' \subseteq Policy
  BY <1>1, <1>2
<1>5. ASSUME NEW y \in Policy, y \notin Policy'
      PROVE  \E g \in joined : \E x \in rules[g] \ rules'[g] : x.effect = y.effect
  <2>1. PICK g \in joined : \E x \in rules[g] : y = Ranks(x, bundle[g])
    BY <1>1
  <2>2. PICK x \in rules[g] : y = Ranks(x, bundle[g])
    BY <2>1
  <2>3. ASSUME x \in rules'[g] PROVE FALSE
    <3>1. g \in joined' /\ bundle'[g] = bundle[g]
      BY <2>3
    <3> QED BY <1>2, <1>5, <2>2, <2>3, <3>1
  <2>4. x.effect = y.effect
    BY <1>3, <2>2
  <2> QED BY <2>3, <2>4
<1> QED BY <1>4, <1>5

Loses == \E g \in joined : \E x \in rules[g] \ rules'[g] : x.effect = "deny"

LEMMA PolicyWellFormed == ASSUME StoreInv PROVE \A x \in Policy : WellFormed(x.when)
BY DEF StoreInv, Stored, Policy

(* If no deny is lost, whoever is entitled with fewer rules was before.     *)
LEMMA EntitledBefore ==
  ASSUME StoreInv, StoreInv', joined' \subseteq joined,
         \A g \in joined' : rules'[g] \subseteq rules[g] /\ bundle'[g] = bundle[g],
         \A g \in joined \ joined' : rules'[g] = {},
         ~Loses, NEW t, Entitled(t)'
  PROVE  Entitled(t)
<1>1. Policy' \subseteq Policy /\ \A y \in Policy \ Policy' : y.effect # "deny"
  BY PolicyShrinks DEF Loses
<1>2. (\A x \in Policy : Ranked(x)) /\ (\A x \in Policy' : Ranked(x))
  BY <1>1, PolicyRanked
<1>3. ASSUME NEW context, NEW stage, Resolve(Policy', context, stage) PROVE Resolve(Policy, context, stage)
  <2>1. Permitted(Policy', context, stage)
    BY <1>2, <1>3, ResolvesAsPermitted
  <2>2. Permitted(Policy, context, stage)
    BY <1>1, <2>1, FewerPermitLess
  <2> QED BY <1>2, <2>2, ResolvesAsPermitted
<1>4. /\ Resolve(Policy', Asks(t, "none"), "base")
      /\ t.scopes \cap AdminScopes # {} => "admins" \in joined'
      /\ \A s \in t.scopes \ Standard : Resolve(Policy', Asks(t, s), "scope")
  BY DEF Entitled
<1> QED BY <1>3, <1>4, PolicyWellFormed DEF Entitled
Narrows == \A t \in Tokens : Usable(t)' => Usable(t) \/ Loses

(* Rows that serve less, and rules that are fewer, permit no more.          *)
LEMMA LessIsNarrow ==
  ASSUME StoreInv, StoreInv', joined' \subseteq joined,
         \A g \in joined' : rules'[g] \subseteq rules[g] /\ bundle'[g] = bundle[g],
         \A g \in joined \ joined' : rules'[g] = {},
         \A a \in Apps : app'[a].on = "enabled" =>
           app[a].on = "enabled" /\ app'[a].apis \subseteq app[a].apis /\ app'[a].scopes \subseteq app[a].scopes,
         \A p \in Apis : api'[p].on = "enabled" =>
           api[p].on = "enabled" /\ api'[p].scopes \subseteq api[p].scopes
  PROVE  Narrows
<1>1. SUFFICES ASSUME NEW t \in Tokens, Usable(t)', ~Loses PROVE Usable(t)
  BY DEF Narrows
<1>2. t.app \in Apps /\ t.api \in Apis
  BY AccessAssumption
<1>3. Entitled(t)
  BY <1>1, EntitledBefore DEF Usable
<1>4. ClientServes(t)
  BY <1>1, <1>2 DEF Usable, ClientServes
<1>5. ResourceServes(t)
  BY <1>1, <1>2 DEF Usable, ResourceServes
<1> QED BY <1>3, <1>4, <1>5 DEF Usable

(* What is offered, and that it is the same unless a row comes or goes or   *)
(* changes its state or its scopes.                                         *)
LEMMA SameOffered ==
  ASSUME \A a \in Apps : app'[a].on = app[a].on, \A g \in Bundles : Stands(g)' = Stands(g), UNCHANGED api
  PROVE  ~Deletes
<1>1. Offered' = Offered
  BY DEF Offered
<1> QED BY <1>1 DEF Deletes

LEMMA AppOffered ==
  ASSUME NEW a \in Apps, app'[a].on # "none", app'[a].on # app[a].on
  PROVE  ~Deletes
<1>1. <<"app", a, app'[a].on>> \in Offered'
  BY DEF Offered
<1>2. <<"app", a, app'[a].on>> \notin Offered
  BY DEF Offered
<1> QED BY <1>1, <1>2 DEF Deletes

LEMMA ApiOffered ==
  ASSUME NEW p \in Apis, api'[p].on # "none", Deletes, NEW s \in api'[p].scopes
  PROVE  api[p].on = api'[p].on /\ s \in api[p].scopes
<1>1. <<"api", <<p, s>>, api'[p].on>> \in Offered'
  BY DEF Offered
<1>2. <<"api", <<p, s>>, api'[p].on>> \in Offered
  BY <1>1 DEF Deletes
<1>3. PICK q \in Apis : /\ api[q].on # "none"
                        /\ <<"api", <<p, s>>, api'[p].on>> \in {<<"api", <<q, z>>, api[q].on>> : z \in api[q].scopes}
  BY <1>2 DEF Offered
<1> QED BY <1>3

(* The handlers that delete.                                               *)
LEMMA DeletionsNarrow ==
  ASSUME StoreInv, StoreInv'
  PROVE  /\ \A a \in Apps : DeleteClient(a) => Narrows
         /\ \A p \in Apis : DeleteResource(p) => Narrows
         /\ \A g \in Bundles : DeleteBundle(g) => Narrows
         /\ \A p \in Apis, on \in {"enabled", "disabled"}, scopes \in {Standard, Scopes} :
              UpdateResource(p, on, scopes) /\ Deletes => Narrows
<1>1. ASSUME NEW a \in Apps, DeleteClient(a) PROVE Narrows
  <2>1. \A g \in joined' : rules'[g] \subseteq rules[g] /\ bundle'[g] = bundle[g]
    BY <1>1 DEF DeleteClient, StoreInv, Pruned
  <2>2. \A b \in Apps : app'[b].on = "enabled" => app'[b] = app[b]
    BY <1>1 DEF DeleteClient, StoreInv, NoApp
  <2> QED BY <1>1, <2>1, <2>2, LessIsNarrow DEF DeleteClient
<1>2. ASSUME NEW p \in Apis, DeleteResource(p) PROVE Narrows
  <2>1. \A g \in joined' : rules'[g] \subseteq rules[g] /\ bundle'[g] = bundle[g]
    BY <1>2 DEF DeleteResource, StoreInv, Pruned
  <2>2. \A a \in Apps : /\ app'[a].on = app[a].on /\ app'[a].apis \subseteq app[a].apis
                        /\ app'[a].scopes = app[a].scopes
    BY <1>2 DEF DeleteResource, StoreInv, AppRows
  <2>3. \A q \in Apis : api'[q].on = "enabled" => api'[q] = api[q]
    BY <1>2 DEF DeleteResource, StoreInv, NoApi
  <2> QED BY <1>2, <2>1, <2>2, <2>3, LessIsNarrow DEF DeleteResource
<1>3. ASSUME NEW g \in Bundles, DeleteBundle(g) PROVE Narrows
  <2>1. /\ joined' \subseteq joined
        /\ \A h \in joined' : rules'[h] = rules[h] /\ bundle'[h] = bundle[h]
        /\ \A h \in joined \ joined' : rules'[h] = {}
    BY <1>3 DEF DeleteBundle, StoreInv
  <2> QED BY <1>3, <2>1, LessIsNarrow DEF DeleteBundle
<1>4. ASSUME NEW p \in Apis, NEW on \in {"enabled", "disabled"}, NEW scopes \in {Standard, Scopes},
             UpdateResource(p, on, scopes), Deletes
      PROVE  Narrows
  <2>1. \A g \in joined' : rules'[g] \subseteq rules[g] /\ bundle'[g] = bundle[g]
    BY <1>4 DEF UpdateResource, StoreInv, PrunedScopes
  <2>2. api'[p].on = on /\ api'[p].scopes = scopes /\ \A q \in Apis : q # p => api'[q] = api[q]
    BY <1>4 DEF UpdateResource, StoreInv
  <2>3. "openid" \in scopes
    BY AccessAssumption DEF Standard
  <2>4. api[p].on = on /\ scopes \subseteq api[p].scopes
    BY <1>4, <2>2, <2>3, ApiOffered
  <2>5. \A q \in Apis : api'[q].on = "enabled" => api[q].on = "enabled" /\ api'[q].scopes \subseteq api[q].scopes
    BY <2>2, <2>4
  <2> QED BY <1>4, <2>1, <2>5, LessIsNarrow DEF UpdateResource
<1> QED BY <1>1, <1>2, <1>3, <1>4

(* The others take nothing away, or offer something new.                   *)
LEMMA OthersKeep ==
  ASSUME AccessInv
  PROVE  /\ UNCHANGED <<bundle, api, app>> => ~Deletes
         /\ \A r \in Calls : UpdateClient(r) \/ CreateClient(r) => ~Deletes
         /\ \A g \in Bundles, n \in Priorities : SetPriority(g, n) => ~Deletes
         /\ \A p \in Apis, scopes \in {Standard, Scopes} : CreateResource(p, scopes) => ~Deletes
         /\ \A a \in Apps, on \in {"enabled", "disabled"} : SetClientEnabled(a, on) => ~Deletes
<1>1. ASSUME UNCHANGED <<bundle, api, app>> PROVE ~Deletes
  BY <1>1, SameOffered DEF Stands
<1>2. ASSUME NEW r \in Calls, UpdateClient(r) PROVE ~Deletes
  <2>1. call[r].on \in Apps
    BY <1>2 DEF UpdateClient, AccessInv, CallsInv, CallHolds
  <2>2. \A a \in Apps : app'[a].on = app[a].on
    BY <1>2, <2>1 DEF UpdateClient, AccessInv, StoreInv, AppRows
  <2> QED BY <1>2, <2>2, SameOffered DEF UpdateClient, Stands
<1>3. ASSUME NEW r \in Calls, CreateClient(r) PROVE ~Deletes
  <2> DEFINE a == call[r].on
  <2>1. a \in Apps
    BY <1>3 DEF CreateClient, AccessInv, CallsInv, CallHolds
  <2>2. CASE app[a].on # "none"
    BY <1>1, <1>3, <2>2 DEF CreateClient
  <2>3. CASE app[a].on = "none"
    <3>1. app'[a].on = "enabled"
      BY <1>3, <2>1, <2>3 DEF CreateClient, AccessInv, StoreInv
    <3> QED BY <2>1, <2>3, <3>1, AppOffered
  <2> QED BY <2>2, <2>3
<1>4. ASSUME NEW g \in Bundles, NEW n \in Priorities, SetPriority(g, n) PROVE ~Deletes
  <2>1. \A h \in Bundles : Stands(h)' = Stands(h)
    BY <1>4, UnrankedOutside DEF SetPriority, Stands, AccessInv, StoreInv
  <2> QED BY <1>4, <2>1, SameOffered DEF SetPriority
<1>5. ASSUME NEW p \in Apis, NEW scopes \in {Standard, Scopes}, CreateResource(p, scopes) PROVE ~Deletes
  <2>1. "openid" \in scopes
    BY AccessAssumption DEF Standard
  <2>2. api'[p].on = "enabled" /\ api'[p].scopes = scopes /\ api[p].on = "none"
    BY <1>5 DEF CreateResource, AccessInv, StoreInv
  <2> QED BY <2>1, <2>2, ApiOffered
<1>6. ASSUME NEW a \in Apps, NEW on \in {"enabled", "disabled"}, SetClientEnabled(a, on) PROVE ~Deletes
  <2>1. app'[a].on = on /\ app[a].on # on
    BY <1>6 DEF SetClientEnabled, AccessInv, StoreInv, AppRows
  <2> QED BY <1>6, <2>1, AppOffered
<1> QED BY <1>1, <1>2, <1>3, <1>4, <1>5, <1>6
LEMMA DeletionStep ==
  ASSUME AccessInv, AccessInv', AccessNext, Deletes
  PROVE  Narrows
<1>1. ASSUME NEW r \in Calls, NEW c, Start(r, c) PROVE FALSE
  BY <1>1, OthersKeep DEF Start
<1>2. ASSUME NEW r \in Calls,
             \/ \E t \in Tokens : \E h \in Handlers(t) : Present(r, t, h)
             \/ LookUp(r) \/ Answered(r)
      PROVE  FALSE
  BY <1>1, <1>2, OthersKeep DEF Present, LookUp, Answered
<1>3. ASSUME NEW r \in Calls,
             \/ \E g \in Bundles, rs \in Submissions : SubmitRules(r, g, rs)
             \/ CheckReferences(r) \/ WriteRules(r)
      PROVE  FALSE
  BY <1>1, <1>3, OthersKeep DEF SubmitRules, CheckReferences, WriteRules
<1>4. ASSUME NEW r \in Calls,
             \/ \E a \in Apps : ConsoleClientSettings(r, a)
             \/ \E a \in Apps, apis \in SUBSET Apis, scopes \in {Standard, Scopes} :
                  \/ ConsoleClientAccess(r, a, apis, scopes) \/ AdminPatchClient(r, a, apis, scopes)
                  \/ ConsoleCreateClient(r, a, apis, scopes) \/ AdminCreateClient(r, a, apis, scopes)
             \/ ValidateClient(r) \/ UpdateClient(r) \/ CreateClient(r)
      PROVE  FALSE
  <2>1. ASSUME NEW a, NEW pc, NEW apis, NEW scopes, Configure(r, a, pc, apis, scopes) PROVE FALSE
    BY <1>1, <2>1 DEF Configure
  <2>2. CASE ValidateClient(r) \/ UpdateClient(r) \/ CreateClient(r)
    BY <2>2, OthersKeep DEF ValidateClient
  <2> QED BY <1>4, <2>1, <2>2 DEF ConsoleClientSettings, ConsoleClientAccess, AdminPatchClient,
             ConsoleCreateClient, AdminCreateClient
<1>5. ASSUME NEW g \in Bundles,
             DeleteBundle(g) \/ ChangeMembership(g) \/ \E n \in Priorities : SetPriority(g, n)
      PROVE  Narrows
  BY <1>5, DeletionsNarrow, OthersKeep DEF ChangeMembership, AccessInv
<1>6. ASSUME NEW p \in Apis,
             \/ \E scopes \in {Standard, Scopes} :
                  CreateResource(p, scopes) \/ \E on \in {"enabled", "disabled"} : UpdateResource(p, on, scopes)
             \/ DeleteResource(p)
      PROVE  Narrows
  BY <1>6, DeletionsNarrow, OthersKeep DEF AccessInv
<1>7. ASSUME NEW a \in Apps,
             DeleteClient(a) \/ RevokeConsent(a) \/ \E on \in {"enabled", "disabled"} : SetClientEnabled(a, on)
      PROVE  Narrows
  BY <1>7, DeletionsNarrow, OthersKeep DEF RevokeConsent, AccessInv
<1>8. ASSUME NEW x, Withdraw(x) \/ ForgetSession PROVE FALSE
  BY <1>8, OthersKeep DEF Withdraw, ForgetSession
<1> QED BY <1>2, <1>3, <1>4, <1>5, <1>6, <1>7, <1>8 DEF AccessNext

(* Deleting a client, a resource, a scope or a group prunes the rules that  *)
(* name it.  That lets nobody do what they could not, unless one of their   *)
(* own groups lost a deny.                                                 *)
THEOREM PruningOnlyLosesDenials == AccessSpec => OnlyDenialsWiden
<1>1. AccessInv /\ AccessInv' /\ [AccessNext]_accessVars =>
        [Deletes => \A t \in Tokens : Usable(t)' =>
           Usable(t) \/ \E g \in joined : \E x \in rules[g] \ rules'[g] : x.effect = "deny"]_accessVars
  BY DeletionStep DEF Narrows, Loses
<1> QED BY <1>1, AccessInvariant, PTL DEF AccessSpec, OnlyDenialsWiden

-----------------------------------------------------------------------------
(* The composition.  The components share no variable, so a behaviour of    *)
(* all of them is one of each.                                             *)

LEMMA ComponentsBehave ==
  Spec => AccessSpec /\ MetadataSpec /\ ClientAuthSpec /\ PasskeysSpec /\ ReauthenticationSpec
<1>1. Init => AccessInit /\ MetadataInit /\ ClientAuthInit /\ PasskeysInit /\ ReauthenticationInit
  BY DEF Init
<1>2. [Next]_endpointVars =>
        /\ [AccessNext]_accessVars /\ [MetadataNext]_metadataVars /\ [ClientAuthNext]_clientAuthVars
        /\ [PasskeysNext]_passkeyVars /\ [ReauthenticationNext]_reauthenticationVars
  BY DEF Next, endpointVars
<1> QED BY <1>1, <1>2, PTL DEF Spec, AccessSpec, MetadataSpec, ClientAuthSpec, PasskeysSpec, ReauthenticationSpec

(* Running beside each other, in any order and at any time, the endpoints   *)
(* for access, metadata clients, client authentication, passkeys and        *)
(* repeated sign-ins keep the types of all their variables.                 *)
THEOREM EndpointsTyped == Spec => []EndpointsTypeOK
<1>1. AccessTypeOK /\ MetadataTypeOK /\ ClientAuthTypeOK /\ PasskeysTypeOK /\ ReauthenticationTypeOK
        => EndpointsTypeOK
  BY DEF EndpointsTypeOK
<1> QED BY <1>1, ComponentsBehave, AccessTyped, MetadataTyped, AuthenticationTyped, CeremoniesTyped,
           BrowsingIsTyped, PTL
(* And each keeps what it promises: what is checked of the endpoints on a   *)
(* small instance holds of any number of requests, rules, documents,        *)
(* passkeys and sessions beside each other.                                 *)
THEOREM EndpointsCorrect ==
  Spec => /\ [](ResolutionAgrees /\ RestsOnCurrent /\ AgreedToDocument /\ BlockStands)
          /\ [](AuthenticationHolds /\ CeremoniesHold /\ ReauthenticationHolds)
          /\ OnlyDenialsWiden
BY ComponentsBehave, RulesResolve, AnswersAreCurrent, ConsentIsToDocument, BlockIsDurable, CredentialsAreCurrent,
   ChallengesAnsweredOnce, OneLoginOneLift, PruningOnlyLosesDenials, PTL
=============================================================================
