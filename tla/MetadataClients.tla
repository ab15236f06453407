--------------------------- MODULE MetadataClients ---------------------------
(***************************************************************************)
(* Clients that describe themselves: a document fetched from the client's   *)
(* own URL, its cached row, the operator's approval and block, the user's   *)
(* consent, which is to the fingerprint of a document, and what is honoured *)
(* on the strength of it.  One client, one user and one API are enough; the *)
(* API is enabled for MCP.  Each request goes one await at a time.          *)
(*                                                                         *)
(* A document is its fingerprint.  How it is fetched is in ClientAuth; the  *)
(* cap on the number of rows, the login and the rules of groups are left    *)
(* out here.                                                               *)
(***************************************************************************)
EXTENDS Naturals, FiniteSets

CONSTANTS
  Documents,           \* what the client's URL may serve
  Wishes,              \* the sets of scopes clients ask for
  AdmissionPolicies,   \* of the API: "consent_required", "admin_approved"
  Visits,              \* concurrent Worker invocations
  DocumentTtls,        \* what metadataTtl may return
  MetadataRetention,   \* after which maintenance looks at expired rows
  MaxVisits, MaxDays   \* bounds on invocations and outside events, and on the clock

ASSUME MetadataAssumption ==
  /\ AdmissionPolicies \subseteq {"consent_required", "admin_approved"}
  /\ DocumentTtls \subseteq Nat /\ MetadataRetention \in Nat /\ MaxVisits \in Nat /\ MaxDays \in Nat

VARIABLES
  served,     \* the document at the client's URL
  admission,  \* oauth_resources.metadata_client_policy
  card,       \* the row of the client in oauth_clients
  approved,   \* whether oauth_metadata_client_approvals has the pair
  consent,    \* consents: the fingerprint and the scopes
  codes,      \* unspent authorization codes
  chains,     \* refresh_tokens
  visit,      \* locals of the invocations
  decided,    \* history: <<fingerprint, scope>> that a decision has approved
  honoured,   \* what tokens were issued or accepted for
  blocked,    \* whether the operator has disabled the client and not relented
  day, visits

metadataVars ==
  <<served, admission, card, approved, consent, codes, chains, visit, decided,
    honoured, blocked, day, visits>>

AllWishes == UNION Wishes
NoCard == [on |-> "none", fp |-> "none", until |-> 0]
NoConsent == [fp |-> "none", scopes |-> {}]
Away == [pc |-> "away", kind |-> "none", asks |-> {}, fp |-> "none", until |-> 0, differs |-> FALSE]

CodeRecords == [fp : Documents, scopes : Wishes]
Chains == [scopes : Wishes, open : BOOLEAN]

MetadataInit ==
  /\ served \in Documents /\ admission \in AdmissionPolicies
  /\ card = NoCard /\ approved = FALSE /\ consent = NoConsent /\ codes = {} /\ chains = {}
  /\ visit = [v \in Visits |-> Away]
  /\ decided = {} /\ honoured = {} /\ blocked = FALSE /\ day = 0 /\ visits = 0

-----------------------------------------------------------------------------
(* Whatever happens from outside counts towards the bound.                 *)
Event == visits < MaxVisits /\ visits' = visits + 1

Leaves(v) == visit' = [visit EXCEPT ![v] = Away]
Goes(v, pc) == visit' = [visit EXCEPT ![v].pc = pc]

Enters(v, locals) ==
  /\ visit[v].pc = "away" /\ Event
  /\ visit' = [visit EXCEPT ![v] = locals]

(* consentCoversScopes, for the fingerprint of the row a request has read.  *)
AnyDocument(fp, scopes) == consent.fp # "none" /\ scopes \subseteq consent.scopes   \* slip
ConsentCovers(fp, scopes) == consent.fp = fp /\ scopes \subseteq consent.scopes

Admitted == admission = "admin_approved" => approved

-----------------------------------------------------------------------------
(* resolveAuthorizationClient, for the page and again for the decision.     *)

(* A row that has not expired is taken as it is, and written back below.    *)
Authorize(v, kind, scopes) ==
  /\ IF card.on # "none" /\ card.until > day
     THEN Enters(v, [Away EXCEPT !.pc = "existing", !.kind = kind, !.asks = scopes, !.fp = card.fp, !.until = card.until])
     ELSE Enters(v, [Away EXCEPT !.pc = "fetch", !.kind = kind, !.asks = scopes])
  /\ UNCHANGED <<served, admission, card, approved, consent, codes, chains, decided, honoured, blocked, day>>

GetAuthorize(v, scopes) == Authorize(v, "page", scopes)
PostDecision(v, scopes) == Authorize(v, "decision", scopes)

(* fetchClientIdMetadata. *)
FetchDocument(v, ttl) ==
  /\ visit[v].pc = "fetch"
  /\ visit' = [visit EXCEPT ![v].pc = "existing", ![v].fp = served, ![v].until = day + ttl]
  /\ UNCHANGED <<served, admission, card, approved, consent, codes, chains, decided, honoured, blocked, day, visits>>

FetchFails(v) ==
  /\ visit[v].pc = "fetch" /\ Leaves(v)
  /\ UNCHANGED <<served, admission, card, approved, consent, codes, chains, decided, honoured, blocked, day, visits>>

(* upsertMetadataClient: INSERT OR IGNORE, read the row again, ...          *)
InsertCard(v) ==
  /\ visit[v].pc = "existing" /\ Goes(v, "reread")
  /\ card' = IF card.on # "none" THEN card
             ELSE [on |-> "enabled", fp |-> visit[v].fp, until |-> visit[v].until]
  /\ UNCHANGED <<served, admission, approved, consent, codes, chains, decided, honoured, blocked, day, visits>>

RereadCard(v) ==
  /\ visit[v].pc = "reread"
  /\ IF card.on = "none" THEN Leaves(v)
     ELSE visit' = [visit EXCEPT ![v].pc = "batch", ![v].differs = card.fp # visit[v].fp]
  /\ UNCHANGED <<served, admission, card, approved, consent, codes, chains, decided, honoured, blocked, day, visits>>

(* ... and one batch: the new document, and the end of what the old one got. *)
UpsertCard(v) ==
  LET at == visit[v] IN
  /\ at.pc = "batch" /\ Goes(v, "updated")
  /\ card' = IF card.on = "none" THEN card ELSE [card EXCEPT !.fp = at.fp, !.until = at.until]
  /\ chains' = IF at.differs THEN {[c EXCEPT !.open = FALSE] : c \in chains} ELSE chains
  /\ UNCHANGED <<served, admission, approved, consent, codes, decided, honoured, blocked, day, visits>>

(* The row as it now is, whoever wrote it, and the approval.                *)
ResolvedClient(v) ==
  /\ visit[v].pc = "updated"
  /\ IF card.on = "none" THEN Leaves(v)
     ELSE visit' = [visit EXCEPT ![v].pc = "approval", ![v].fp = card.fp, ![v].until = 0,
                                 ![v].differs = card.on = "disabled"]
  /\ UNCHANGED <<served, admission, card, approved, consent, codes, chains, decided, honoured, blocked, day, visits>>

(* validateAuthorizeRequest goes by the row returned.                      *)
ApprovalChecked(v) ==
  /\ visit[v].pc = "approval"
  /\ IF visit[v].differs \/ ~Admitted THEN Leaves(v) ELSE Goes(v, visit[v].kind)
  /\ UNCHANGED <<served, admission, card, approved, consent, codes, chains, decided, honoured, blocked, day, visits>>

-----------------------------------------------------------------------------
(* handleAuthorized: a code at once for what was agreed to, else the page.  *)
ConsentLooked(v) ==
  LET at == visit[v] IN
  /\ at.pc = "page"
  /\ IF ConsentCovers(at.fp, at.asks) THEN Goes(v, "code") ELSE Leaves(v)
  /\ UNCHANGED <<served, admission, card, approved, consent, codes, chains, decided, honoured, blocked, day, visits>>

(* saveConsent: scopes add up under one fingerprint and start over with     *)
(* another.                                                                *)
Merged(fp, scopes) ==
  [fp |-> fp, scopes |-> IF consent.fp = fp THEN consent.scopes \cup scopes ELSE scopes]

(* "approve" on the page, with the fingerprint that was resolved just now.  *)
SaveConsent(v) ==
  LET at == visit[v] IN
  /\ at.pc = "decision"
  /\ IF card.on = "none" THEN Leaves(v) /\ UNCHANGED <<consent, decided>>
     ELSE /\ consent' = Merged(at.fp, at.asks) /\ Goes(v, "code")
          /\ decided' = decided \cup ({at.fp} \X at.asks)
  /\ UNCHANGED <<served, admission, card, approved, codes, chains, honoured, blocked, day, visits>>

(* completeAuthorization. *)
IssueCode(v) ==
  /\ visit[v].pc = "code" /\ Leaves(v)
  /\ codes' = codes \cup {[fp |-> visit[v].fp, scopes |-> visit[v].asks]}
  /\ UNCHANGED <<served, admission, card, approved, consent, chains, decided, honoured, blocked, day, visits>>

-----------------------------------------------------------------------------
(* The token endpoint: authenticateClient reads the row, then the grant.    *)

Returns(v, kind, scopes) ==
  /\ card.on = "enabled"
  /\ Enters(v, [Away EXCEPT !.pc = kind, !.kind = kind, !.asks = scopes, !.fp = card.fp])
  /\ UNCHANGED <<served, admission, card, approved, consent, codes, chains, decided, honoured, blocked, day>>

ExchangeCode(v, c) == c \in codes /\ Returns(v, "consume", c.scopes)
RefreshChain(v, c) == c \in chains /\ Returns(v, "use", c.scopes)

(* consumeIf: a code for another document is left alone.                   *)
ConsumeCode(v) ==
  LET c == [fp |-> visit[v].fp, scopes |-> visit[v].asks] IN
  /\ visit[v].pc = "consume"
  /\ IF c \in codes THEN Goes(v, "check") /\ codes' = codes \ {c}
     ELSE Leaves(v) /\ UNCHANGED codes
  /\ UNCHANGED <<served, admission, card, approved, consent, chains, decided, honoured, blocked, day, visits>>

(* Consent and resource, looked up together.                               *)
CheckGrant(v) ==
  LET at == visit[v] IN
  /\ at.pc = "check"
  /\ IF ConsentCovers(at.fp, at.asks) /\ Admitted THEN Goes(v, "issue") ELSE Leaves(v)
  /\ UNCHANGED <<served, admission, card, approved, consent, codes, chains, decided, honoured, blocked, day, visits>>

IssueTokens(v) ==
  LET at == visit[v] IN
  /\ at.pc = "issue" /\ Leaves(v)
  /\ chains' = IF card.on = "none" THEN chains ELSE chains \cup {[scopes |-> at.asks, open |-> TRUE]}
  /\ honoured' = honoured \cup ({at.fp} \X at.asks)
  /\ UNCHANGED <<served, admission, card, approved, consent, codes, decided, blocked, day, visits>>

(* handleRefreshToken and handleIntrospect.                                *)
UseChain(v) ==
  LET at == visit[v] IN
  /\ at.pc = "use" /\ Leaves(v)
  /\ honoured' = IF /\ [scopes |-> at.asks, open |-> TRUE] \in chains
                    /\ ConsentCovers(at.fp, at.asks) /\ Admitted
                 THEN honoured \cup ({at.fp} \X at.asks) ELSE honoured
  /\ UNCHANGED <<served, admission, card, approved, consent, codes, chains, decided, blocked, day, visits>>

-----------------------------------------------------------------------------
(* The operator.                                                           *)

Approve ==
  /\ Event /\ card.on # "none" /\ admission = "admin_approved" /\ ~approved /\ approved' = TRUE
  /\ UNCHANGED <<served, admission, card, consent, codes, chains, visit, decided, honoured, blocked, day>>

WithdrawApproval ==
  /\ Event /\ approved /\ approved' = FALSE
  /\ UNCHANGED <<served, admission, card, consent, codes, chains, visit, decided, honoured, blocked, day>>

Block(on) ==
  /\ Event /\ card.on = (IF on THEN "enabled" ELSE "disabled")
  /\ card' = [card EXCEPT !.on = IF on THEN "disabled" ELSE "enabled"] /\ blocked' = on
  /\ UNCHANGED <<served, admission, approved, consent, codes, chains, visit, decided, honoured, day>>

(* What the row takes with it.  Codes are in objects of their own.          *)
CardGone == card' = NoCard /\ approved' = FALSE /\ consent' = NoConsent /\ chains' = {} /\ blocked' = FALSE

DeleteCard ==
  /\ Event /\ card.on # "none" /\ CardGone
  /\ UNCHANGED <<served, admission, codes, visit, decided, honoured, day>>

(* Slip: a disabled row is collected as well.                              *)
AnyStale == card.on # "none" /\ card.until + MetadataRetention < day /\ consent = NoConsent /\ chains = {}

(* Maintenance deletes what expired and nobody uses.                       *)
Stale == card.on = "enabled" /\ card.until + MetadataRetention < day /\ consent = NoConsent /\ chains = {}

CleanupCard ==
  /\ Stale /\ card' = NoCard /\ approved' = FALSE
  /\ UNCHANGED <<served, admission, consent, codes, chains, visit, decided, honoured, blocked, day, visits>>

(* The user revokes the application.                                       *)
RevokeMetadataApp ==
  /\ Event /\ consent # NoConsent /\ consent' = NoConsent
  /\ chains' = {[c EXCEPT !.open = FALSE] : c \in chains}
  /\ UNCHANGED <<served, admission, card, approved, codes, visit, decided, honoured, blocked, day>>

(* The client's site publishes another document.                           *)
Publish(d) ==
  /\ Event /\ d # served /\ served' = d
  /\ UNCHANGED <<admission, card, approved, consent, codes, chains, visit, decided, honoured, blocked, day>>

NextDay ==
  /\ day < MaxDays /\ day' = day + 1
  /\ UNCHANGED <<served, admission, card, approved, consent, codes, chains, visit, decided, honoured, blocked, visits>>

-----------------------------------------------------------------------------
MetadataNext ==
  \/ \E v \in Visits :
       \/ \E s \in Wishes : GetAuthorize(v, s) \/ PostDecision(v, s)
       \/ \E ttl \in DocumentTtls : FetchDocument(v, ttl)
       \/ FetchFails(v) \/ InsertCard(v) \/ RereadCard(v) \/ UpsertCard(v)
       \/ ResolvedClient(v) \/ ApprovalChecked(v) \/ ConsentLooked(v) \/ SaveConsent(v) \/ IssueCode(v)
       \/ \E c \in CodeRecords : ExchangeCode(v, c)
       \/ \E c \in Chains : RefreshChain(v, c)
       \/ ConsumeCode(v) \/ CheckGrant(v) \/ IssueTokens(v) \/ UseChain(v)
  \/ Approve \/ WithdrawApproval \/ (\E on \in BOOLEAN : Block(on)) \/ DeleteCard
  \/ CleanupCard \/ RevokeMetadataApp \/ (\E d \in Documents : Publish(d)) \/ NextDay

MetadataSpec == MetadataInit /\ [][MetadataNext]_metadataVars

-----------------------------------------------------------------------------
(* The variables have their types.                                         *)
MetadataTypeOK ==
  /\ served \in Documents /\ admission \in AdmissionPolicies
  /\ card.on \in {"none", "enabled", "disabled"} /\ card.fp \in Documents \cup {"none"} /\ card.until \in Nat
  /\ approved \in BOOLEAN /\ consent.fp \in Documents \cup {"none"} /\ consent.scopes \subseteq AllWishes
  /\ codes \subseteq CodeRecords /\ chains \subseteq Chains
  /\ decided \subseteq Documents \X AllWishes

(* docs/mcp.md: consent is to one fingerprint.  However documents change    *)
(* under decisions, codes and families, every scope that a consent records, *)
(* and every scope a token is issued or accepted for, was approved by the   *)
(* user for the very document the request went by.  Approved is what the    *)
(* decision's own POST resolved, which the page before it may not have      *)
(* shown.                                                                  *)
AgreedToDocument ==
  /\ {consent.fp} \X consent.scopes \subseteq decided
  /\ honoured \subseteq decided

(* docs/operations.md: a disabled row is a durable block.  No onboarding,   *)
(* refresh of the document or clean-up lifts it.                            *)
BlockStands == blocked => card.on = "disabled"
=============================================================================
