------------------------- MODULE GatewayCredentials -------------------------
(***************************************************************************)
(* The credentials of one endpoint (model/gateway_resources.go,            *)
(* channel_keys.go): their rotation by administrators, the pool of keys    *)
(* that the form of a channel saves, and the OAuth refresh by requests     *)
(* (GetToken of providers/codex, claudecode, geminicli and antigravity).   *)
(*                                                                         *)
(* A transaction is one step: each locks the row of the endpoint. A secret *)
(* is the account it belongs to and the version of its refresh token; the  *)
(* upstream takes only the newest version and answers with the next. Load  *)
(* is one step here; RouteIndex follows its queries.                       *)
(***************************************************************************)
EXTENDS Naturals, FiniteSets

CONSTANTS
  Requests,         (* numbers; requests are alike and begin in their order *)
  Calls,            (* numbers; of idle calls of the administration the first begins *)
  MaxRows,          (* bound: rows of gateway_credentials *)
  MaxVersion,       (* bound: refreshes of an account *)
  MaxEdits          (* bound: calls that are begun and keys that forms add *)

ASSUME CredentialAssumption ==
  /\ Requests \subseteq Nat /\ Calls \subseteq Nat
  /\ MaxRows \in Nat /\ MaxRows >= 2
  /\ MaxVersion \in Nat /\ MaxEdits \in Nat

VARIABLES
  rows,             (* gateway_credentials *)
  primary,          (* gateway_endpoints.active_credential_id *)
  index,            (* the pool in the route index: per row its key *)
  live,             (* the upstream: per account the version it takes *)
  request, call,    (* where each is, its row and the secret it has read *)
  edits,
  astray            (* history: accounts whose newest version was not saved *)

credentialVars == <<rows, primary, index, live, request, call, edits, astray>>

Rows == 1..MaxRows
Secret == [account : Rows, version : 0..MaxVersion]
Row == [status : {"none", "pending", "failed", "active", "retired", "revoked"},
        tested : BOOLEAN, enabled : BOOLEAN, secret : Secret]

(* "tested" matters to a pending row only. *)
NewRow(status, enabled, s) ==
  [status |-> status, tested |-> FALSE, enabled |-> enabled, secret |-> s]
Fresh(c) == [account |-> c, version |-> 0]
NoRow(c) == NewRow("none", FALSE, Fresh(c))

Used == {c \in Rows : rows[c].status # "none"}
Pool == {c \in Rows : rows[c].status = "active"}
Usable == {c \in Used : rows[c].status # "revoked"}
Free(n) == Cardinality(Used) + n          (* the n-th id that is not used *)

Idle == [at |-> "idle", form |-> <<>>, row |-> 1]
Without(label) == [at |-> label, row |-> 1, secret |-> Fresh(1)]

(* A pool of two keys, or one key and another that waits for its test. *)
CredentialInit ==
  \E second \in {"active", "pending"} :
    /\ rows = [c \in Rows |-> CASE c = 1 -> NewRow("active", TRUE, Fresh(c))
                              [] c = 2 -> NewRow(second, TRUE, Fresh(c))
                              [] OTHER -> NoRow(c)]
    /\ primary = 1
    /\ index = [c \in (IF second = "active" THEN {1, 2} ELSE {1}) |->
                  [enabled |-> TRUE, secret |-> Fresh(c)]]
    /\ live = [c \in Rows |-> 0]
    /\ request = [r \in Requests |-> Without("new")]
    /\ call = [k \in Calls |-> Idle]
    /\ edits = 0 /\ astray = {}

-----------------------------------------------------------------------------
(* The administration. *)

Begins(k) ==
  /\ call[k].at = "idle" /\ \A j \in Calls : j < k => call[j].at # "idle"
  /\ edits < MaxEdits /\ edits' = edits + 1
CallGoes(k, label) == call' = [call EXCEPT ![k] = [Idle EXCEPT !.at = label]]

CreatePending(k) ==
  /\ Begins(k) /\ Free(1) \in Rows
  /\ rows' = [rows EXCEPT ![Free(1)] = NewRow("pending", TRUE, Fresh(Free(1)))]
  /\ UNCHANGED <<primary, index, live, request, call, astray>>

(* TestProviderCredential reads the secret ... *)
StartTest(k) ==
  /\ Begins(k)
  /\ \E c \in Usable : call' = [call EXCEPT ![k].at = "tests", ![k].row = c]
  /\ UNCHANGED <<rows, primary, index, live, request, astray>>

(* ... and asks the upstream. Its probe may not save (CredentialReadOnly), so
   the version that a refresh by it returns is thrown away. *)
ProbeRefreshes(k) ==
  LET s == rows[call[k].row].secret IN
  /\ call[k].at = "tests"
  /\ s.version = live[s.account] /\ s.version < MaxVersion
  /\ live' = [live EXCEPT ![s.account] = @ + 1]
  /\ astray' = astray \cup {s.account}
  /\ UNCHANGED <<rows, primary, index, request, call, edits>>

(* Mutant: without the condition on the status. *)
MarkedAlways(c, passed) ==
  [rows EXCEPT ![c].status = IF passed THEN "pending" ELSE "failed", ![c].tested = passed]

Marked(c, passed) ==
  IF rows[c].status \in {"pending", "failed"}
    THEN [rows EXCEPT ![c].status = IF passed THEN "pending" ELSE "failed", ![c].tested = passed]
    ELSE rows

MarkTestResult(k) ==
  /\ call[k].at = "tests"
  /\ \E passed \in BOOLEAN : rows' = Marked(call[k].row, passed)
  /\ CallGoes(k, "idle")
  /\ UNCHANGED <<primary, index, live, request, edits, astray>>

(* The rows, with those of a set retired. *)
Retiring(S) ==
  [c \in Rows |-> IF c \in S THEN [rows[c] EXCEPT !.status = "retired"] ELSE rows[c]]

ActivateGatewayCredential(k) ==
  /\ Begins(k)
  /\ \E c \in Rows :
       /\ rows[c].status = "pending" /\ rows[c].tested
       /\ rows' = [Retiring(Pool) EXCEPT ![c].status = "active"]
       /\ primary' = c
  /\ CallGoes(k, "load")
  /\ UNCHANGED <<index, live, request, astray>>

(* UpdateChannel, by the form that has a single key. *)
ReplaceActive(k) ==
  /\ Begins(k) /\ Free(1) \in Rows
  /\ rows' = [Retiring(Pool) EXCEPT ![Free(1)] = NewRow("active", TRUE, Fresh(Free(1)))]
  /\ primary' = Free(1)
  /\ CallGoes(k, "load")
  /\ UNCHANGED <<index, live, request, astray>>

(* The form of a channel shows the pool (GetProviderConnectionKeys) ... *)
OpenForm(k) ==
  /\ Begins(k)
  /\ call' = [call EXCEPT ![k].at = "form", ![k].form = [c \in Pool |-> rows[c].secret]]
  /\ UNCHANGED <<rows, primary, index, live, request, astray>>

(* ... and saveGatewayKeyPool stores the keys that were kept and one that was
   added. It finds the row of a key by its secret: one that was refreshed
   meanwhile is retired, and its older secret gets a new row. *)
SaveKeyPool(k) ==
  LET form == call[k].form IN
  /\ call[k].at = "form"
  /\ \E kept \in SUBSET DOMAIN form, adds \in BOOLEAN :
       LET outdated == {c \in kept : rows[c].secret # form[c]}
           moved == [c \in kept |-> IF c \in outdated
                       THEN Free(1 + Cardinality({d \in outdated : d < c})) ELSE c]
           added == IF adds THEN {Free(1 + Cardinality(outdated))} ELSE {}
           saved == {moved[c] : c \in kept} \cup added IN
       /\ saved # {} /\ kept \subseteq Pool /\ saved \subseteq Rows
       /\ \E enabled \in SUBSET saved :
            /\ rows' = [c \in Rows |->
                 CASE c \in added -> NewRow("active", c \in enabled, Fresh(c))
                   [] c \in saved \cap kept -> [rows[c] EXCEPT !.enabled = c \in enabled]
                   [] c \in saved \ (kept \cup added) -> NewRow("active", c \in enabled,
                                              form[CHOOSE d \in outdated : moved[d] = c])
                   [] c \in Pool \ saved -> [rows[c] EXCEPT !.status = "retired"]
                   [] OTHER -> rows[c]]
            /\ primary' \in (IF enabled = {} THEN saved ELSE enabled)
       /\ astray' = astray \cup {form[c].account : c \in outdated}
       /\ edits' = edits + Cardinality(added) /\ edits' <= MaxEdits
  /\ CallGoes(k, "load")
  /\ UNCHANGED <<index, live, request>>

(* A key of the form is no longer in the pool, or the administrator leaves. *)
FormFails(k) ==
  /\ call[k].at = "form"
  /\ CallGoes(k, "idle")
  /\ UNCHANGED <<rows, primary, index, live, request, edits, astray>>

(* notifyChannelRelayError, in a goroutine, of a key the upstream rejects. *)
DisableGatewayCredential(k) ==
  /\ Begins(k)
  /\ \E c \in Used : rows' = [rows EXCEPT ![c].enabled = @ /\ c \notin Pool]
  /\ CallGoes(k, "load")
  /\ UNCHANGED <<primary, index, live, request, astray>>

(* Only the endpoint's own credential is refused; the index is not loaded. *)
RevokeGatewayCredential(k) ==
  /\ Begins(k)
  /\ \E c \in Usable \ {primary} : rows' = [rows EXCEPT ![c].status = "revoked"]
  /\ UNCHANGED <<primary, index, live, request, call, astray>>

LoadedPool == [c \in Pool |-> [enabled |-> rows[c].enabled, secret |-> rows[c].secret]]

LoadAfterCall(k) ==
  /\ call[k].at = "load"
  /\ index' = LoadedPool
  /\ CallGoes(k, "idle")
  /\ UNCHANGED <<rows, primary, live, request, edits, astray>>

-----------------------------------------------------------------------------
(* Requests. *)

Has(r, c, s) == request' = [request EXCEPT ![r] = [at |-> "token", row |-> c, secret |-> s]]
Arrives(r) == request[r].at = "new" /\ \A q \in Requests : q < r => request[q].at # "new"
RequestGoes(r, label) == request' = [request EXCEPT ![r] = Without(label)]

(* SelectGatewayCredential, from the index. *)
SelectKey(r) ==
  /\ Arrives(r)
  /\ \E c \in DOMAIN index : index[c].enabled /\ Has(r, c, index[c].secret)
  /\ UNCHANGED <<rows, primary, index, live, call, edits, astray>>

(* From the database: a later request of a task takes the key of its first one
   (PinGatewayCredential), which the index has offered; a request for a given
   channel takes one of the pool. *)
PinKey(r) ==
  /\ Arrives(r)
  /\ \E c \in Rows : rows[c].status \in {"active", "retired"} /\ Has(r, c, rows[c].secret)
  /\ UNCHANGED <<rows, primary, index, live, call, edits, astray>>

(* GetToken: the access token is still good, or in the cache. *)
UseToken(r) ==
  /\ request[r].at = "token" /\ RequestGoes(r, "over")
  /\ UNCHANGED <<rows, primary, index, live, call, edits, astray>>

(* Whether the upstream takes the request's refresh token. *)
Takes(r) ==
  LET s == request[r].secret IN s.version = live[s.account] /\ s.version < MaxVersion
Rotates(r) == live' = [live EXCEPT ![request[r].secret.account] = @ + 1]
Lose(r) == astray' = astray \cup {request[r].secret.account}

Refresh(r) ==
  /\ request[r].at = "token" /\ Takes(r)
  /\ Rotates(r)
  /\ request' = [request EXCEPT ![r].at = "save", ![r].secret.version = @ + 1]
  /\ UNCHANGED <<rows, primary, index, call, edits, astray>>

(* The answer is lost; every further try sends the same refresh token. *)
RefreshAnswerLost(r) ==
  /\ request[r].at = "token" /\ Takes(r)
  /\ Rotates(r) /\ Lose(r)
  /\ RequestGoes(r, "over")
  /\ UNCHANGED <<rows, primary, index, call, edits>>

(* The upstream is not reached, or no longer takes the token. *)
RefreshFails(r) ==
  /\ request[r].at = "token" /\ RequestGoes(r, "over")
  /\ UNCHANGED <<rows, primary, index, live, call, edits, astray>>

(* Mutant: the endpoint's current credential is saved. *)
SavedRowOfEndpoint(r) == primary

SavedRow(r) == request[r].row

SaveRefreshed(r) ==
  /\ request[r].at = "save" /\ rows[SavedRow(r)].status # "revoked"
  /\ rows' = [rows EXCEPT ![SavedRow(r)].secret = request[r].secret]
  /\ RequestGoes(r, "load")
  /\ UNCHANGED <<primary, index, live, call, edits, astray>>

(* The row is revoked or the statement fails: logged, the request goes on. *)
SaveRefreshedFails(r) ==
  /\ request[r].at = "save" /\ RequestGoes(r, "over") /\ Lose(r)
  /\ UNCHANGED <<rows, primary, index, live, call, edits>>

LoadAfterSave(r) ==
  /\ request[r].at = "load"
  /\ index' = LoadedPool
  /\ RequestGoes(r, "over")
  /\ UNCHANGED <<rows, primary, live, call, edits, astray>>

-----------------------------------------------------------------------------
Administration(k) ==
  \/ CreatePending(k) \/ StartTest(k) \/ ProbeRefreshes(k) \/ MarkTestResult(k)
  \/ ActivateGatewayCredential(k) \/ ReplaceActive(k) \/ OpenForm(k) \/ SaveKeyPool(k)
  \/ FormFails(k) \/ DisableGatewayCredential(k) \/ RevokeGatewayCredential(k)
  \/ LoadAfterCall(k)

TokenStep(r) ==
  \/ SelectKey(r) \/ PinKey(r) \/ UseToken(r) \/ Refresh(r) \/ RefreshAnswerLost(r)
  \/ RefreshFails(r) \/ SaveRefreshed(r) \/ SaveRefreshedFails(r) \/ LoadAfterSave(r)

CredentialNext ==
  \/ \E k \in Calls : Administration(k)
  \/ \E r \in Requests : TokenStep(r)

CredentialSpec == CredentialInit /\ [][CredentialNext]_credentialVars

-----------------------------------------------------------------------------
(* Properties. *)

CredentialTypeOK ==
  /\ rows \in [Rows -> Row] /\ primary \in Rows
  /\ live \in [Rows -> 0..MaxVersion] /\ astray \subseteq Rows /\ edits \in 0..MaxEdits
  /\ \A c \in DOMAIN index : c \in Rows /\ index[c].secret \in Secret
  /\ \A r \in Requests : request[r].row \in Rows /\ request[r].secret \in Secret

(* The credential that the endpoint refers to is an active one, whichever
   activations, late test results, saved forms and revocations meet: without
   it every load of the route index would fail or serve a withdrawn key. *)
PrimaryIsActive == primary \in Pool

IsSaving(r, a) == request[r].at = "save" /\ request[r].secret.account = a

(* Each row that may be used holds the newest refresh token of its account, or
   a request is about to save it, unless the token went astray: requests that
   refresh at the same time, rotations and revocations lose none, and none is
   saved over another account's. *)
RotationIsSaved ==
  \A c \in Usable :
    LET a == rows[c].secret.account IN
    \/ a \in astray
    \/ rows[c].secret.version = live[a]
    \/ \E r \in Requests : IsSaving(r, a)
=============================================================================
