------------------------------- MODULE ApiCalls -------------------------------
(***************************************************************************)
(* The HTTP control plane: the typed endpoint methods of ApiClient and     *)
(* what each requires (rbac.rs, users.rs, admin.rs, groups.rs, ...), the   *)
(* request options (request.rs), send_request with its one retry after a   *)
(* 401 (client.rs) and the decoders (response.rs).                         *)
(*                                                                         *)
(* A host task works on one intent: it calls an endpoint, and when the     *)
(* outcome is unknown it may call again with the same options.  The server *)
(* and the network are external: a request can be lost, answered late, or  *)
(* served after its caller gave up; the server keeps the answer it gave to *)
(* an idempotency key and compares an If-Match with the version.           *)
(* refresh_access is CredentialRefresh's matter; here it is one step with  *)
(* its possible results.                                                   *)
(***************************************************************************)
EXTENDS Naturals, FiniteSets, ServerCard

CONSTANTS
    Intents,                \* host tasks
    CardTexts,              \* server card texts a host may be given
    MaxCalls,               \* calls per intent
    MaxTokens,              \* bound on token pairs
    MaxVersions,            \* bound on writes of other clients
    MaxSends                \* bound on requests, over all intents

ASSUME ApiAssumption ==
    MaxCalls \in Nat /\ MaxTokens \in Nat \ {0} /\ MaxVersions \in Nat
    /\ MaxSends \in Nat

------------------------------------------------------------------------------
(***************************************************************************)
(* The endpoints, by what their methods check and send.                    *)
(***************************************************************************)

Read == [writes |-> FALSE, keyed |-> FALSE, auth |-> TRUE, answer |-> "json",
         requires |-> {}, then |-> "return"]
Write(answer, requires) ==
    [Read EXCEPT !.writes = TRUE, !.keyed = TRUE, !.answer = answer,
                 !.requires = requires]
Anonymous(endpoint) == [endpoint EXCEPT !.auth = FALSE]

\* What a method does with the active pair once its request has succeeded.
Then(endpoint, step) == [endpoint EXCEPT !.then = step]

RbacApi ==
    [list_roles |-> Read, create_role |-> Write("json", {}),
     update_role |-> Write("json", {"role_key"}),
     delete_role |-> Write("none", {"role_key"}),
     list_bindings |-> Read, create_binding |-> Write("json", {}),
     delete_binding |-> Write("none", {}), transfer_owner |-> Write("json", {}),
     get_config |-> Read, update_config |-> Write("json", {"if_match"}),
     reset_config |-> Write("json", {"if_match"})]

UserApi ==
    [list |-> Read, get |-> Read, update |-> Write("json", {}),
     reset_password |-> Write("none", {}), kick |-> Write("none", {}),
     ban |-> Write("none", {}), unban |-> Write("none", {}),
     delete |-> Write("none", {}), update_profile |-> Write("json", {}),
     change_password |-> Write("none", {}), upload_avatar |-> Write("json", {}),
     delete_avatar |-> Write("none", {})]

AdminApi ==
    [list_invites |-> Read, create_invite |-> Write("json", {}),
     delete_invite |-> Write("none", {}), metrics |-> Read]

GroupApi ==
    [list |-> Read, get |-> Read, create |-> Write("json", {}),
     update |-> Write("json", {"if_match"}), delete |-> Write("none", {"if_match"}),
     list_access |-> Read, add_access |-> Write("json", {"if_match"}),
     delete_access |-> Write("none", {"if_match"})]

ChannelApi ==
    [list |-> Read, get |-> Read, create |-> Write("json", {}),
     update |-> Write("json", {"if_match"}), delete |-> Write("none", {"if_match"}),
     list_access |-> Read, add_access |-> Write("json", {"if_match"}),
     add_access_and_parent |-> Write("json", {"if_match", "parent_if_match"}),
     delete_access |-> Write("none", {"if_match"})]

VoiceApi ==
    [join_voice |-> Write("json", {"control_connection"}),
     leave_voice |-> Write("none", {"control_connection"})]

ModerationApi ==
    [list |-> Read, create |-> Write("json", {}),
     update |-> Write("json", {"if_match"}), delete |-> Write("none", {"if_match"})]

AuthApi ==
    [status |-> Anonymous(Read),
     login |-> Then(Anonymous([Write("json", {}) EXCEPT !.keyed = FALSE]), "set_tokens"),
     register |-> Anonymous(Write("json", {})),
     activate |-> Anonymous(Write("json", {})),
     logout |-> Then(Anonymous(Write("none", {})), "clear_tokens"),
     me |-> Read, list_users |-> Read]

DiscoveryApi == [metadata |-> Anonymous(Read), snapshot |-> Read]

RangeOf(api) == {api[e] : e \in DOMAIN api}
Endpoints ==
    UNION {RangeOf(RbacApi), RangeOf(UserApi), RangeOf(AdminApi),
           RangeOf(GroupApi), RangeOf(ChannelApi), RangeOf(VoiceApi),
           RangeOf(ModerationApi), RangeOf(AuthApi), RangeOf(DiscoveryApi)}

------------------------------------------------------------------------------
VARIABLES
    card,         \* ApiClient::card, or why there is no client
    active,       \* token_state: number of the active pair, 0 for none
    issued,       \* server: pairs issued so far
    accepted,     \* server: pairs whose access token it accepts
    call,         \* per intent, its current or last call
    keys,         \* IDEMPOTENCY_COUNTER
    net,          \* requests under way
    sends,        \* requests sent so far
    version,      \* server: version of the resource all intents write
    answered,     \* server: keys it has an answer for
    applied,      \* server, history: how often each intent was applied
    stale         \* history: intents applied to a version their caller had
                  \* not read, though the endpoint is preconditioned

clientVars == <<card, active, call, keys>>
serverVars == <<issued, accepted, net, sends, version, answered, applied, stale>>
vars == <<clientVars, serverVars>>

NoKey == 0
OwnKey == MaxSends + 1      \* a caller-owned key, told apart by the intent

Idle == [at |-> "idle", endpoint |-> Read, options |-> {}, owned |-> FALSE,
         etag |-> 0, key |-> NoKey, token |-> 0, retried |-> FALSE,
         sent |-> 0, outcome |-> "none", calls |-> 0]

Init ==
    /\ card \in {IF Parse(t) = "ok" THEN CardOf(t) ELSE [error |-> Parse(t)] :
                   t \in CardTexts}
    /\ active \in {0, 1} /\ issued = 1 /\ accepted = {1}
    /\ call = [i \in Intents |-> Idle] /\ keys = 1
    /\ net = {} /\ sends = 0 /\ version = 0 /\ answered = {}
    /\ applied = [i \in Intents |-> 0] /\ stale = {}

Usable == "error" \notin DOMAIN card

------------------------------------------------------------------------------
(***************************************************************************)
(* An endpoint method.                                                     *)
(***************************************************************************)

Set(i, changes) ==
    call' = [call EXCEPT ![i] = [f \in DOMAIN Idle |->
               IF f \in DOMAIN changes THEN changes[f] ELSE call[i][f]]]

Returns(i, outcome) == Set(i, [at |-> "done", outcome |-> outcome])

\* Mutant: every call gets a fresh key.
EnsureIdempotency_Fresh(endpoint, owned) == IF endpoint.keyed THEN keys ELSE NoKey

\* ensure_idempotency: a key of the caller's is kept, else one is generated.
EnsureIdempotency(endpoint, owned) ==
    IF endpoint.keyed THEN (IF owned THEN OwnKey ELSE keys) ELSE NoKey

\* Mutant: a missing precondition is left to the server.
Missing_Unchecked(endpoint, options) == endpoint.requires \ (options \cup {"if_match"})

\* require_if_match, require_parent_if_match, has_control_connection and
\* role_path: what the method refuses to go on without.
Missing(endpoint, options) == endpoint.requires \ options

Method(i, endpoint, options, owned, etag) ==
    IF Missing(endpoint, options) # {}
      THEN /\ Set(i, [at |-> "done", endpoint |-> endpoint, owned |-> owned,
                      options |-> options, outcome |-> "MissingPrecondition",
                      calls |-> call[i].calls + 1])
           /\ UNCHANGED keys
      ELSE /\ Set(i, [at |-> "auth", endpoint |-> endpoint, owned |-> owned,
                      options |-> options, etag |-> etag, retried |-> FALSE, sent |-> 0,
                      key |-> EnsureIdempotency(endpoint, owned),
                      outcome |-> "none", calls |-> call[i].calls + 1])
           /\ keys' = IF EnsureIdempotency(endpoint, owned) = keys THEN keys + 1 ELSE keys

\* The host calls an endpoint, with the version it read last.
Call(i) ==
    /\ Usable /\ call[i].calls = 0
    /\ \E endpoint \in Endpoints, owned \in BOOLEAN :
         /\ owned => endpoint.keyed
         /\ \E options \in {endpoint.requires, {}} :
              Method(i, endpoint, options, owned, version)
    /\ UNCHANGED <<card, active, serverVars>>

\* The host repeats a call whose outcome it does not know, which it may do
\* with a key of its own.
CallAgain(i) ==
    /\ call[i].at = "done" /\ call[i].outcome = "Transport"
    /\ call[i].owned /\ call[i].calls < MaxCalls
    /\ Method(i, call[i].endpoint, call[i].options, TRUE, call[i].etag)
    /\ UNCHANGED <<card, active, serverVars>>

\* load_credentials, for the bearer header or for the body of a logout, which
\* has nothing to do without a pair.
Authorize(i) ==
    /\ call[i].at \in {"auth", "reauth"}
    /\ CASE call[i].endpoint.auth /\ active = 0 -> Returns(i, "AuthenticationRequired")
         [] call[i].endpoint.then = "clear_tokens" /\ active = 0 -> Returns(i, "ok")
         [] OTHER -> Set(i, [at |-> "send", token |-> IF call[i].endpoint.auth
                                                        THEN active ELSE 0])
    /\ UNCHANGED <<card, active, keys, serverVars>>

\* ReqwestTransport::send: the origin check, then the request is on its way.
Send(i) ==
    /\ call[i].at = "send" /\ sends < MaxSends
    /\ IF TransportAccepts(ControlBaseUrl(card), card)
         THEN /\ sends' = sends + 1
              /\ net' = net \cup {[id |-> sends + 1, intent |-> i, key |-> call[i].key,
                                   token |-> call[i].token, etag |-> call[i].etag,
                                   options |-> call[i].options,
                                   endpoint |-> call[i].endpoint]}
              /\ Set(i, [at |-> "sent", sent |-> sends + 1])
         ELSE Returns(i, "InvalidUrl") /\ UNCHANGED <<sends, net>>
    /\ UNCHANGED <<card, active, keys, issued, accepted, version, answered,
                   applied, stale>>

\* The transport reports a failure or its deadline passes; the request may be
\* under way, served, or gone.
TransportFails(i) ==
    /\ call[i].at = "sent" /\ Returns(i, "Transport")
    /\ UNCHANGED <<card, active, keys, serverVars>>

\* refresh_access: a new pair, the pair a login or another flight installed
\* meanwhile, or failure, which may have cleared the credentials.
RefreshAccess(i) ==
    /\ call[i].at = "refresh"
    /\ \/ /\ issued < MaxTokens
          /\ issued' = issued + 1 /\ active' = issued + 1
          /\ accepted' = accepted \cup {issued + 1}
          /\ Set(i, [at |-> "reauth"])
       \/ /\ Set(i, [at |-> "reauth"]) /\ UNCHANGED <<issued, active, accepted>>
       \/ /\ active' \in {0, active} /\ Returns(i, "AuthExpired")
          /\ UNCHANGED <<issued, accepted>>
    /\ UNCHANGED <<card, keys, net, sends, version, answered, applied, stale>>

\* set_tokens of a login and clear_tokens of a logout, whichever pair is active
\* by then; a pair that is not one, or a store that fails, leaves the active pair.
StoreTokens(i) ==
    /\ call[i].at = "store"
    /\ \/ /\ call[i].endpoint.then = "set_tokens" /\ issued < MaxTokens
          /\ issued' = issued + 1 /\ active' = issued + 1
          /\ accepted' = accepted \cup {issued + 1}
          /\ Returns(i, "ok")
       \/ /\ call[i].endpoint.then = "clear_tokens"
          /\ active' = 0 /\ Returns(i, "ok") /\ UNCHANGED <<issued, accepted>>
       \/ Returns(i, "Credential") /\ UNCHANGED <<active, issued, accepted>>
    /\ UNCHANGED <<card, keys, net, sends, version, answered, applied, stale>>

------------------------------------------------------------------------------
(***************************************************************************)
(* Answers.  A response is its status, what its body is, and whether the   *)
(* state headers parse.                                                    *)
(***************************************************************************)

Response(status, body, headers) == [status |-> status, body |-> body, headers |-> headers]
IsSuccess(status) == status \in 200..299

\* Mutant: a code in the envelope of a 200 is not looked at.
DecodeJson_StatusOnly(r) ==
    CASE r.status = 204 -> "UnexpectedNoContent"
      [] r.status # 204 /\ ~r.headers -> "InvalidHeader"
      [] r.status # 204 /\ r.headers /\ r.body \notin {"data", "code", "envelope"} -> "Json"
      [] OTHER -> IF IsSuccess(r.status) THEN "ok" ELSE "Api"

\* decode_json with map_envelope_error and ApiEnvelope::into_typed: a body
\* holds "data", an error "code", a success "envelope" whose message or data
\* is not as it should be, or is not an envelope.
DecodeJson(r) ==
    CASE r.status = 204 -> "UnexpectedNoContent"
      [] r.status # 204 /\ ~r.headers -> "InvalidHeader"
      [] r.status # 204 /\ r.headers /\ r.body \notin {"data", "code", "envelope"} -> "Json"
      [] OTHER -> CASE r.body # "code" /\ ~IsSuccess(r.status) -> "HttpStatus"
                    [] r.body = "data" /\ IsSuccess(r.status) -> "ok"
                    [] r.body = "envelope" /\ IsSuccess(r.status) -> "Envelope"
                    [] r.body = "code" /\ r.status = 412 -> "PreconditionFailed"
                    [] OTHER -> "Api"

\* decode_no_content
DecodeNoContent(r) ==
    CASE r.status = 204 /\ r.body # "empty" -> "UnexpectedContent"
      [] r.status = 204 /\ r.body = "empty" -> IF r.headers THEN "ok" ELSE "InvalidHeader"
      [] r.status # 204 /\ IsSuccess(r.status) -> "ExpectedNoContent"
      [] OTHER -> DecodeJson(r)

Decode(endpoint, r) ==
    IF endpoint.answer = "json" THEN DecodeJson(r) ELSE DecodeNoContent(r)

\* The rest of send_request on a response: a 401 to an authorized request is
\* retried once, after a refresh if the refused token is still the active one.
\* A login or a logout that succeeded goes on to the credentials.
Receive(i, r) ==
    LET c == call[i]
    IN  CASE r.status = 401 /\ c.endpoint.auth /\ ~c.retried ->
               Set(i, [at |-> IF active = c.token THEN "refresh" ELSE "reauth",
                       retried |-> TRUE])
          [] Decode(c.endpoint, r) = "ok" /\ c.endpoint.then # "return" ->
               Set(i, [at |-> "store"])
          [] OTHER -> Returns(i, Decode(c.endpoint, r))

\* What the server answers to a request it applied, and to one it refused.
Success(endpoint) ==
    IF endpoint.answer = "json" THEN {Response(200, "data", TRUE), Response(200, "data", FALSE),
                                      Response(200, "envelope", TRUE)}
                                ELSE {Response(204, "empty", TRUE), Response(200, "data", TRUE)}
Refusals == {Response(200, "code", TRUE), Response(400, "code", TRUE),
             Response(500, "data", TRUE), Response(502, "html", TRUE)}

\* The server serves a request (external).
Serve ==
    \E q \in net :
        /\ net' = net \ {q}
        /\ LET first == q.key = NoKey \/ <<q.intent, q.key>> \notin answered
               current == "if_match" \in q.options => q.etag = version
               Answer(r) == IF call[q.intent].at = "sent" /\ call[q.intent].sent = q.id
                              THEN Receive(q.intent, r) ELSE UNCHANGED call
               Refuse(r) == Answer(r) /\ UNCHANGED <<version, answered, applied, stale>>
           IN  \/ /\ q.endpoint.auth /\ q.token \notin accepted
                  /\ Refuse(Response(401, "code", TRUE))
               \/ /\ q.endpoint.auth => q.token \in accepted
                  /\ first /\ current
                  /\ applied' = [applied EXCEPT ![q.intent] = @ + 1]
                  /\ version' = IF q.endpoint.writes THEN version + 1 ELSE version
                  /\ answered' = IF q.key = NoKey THEN answered
                                 ELSE answered \cup {<<q.intent, q.key>>}
                  /\ stale' = IF "if_match" \in q.endpoint.requires /\ q.etag # version
                                THEN stale \cup {q.intent} ELSE stale
                  /\ \E r \in Success(q.endpoint) : Answer(r)
               \/ /\ q.endpoint.auth => q.token \in accepted
                  /\ ~first /\ \E r \in Success(q.endpoint) : Refuse(r)
               \/ /\ q.endpoint.auth => q.token \in accepted
                  /\ first /\ ~current /\ Refuse(Response(412, "code", TRUE))
               \/ /\ q.endpoint.auth => q.token \in accepted
                  /\ first /\ \E r \in Refusals : Refuse(r)
        /\ UNCHANGED <<card, active, keys, issued, accepted, sends>>

\* An access token expires; a login or a refresh of another task installs a
\* new pair; a logout or a refused refresh of another task clears it.
TokenExpires ==
    /\ Usable /\ \E t \in accepted : accepted' = accepted \ {t}
    /\ UNCHANGED <<clientVars, issued, net, sends, version, answered, applied, stale>>

NewPair ==
    /\ Usable /\ issued < MaxTokens
    /\ issued' = issued + 1 /\ active' = issued + 1 /\ accepted' = accepted \cup {issued + 1}
    /\ UNCHANGED <<card, call, keys, net, sends, version, answered, applied, stale>>

PairCleared ==
    /\ Usable /\ active # 0 /\ active' = 0
    /\ UNCHANGED <<card, call, keys, serverVars>>

\* Another client writes the resource.
OtherWrites ==
    /\ Usable /\ version < MaxVersions /\ version' = version + 1
    /\ UNCHANGED <<clientVars, issued, accepted, net, sends, answered, applied, stale>>

Step(i) == \/ Authorize(i) \/ Send(i) \/ TransportFails(i) \/ RefreshAccess(i)
           \/ StoreTokens(i)

Next == \/ \E i \in Intents : Call(i) \/ CallAgain(i) \/ Step(i)
        \/ Serve \/ TokenExpires \/ NewPair \/ PairCleared \/ OtherWrites

Spec == Init /\ [][Next]_vars

------------------------------------------------------------------------------
(***************************************************************************)
(* Properties.                                                             *)
(***************************************************************************)

\* A request is authorized exactly when its endpoint is, and a call sends at
\* most two.
TypeOK ==
    /\ active \in 0..issued /\ accepted \subseteq 1..issued
    /\ \A q \in net : q.endpoint.auth <=> q.token # 0
    /\ sends <= 2 * MaxCalls * Cardinality(Intents)
    /\ \A i \in Intents : call[i].at \in {"idle", "auth", "send", "sent", "refresh",
                                          "reauth", "store", "done"}

\* request.rs:277: a mutation with a key is applied at most once, over the 401
\* retry, lost answers, requests served late, and the host's own repetition.
AtMostOnce == \A i \in Intents : call[i].endpoint.keyed => applied[i] <= 1

\* request.rs:261: a preconditioned mutation is only ever applied to the
\* version its caller had read.
NoLostUpdate == stale = {}

\* response.rs:52, auth.rs:221: a call that returns ok was applied, whatever
\* answer was lost or repeated before, save for a logout that found no
\* credentials and sent nothing; so was one that failed only to store or clear
\* the credentials afterwards.  One refused before it was sent, or by its
\* precondition, never was.
HonestOutcome ==
    \A i \in Intents :
        /\ call[i].outcome = "ok" =>
             \/ applied[i] >= 1
             \/ call[i].endpoint.then = "clear_tokens" /\ call[i].sent = 0
        /\ call[i].outcome = "Credential" => applied[i] >= 1
        /\ call[i].outcome \in {"MissingPrecondition", "InvalidUrl", "PreconditionFailed"}
             => applied[i] = 0

\* server_card.rs:156, 288: a card renders to a text that parses to the same
\* card, so that a pin survives being stored and shared; a TLS card is pinned
\* and never used over a plain transport.
CardKeepsPin ==
    Usable => /\ Parse(Render(card)) = "ok" /\ CardOf(Render(card)) = card
              /\ card.tls => /\ card.fp # Absent
                             /\ ControlBaseUrl(card).scheme = "https"
                             /\ WebsocketUrl(card).scheme = "wss"

\* server_card.rs:262, client.rs:279, connection.rs:309: the origin checks of
\* the HTTP and the WebSocket transport accept the URLs that the clients of
\* the same card build, which are written in other crates, unless its host is
\* an IPv6 address: the checks compare the bracketed host of the URL with the
\* bare host of the card, so that no request to such a server is sent.
OwnUrlsAccepted ==
    Usable =>
        /\ TransportAccepts(ControlBaseUrl(card), card) <=> card.host # "v6"
        /\ UrlMatchesCard(WebsocketUrl(card), card) <=> card.host # "v6"

==============================================================================
