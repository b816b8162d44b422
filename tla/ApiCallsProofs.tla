---------------------------- MODULE ApiCallsProofs ----------------------------
(***************************************************************************)
(* ApiCalls keeps its promises for any number of intents, calls, tokens,   *)
(* requests and writes of others, and for whatever card text a host is     *)
(* given.                                                                  *)
(***************************************************************************)
EXTENDS ApiCalls, TLAPS

------------------------------------------------------------------------------
(***************************************************************************)
(* The inductive invariant.                                                *)
(***************************************************************************)

\* The card lets requests through, and a call has all its method requires.
Accepts == TransportAccepts(ControlBaseUrl(card), card)
Ready(c) == Missing(c.endpoint, c.options) = {}

\* A call by itself: a keyed endpoint gets a key, the caller's if it has one,
\* and nothing goes on without what the method requires.
Wellformed(c) ==
    /\ c.endpoint \in Endpoints /\ c.owned \in BOOLEAN /\ c.calls \in Nat
    /\ c.etag \in Nat /\ c.options \subseteq c.endpoint.requires
    /\ c.owned => c.endpoint.keyed
    /\ Ready(c) => /\ c.key = NoKey <=> ~c.endpoint.keyed
                   /\ c.owned => c.key = OwnKey
    /\ c.at \in {"auth", "reauth", "send", "sent", "refresh", "store"} =>
         Ready(c) /\ c.calls # 0 /\ c.outcome = "none"
    /\ c.at = "auth" => c.sent = 0
    /\ c.at \in {"reauth", "refresh"} => c.endpoint.auth
    /\ c.calls = 0 => c.outcome = "none"

Typed ==
    /\ DOMAIN call = Intents /\ \A i \in Intents : Wellformed(call[i])
    /\ keys \in Nat \ {0} /\ version \in Nat /\ applied \in [Intents -> Nat]

\* A request says what the call of its intent says, also when it is late.
Requests ==
    \A q \in net :
        /\ q.intent \in Intents /\ Accepts
        /\ LET c == call[q.intent]
           IN  /\ q.key = c.key /\ q.etag = c.etag /\ q.options = c.options
               /\ q.endpoint = c.endpoint /\ Ready(c) /\ c.calls # 0

\* What the server remembers of an intent.
Memory ==
    /\ \A p \in answered : p[1] \in Intents /\ applied[p[1]] # 0
    /\ \A i \in Intents :
         applied[i] # 0 => /\ Ready(call[i]) /\ call[i].calls # 0 /\ Accepts
                           /\ call[i].endpoint.keyed =>
                                applied[i] = 1 /\ <<i, call[i].key>> \in answered

\* What the outcome of a call means when its intent was applied n times, the
\* resource has version v, and the card lets requests through or not.
Meaning(c, n, v, accepts) ==
    /\ c.etag <= v
    /\ c.outcome = "ok" => n # 0 \/ (c.endpoint.then = "clear_tokens" /\ c.sent = 0)
    /\ c.outcome = "Credential" \/ c.at = "store" => n # 0
    /\ c.outcome = "MissingPrecondition" => ~Ready(c)
    /\ c.outcome = "InvalidUrl" => ~accepts
    /\ c.outcome = "PreconditionFailed" =>
         "if_match" \in c.options /\ c.etag < v /\ n = 0

Outcomes == \A i \in Intents : Meaning(call[i], applied[i], version, Accepts)

\* A usable card was parsed from some text.
Parsed == Usable => \E t \in CardTexts : Parse(t) = "ok" /\ card = CardOf(t)

IndInv == Typed /\ Requests /\ Memory /\ Outcomes /\ NoLostUpdate /\ Parsed

------------------------------------------------------------------------------
(***************************************************************************)
(* Server cards.                                                           *)
(***************************************************************************)

\* The value of a key that occurs once, and of one that does not occur.
LEMMA ValueOf ==
    ASSUME NEW text, NEW key
    PROVE  /\ \A v : Values(text, key) = {<<key, v>>} => Value(text, key) = v
           /\ Values(text, key) = {} => Value(text, key) = Absent
<1>1. ASSUME NEW v, Values(text, key) = {<<key, v>>}
      PROVE  Value(text, key) = v
  <2>1. (CHOOSE p \in {<<key, v>>} : TRUE) = <<key, v>>
    OBVIOUS
  <2>2. Value(text, key) = (CHOOSE p \in {<<key, v>>} : TRUE)[2]
    BY <1>1 DEF Value
  <2>3. QED
    BY <2>1, <2>2
<1>2. QED
  BY <1>1 DEF Value

\* A pair at the end of a query.
LEMMA Extended ==
    ASSUME NEW S, NEW s \in Seq(S), NEW x \in S
    PROVE  /\ s \o <<x>> \in Seq(S) /\ DOMAIN (s \o <<x>>) = 1..(Len(s) + 1)
           /\ Len(s \o <<x>>) = Len(s) + 1 /\ (s \o <<x>>)[Len(s) + 1] = x
           /\ \A i \in 1..Len(s) : (s \o <<x>>)[i] = s[i]
<1>1. <<x>> \in Seq(S) /\ Len(<<x>>) = 1 /\ <<x>>[1] = x
  OBVIOUS
<1>2. QED
  BY <1>1

\* The query render writes, for a card with and without pin and invite.
LEMMA RenderedQuery ==
    ASSUME NEW c
    PROVE  LET q == Render(c).query
               v == <<"v", "1">>
               f == <<"fp", c.fp>>
               n == <<"invite", c.invite>>
           IN  /\ c.fp = Absent /\ c.invite = Absent =>
                    DOMAIN q = 1..1 /\ q[1] = v
               /\ c.fp # Absent /\ c.invite = Absent =>
                    DOMAIN q = 1..2 /\ q[1] = v /\ q[2] = f
               /\ c.fp = Absent /\ c.invite # Absent =>
                    DOMAIN q = 1..2 /\ q[1] = v /\ q[2] = n
               /\ c.fp # Absent /\ c.invite # Absent =>
                    DOMAIN q = 1..3 /\ q[1] = v /\ q[2] = f /\ q[3] = n
<1> DEFINE v == <<"v", "1">>
           f == <<"fp", c.fp>>
           n == <<"invite", c.invite>>
           S == {v, f, n}
           q == Render(c).query
           pinned == IF c.fp = Absent THEN <<>> ELSE <<f>>
           invited == IF c.invite = Absent THEN <<>> ELSE <<n>>
<1>1. q = (<<v>> \o pinned) \o invited
  BY DEF Render
<1> HIDE DEF v, f, n, S, q
<1>2. v \in S /\ f \in S /\ n \in S
  BY DEF S
<1>3. <<v>> \in Seq(S) /\ Len(<<v>>) = 1 /\ <<v>>[1] = v /\ DOMAIN <<v>> = 1..1
  BY <1>2
<1>4. \A s \in Seq(S) : s \o <<>> = s
  OBVIOUS
<1>5. CASE c.fp = Absent
  <2>1. q = <<v>> \o invited
    BY <1>1, <1>3, <1>4, <1>5
  <2>2. CASE c.invite = Absent
    BY <1>3, <1>4, <1>5, <2>1, <2>2 DEF v, q
  <2>3. CASE c.invite # Absent
    <3>1. q = <<v>> \o <<n>>
      BY <2>1, <2>3
    <3>2. DOMAIN q = 1..2 /\ q[1] = v /\ q[2] = n
      BY <1>2, <1>3, <3>1, Extended
    <3>3. QED
      BY <1>5, <2>3, <3>2 DEF v, n, q
  <2>4. QED
    BY <2>2, <2>3
<1>6. CASE c.fp # Absent
  <2> DEFINE s == <<v>> \o <<f>>
  <2>1. /\ s \in Seq(S) /\ DOMAIN s = 1..2 /\ Len(s) = 2 /\ s[1] = v /\ s[2] = f
    BY <1>2, <1>3, Extended
  <2>2. q = s \o invited
    BY <1>1, <1>6
  <2> HIDE DEF s
  <2>3. CASE c.invite = Absent
    BY <1>4, <1>6, <2>1, <2>2, <2>3 DEF v, f, q
  <2>4. CASE c.invite # Absent
    <3>1. q = s \o <<n>>
      BY <2>2, <2>4
    <3>2. DOMAIN q = 1..(Len(s) + 1) /\ q[Len(s) + 1] = n /\ \A i \in 1..Len(s) : q[i] = s[i]
      <4>1. s \in Seq(S) /\ n \in S
        BY <1>2, <2>1
      <4>2. QED
        BY ONLY <4>1, <3>1, Extended
    <3>3. DOMAIN q = 1..3 /\ q[1] = v /\ q[2] = f /\ q[3] = n
      BY <2>1, <3>2
    <3>4. QED
      BY <1>6, <2>4, <3>3 DEF v, f, n, q
  <2>5. QED
    BY <2>3, <2>4
<1>7. QED
  BY <1>5, <1>6

\* What is read back from the query of a rendered card.
LEMMA RenderedValues ==
    ASSUME NEW c
    PROVE  LET r == Render(c)
           IN  /\ Value(r, "v") = "1" /\ Value(r, "fp") = c.fp
               /\ Value(r, "invite") = c.invite
               /\ \A i \in DOMAIN r.query : r.query[i][1] \in {"v", "fp", "invite"}
               /\ \A i, j \in DOMAIN r.query :
                    i < j => r.query[i][1] # r.query[j][1]
<1> DEFINE r == Render(c)
           v == <<"v", "1">>
           f == <<"fp", c.fp>>
           n == <<"invite", c.invite>>
<1> HIDE DEF r
<1>1. SUFFICES /\ Value(r, "v") = "1" /\ Value(r, "fp") = c.fp
               /\ Value(r, "invite") = c.invite
               /\ \A i \in DOMAIN r.query : r.query[i][1] \in {"v", "fp", "invite"}
               /\ \A i, j \in DOMAIN r.query : i < j => r.query[i][1] # r.query[j][1]
  BY DEF r
<1>2. v[1] = "v" /\ f[1] = "fp" /\ n[1] = "invite"
  OBVIOUS
<1>3. CASE c.fp = Absent /\ c.invite = Absent
  <2>1. DOMAIN r.query = 1..1 /\ r.query[1] = v
    BY <1>3, RenderedQuery DEF r
  <2>2. DOMAIN r.query = {1}
    BY <2>1
  <2>3. {r.query[i] : i \in DOMAIN r.query} = {v}
    BY <2>1, <2>2
  <2> HIDE DEF v, f, n
  <2>4. /\ Values(r, "v") = {v} /\ Values(r, "fp") = {} /\ Values(r, "invite") = {}
    BY <1>2, <2>3 DEF Values
  <2>5. Value(r, "v") = "1" /\ Value(r, "fp") = c.fp /\ Value(r, "invite") = c.invite
    <3>1. Value(r, "v") = "1"
      BY <2>4, ValueOf DEF v
    <3>2. Value(r, "fp") = c.fp
      BY <1>3, <2>4, ValueOf DEF f
    <3>3. Value(r, "invite") = c.invite
      BY <1>3, <2>4, ValueOf DEF n
    <3>4. QED
      BY <3>1, <3>2, <3>3
  <2>6. QED
    BY <1>2, <2>1, <2>2, <2>5
<1>4. CASE c.fp # Absent /\ c.invite = Absent
  <2>1. DOMAIN r.query = 1..2 /\ r.query[1] = v /\ r.query[2] = f
    BY <1>4, RenderedQuery DEF r
  <2>2. DOMAIN r.query = {1, 2}
    BY <2>1
  <2>3. {r.query[i] : i \in DOMAIN r.query} = {v, f}
    BY <2>1, <2>2
  <2> HIDE DEF v, f, n
  <2>4. /\ Values(r, "v") = {v} /\ Values(r, "fp") = {f} /\ Values(r, "invite") = {}
    BY <1>2, <2>3 DEF Values
  <2>5. Value(r, "v") = "1" /\ Value(r, "fp") = c.fp /\ Value(r, "invite") = c.invite
    <3>1. Value(r, "v") = "1"
      BY <2>4, ValueOf DEF v
    <3>2. Value(r, "fp") = c.fp
      BY <1>4, <2>4, ValueOf DEF f
    <3>3. Value(r, "invite") = c.invite
      BY <1>4, <2>4, ValueOf DEF n
    <3>4. QED
      BY <3>1, <3>2, <3>3
  <2>6. QED
    BY <1>2, <2>1, <2>2, <2>5
<1>5. CASE c.fp = Absent /\ c.invite # Absent
  <2>1. DOMAIN r.query = 1..2 /\ r.query[1] = v /\ r.query[2] = n
    BY <1>5, RenderedQuery DEF r
  <2>2. DOMAIN r.query = {1, 2}
    BY <2>1
  <2>3. {r.query[i] : i \in DOMAIN r.query} = {v, n}
    BY <2>1, <2>2
  <2> HIDE DEF v, f, n
  <2>4. /\ Values(r, "v") = {v} /\ Values(r, "fp") = {} /\ Values(r, "invite") = {n}
    BY <1>2, <2>3 DEF Values
  <2>5. Value(r, "v") = "1" /\ Value(r, "fp") = c.fp /\ Value(r, "invite") = c.invite
    <3>1. Value(r, "v") = "1"
      BY <2>4, ValueOf DEF v
    <3>2. Value(r, "fp") = c.fp
      BY <1>5, <2>4, ValueOf DEF f
    <3>3. Value(r, "invite") = c.invite
      BY <1>5, <2>4, ValueOf DEF n
    <3>4. QED
      BY <3>1, <3>2, <3>3
  <2>6. QED
    BY <1>2, <2>1, <2>2, <2>5
<1>6. CASE c.fp # Absent /\ c.invite # Absent
  <2>1. DOMAIN r.query = 1..3 /\ r.query[1] = v /\ r.query[2] = f /\ r.query[3] = n
    BY <1>6, RenderedQuery DEF r
  <2>2. DOMAIN r.query = {1, 2, 3}
    BY <2>1
  <2>3. {r.query[i] : i \in DOMAIN r.query} = {v, f, n}
    BY <2>1, <2>2
  <2> HIDE DEF v, f, n
  <2>4. /\ Values(r, "v") = {v} /\ Values(r, "fp") = {f} /\ Values(r, "invite") = {n}
    BY <1>2, <2>3 DEF Values
  <2>5. Value(r, "v") = "1" /\ Value(r, "fp") = c.fp /\ Value(r, "invite") = c.invite
    <3>1. Value(r, "v") = "1"
      BY <2>4, ValueOf DEF v
    <3>2. Value(r, "fp") = c.fp
      BY <1>6, <2>4, ValueOf DEF f
    <3>3. Value(r, "invite") = c.invite
      BY <1>6, <2>4, ValueOf DEF n
    <3>4. QED
      BY <3>1, <3>2, <3>3
  <2>6. QED
    BY <1>2, <2>1, <2>2, <2>5
<1>7. QED
  BY <1>3, <1>4, <1>5, <1>6

\* What parse accepted.
LEMMA ParsedCard ==
    ASSUME NEW t, Parse(t) = "ok"
    PROVE  LET c == CardOf(t)
           IN  /\ CardError(c) = "ok"
               /\ c.host \in Names /\ c.tls \in BOOLEAN
               /\ c.tls <=> c.fp # Absent
               /\ c.fp # "bad" /\ c.port # Absent /\ c.invite # ""
<1> DEFINE c == CardOf(t)
<1>1. TextError(t) = "ok" /\ CardError(c) = "ok"
  BY DEF Parse
<1>2. /\ c.tls = (t.scheme = "zephyrvoxs") /\ c.port = t.port /\ c.fp = Value(t, "fp")
      /\ c.invite = IF Value(t, "invite") = "" THEN Absent ELSE Value(t, "invite")
  BY DEF CardOf
<1>3. t.port # Absent /\ QueryError(t) = "ok"
  BY <1>1 DEF TextError
<1>4. c.fp # "bad"
  BY <1>2, <1>3 DEF QueryError
<1>5. c.invite # ""
  BY <1>2 DEF Absent
<1> HIDE DEF c
<1>6. c.host \in Names /\ (c.tls <=> c.fp # Absent)
  BY <1>1, <1>2 DEF CardError
<1>7. QED
  BY <1>1, <1>2, <1>3, <1>4, <1>5, <1>6 DEF c

\* ServerCard::render and ServerCard::parse are inverse on cards.
LEMMA RoundTrip ==
    ASSUME NEW t, Parse(t) = "ok"
    PROVE  LET c == CardOf(t)
           IN  Parse(Render(c)) = "ok" /\ CardOf(Render(c)) = c
<1> DEFINE c == CardOf(t)
           r == Render(c)
<1>1. /\ CardError(c) = "ok" /\ c.host \in Names /\ c.tls \in BOOLEAN
      /\ c.fp # "bad" /\ c.port # Absent /\ c.invite # ""
  BY ParsedCard
<1>2. c = [tls |-> c.tls, host |-> c.host, port |-> c.port, fp |-> c.fp,
           invite |-> c.invite]
  BY DEF CardOf
<1> HIDE DEF c
<1>3. /\ r.scheme = IF c.tls THEN "zephyrvoxs" ELSE "zephyrvox"
      /\ r.extra = FALSE /\ r.host = HostStr(c.host) /\ r.port = c.port
  BY DEF Render
<1>4. /\ Value(r, "v") = "1" /\ Value(r, "fp") = c.fp /\ Value(r, "invite") = c.invite
      /\ \A i \in DOMAIN r.query : r.query[i][1] \in {"v", "fp", "invite"}
      /\ \A i, j \in DOMAIN r.query : i < j => r.query[i][1] # r.query[j][1]
  BY RenderedValues
<1> HIDE DEF r
<1>5. QueryError(r) = "ok"
  BY <1>1, <1>4 DEF QueryError, Absent
<1>6. TextError(r) = "ok"
  BY <1>1, <1>3, <1>5 DEF TextError
<1>7. NormalizeHost(r.host) = c.host
  BY <1>1, <1>3 DEF NormalizeHost, HostStr, Names
<1>8. (r.scheme = "zephyrvoxs") = c.tls
  BY <1>1, <1>3
<1>9. (IF Value(r, "invite") = "" THEN Absent ELSE Value(r, "invite")) = c.invite
  BY <1>1, <1>4
<1>10. CardOf(r) = c
  BY <1>2, <1>3, <1>4, <1>7, <1>8, <1>9 DEF CardOf
<1>11. QED
  BY <1>1, <1>6, <1>10 DEF Parse, c, r

\* The origin checks against the URLs of the same card.
LEMMA OwnUrls ==
    ASSUME NEW c, c.host \in Names, c.port # Absent
    PROVE  /\ TransportAccepts(ControlBaseUrl(c), c) <=> c.host # "v6"
           /\ UrlMatchesCard(WebsocketUrl(c), c) <=> c.host # "v6"
<1>1. ASSUME NEW scheme
      PROVE  LET url == UrlOf(scheme, c.host, c.port)
             IN  /\ url.scheme = scheme /\ url.host = c.host
                 /\ PortOrKnownDefault(url) = c.port
  BY DEF UrlOf, PortOrKnownDefault
<1>2. HostStr(c.host) = c.host <=> c.host # "v6"
  BY DEF HostStr, Names
<1>3. QED
  BY <1>1, <1>2 DEF TransportAccepts, UrlMatchesCard, ControlBaseUrl, WebsocketUrl

------------------------------------------------------------------------------
(***************************************************************************)
(* Endpoints and calls.                                                    *)
(***************************************************************************)

\* An endpoint without an idempotency key has no precondition, and the logout
\* is sent without a token.
Plain(e) == /\ e.keyed \in BOOLEAN /\ (~e.keyed => e.requires = {})
            /\ e.then = "clear_tokens" => ~e.auth

\* The shapes an endpoint can have.
LEMMA Shapes ==
    /\ Plain(Read)
    /\ \A answer, requires : Plain(Write(answer, requires))
    /\ \A answer, requires : Plain(Anonymous(Write(answer, requires)))
    /\ Plain(Anonymous(Read))
    /\ Plain(Then(Anonymous([Write("json", {}) EXCEPT !.keyed = FALSE]), "set_tokens"))
    /\ Plain(Then(Anonymous(Write("none", {})), "clear_tokens"))
BY DEF Plain, Read, Write, Anonymous, Then

\* Every endpoint of every resource API is of that kind.
LEMMA EndpointsPlain == \A e \in Endpoints : Plain(e)
<1> USE Shapes DEF RangeOf
<1>1. \A e \in RangeOf(RbacApi) : Plain(e)
  BY DEF RbacApi
<1>2. \A e \in RangeOf(UserApi) : Plain(e)
  BY DEF UserApi
<1>3. \A e \in RangeOf(AdminApi) : Plain(e)
  BY DEF AdminApi
<1>4. \A e \in RangeOf(GroupApi) : Plain(e)
  BY DEF GroupApi
<1>5. \A e \in RangeOf(ChannelApi) : Plain(e)
  BY DEF ChannelApi
<1>6. \A e \in RangeOf(VoiceApi) : Plain(e)
  BY DEF VoiceApi
<1>7. \A e \in RangeOf(ModerationApi) : Plain(e)
  BY DEF ModerationApi
<1>8. \A e \in RangeOf(AuthApi) : Plain(e)
  <2> DEFINE login == Then(Anonymous([Write("json", {}) EXCEPT !.keyed = FALSE]),
                           "set_tokens")
             logout == Then(Anonymous(Write("none", {})), "clear_tokens")
             write == Anonymous(Write("json", {}))
  <2>1. AuthApi = [status |-> Anonymous(Read), login |-> login, register |-> write,
                   activate |-> write, logout |-> logout,
                   me |-> Read, list_users |-> Read]
    BY DEF AuthApi
  <2>2. Plain(login) /\ Plain(write) /\ Plain(logout)
    OBVIOUS
  <2> HIDE DEF login, write, logout
  <2>3. QED
    BY <2>1, <2>2
<1>9. \A e \in RangeOf(DiscoveryApi) : Plain(e)
  BY DEF DiscoveryApi
<1> HIDE DEF RangeOf
<1>10. QED
  BY <1>1, <1>2, <1>3, <1>4, <1>5, <1>6, <1>7, <1>8, <1>9 DEF Endpoints

\* The endpoint of an idle call is one of them.
LEMMA ReadIsEndpoint == Read \in Endpoints
<1>1. Read \in RangeOf(DiscoveryApi)
  BY DEF RangeOf, DiscoveryApi
<1>2. QED
  BY <1>1 DEF Endpoints

Fields == {"at", "endpoint", "options", "owned", "etag", "key", "token", "retried",
           "sent", "outcome", "calls"}

\* What Set does to the calls.
LEMMA SetCall ==
    ASSUME Typed, NEW i \in Intents, NEW changes, Set(i, changes)
    PROVE  /\ DOMAIN call' = Intents
           /\ \A j \in Intents : j # i => call'[j] = call[j]
           /\ \A f \in Fields : call'[i][f] = IF f \in DOMAIN changes THEN changes[f]
                                                                   ELSE call[i][f]
<1>1. DOMAIN Idle = Fields
  BY DEF Idle, Fields
<1>2. DOMAIN call = Intents
  BY DEF Typed
<1>3. call' = [call EXCEPT ![i] = [f \in Fields |->
                 IF f \in DOMAIN changes THEN changes[f] ELSE call[i][f]]]
  BY <1>1 DEF Set
<1>4. QED
  BY <1>2, <1>3

\* The parts of a call that a method fixes and that nothing changes before the
\* next method.
Same(c, d) ==
    /\ d.endpoint = c.endpoint /\ d.options = c.options /\ d.owned = c.owned
    /\ d.etag = c.etag /\ d.key = c.key /\ d.calls = c.calls

\* A call in progress goes on, or returns.
LEMMA Proceeds ==
    ASSUME Typed, NEW i \in Intents, NEW changes, Set(i, changes),
           DOMAIN changes \subseteq {"at", "token", "retried", "sent", "outcome"},
           "at" \in DOMAIN changes, changes["at"] # "auth",
           changes["at"] \in {"reauth", "refresh"} => call[i].endpoint.auth,
           "outcome" \in DOMAIN changes => changes["at"] = "done",
           Ready(call[i]), call[i].calls # 0, call[i].outcome = "none"
    PROVE  /\ DOMAIN call' = Intents
           /\ \A j \in Intents : Wellformed(call'[j]) /\ Same(call[j], call'[j])
           /\ \A j \in Intents : j # i => call'[j] = call[j]
           /\ call'[i].at = changes["at"]
           /\ "outcome" \notin DOMAIN changes => call'[i].outcome = "none"
           /\ "outcome" \in DOMAIN changes => call'[i].outcome = changes["outcome"]
           /\ "sent" \notin DOMAIN changes => call'[i].sent = call[i].sent
<1>1. /\ DOMAIN call' = Intents
      /\ \A j \in Intents : j # i => call'[j] = call[j]
      /\ \A f \in Fields : call'[i][f] = IF f \in DOMAIN changes THEN changes[f]
                                                              ELSE call[i][f]
  BY SetCall
<1>2. Same(call[i], call'[i])
  <2>1. call'[i].endpoint = call[i].endpoint /\ call'[i].options = call[i].options
    BY <1>1 DEF Fields
  <2>2. call'[i].owned = call[i].owned /\ call'[i].etag = call[i].etag
    BY <1>1 DEF Fields
  <2>3. call'[i].key = call[i].key /\ call'[i].calls = call[i].calls
    BY <1>1 DEF Fields
  <2>4. QED
    BY <2>1, <2>2, <2>3 DEF Same
<1>3. /\ call'[i].at = changes["at"]
      /\ "outcome" \notin DOMAIN changes => call'[i].outcome = "none"
      /\ "outcome" \in DOMAIN changes => call'[i].outcome = changes["outcome"]
      /\ "sent" \notin DOMAIN changes => call'[i].sent = call[i].sent
  BY <1>1 DEF Fields
<1>4. Wellformed(call'[i])
  <2>1. Wellformed(call[i])
    BY DEF Typed
  <2>2. call'[i].at = "done" \/ call'[i].outcome = "none"
    BY <1>3
  <2>3. QED
    BY <1>2, <1>3, <2>1, <2>2 DEF Wellformed, Same, Ready
<1>5. \A j \in Intents : Wellformed(call'[j]) /\ Same(call[j], call'[j])
  BY <1>1, <1>2, <1>4 DEF Typed, Same
<1>6. QED
  BY <1>1, <1>3, <1>5

\* A step that keeps what methods fixed, and what the server remembers.
LEMMA Keeps ==
    ASSUME IndInv, DOMAIN call' = Intents,
           \A j \in Intents : Wellformed(call'[j]) /\ Same(call[j], call'[j]),
           net' \subseteq net,
           UNCHANGED <<card, keys, version, answered, applied, stale>>,
           Outcomes'
    PROVE  IndInv'
<1>1. \A j \in Intents : Ready(call'[j]) <=> Ready(call[j])
  BY DEF Same, Ready
<1>2. Typed'
  BY DEF IndInv, Typed
<1>3. Accepts' = Accepts
  BY DEF Accepts
<1>4. Requests'
  BY <1>1, <1>3 DEF IndInv, Requests, Same
<1>5. Memory'
  BY <1>1, <1>3 DEF IndInv, Memory, Same
<1>6. NoLostUpdate' /\ Parsed'
  BY DEF IndInv, NoLostUpdate, Parsed, Usable
<1>7. QED
  BY <1>2, <1>4, <1>5, <1>6 DEF IndInv

\* Where a call is in progress, nothing is missing.
LEMMA Underway ==
    ASSUME Typed, NEW i \in Intents,
           call[i].at \in {"auth", "reauth", "send", "sent", "refresh", "store"}
    PROVE  Ready(call[i]) /\ call[i].calls # 0 /\ call[i].outcome = "none"
BY DEF Typed, Wellformed

\* A step of the client that sends nothing and returns nothing the server
\* decided; it returns ok, or only fails to store a pair, if the server applied
\* its intent, or if there was nothing to log out from.
LEMMA ClientStep ==
    ASSUME IndInv, NEW i \in Intents, NEW changes, Set(i, changes),
           DOMAIN changes \subseteq {"at", "token", "retried", "outcome"},
           "at" \in DOMAIN changes, changes["at"] \notin {"auth", "store"},
           changes["at"] \in {"reauth", "refresh"} => call[i].endpoint.auth,
           "outcome" \in DOMAIN changes =>
              /\ changes["at"] = "done"
              /\ changes["outcome"] \notin {"MissingPrecondition", "InvalidUrl",
                                            "PreconditionFailed"}
              /\ changes["outcome"] = "Credential" => applied[i] # 0
              /\ changes["outcome"] = "ok" =>
                   applied[i] # 0 \/ (call[i].endpoint.then = "clear_tokens"
                                      /\ call[i].sent = 0),
           call[i].at \in {"auth", "reauth", "send", "sent", "refresh", "store"},
           UNCHANGED <<card, keys, net, version, answered, applied, stale>>
    PROVE  IndInv'
<1>1. Typed
  BY DEF IndInv
<1>2. Ready(call[i]) /\ call[i].calls # 0 /\ call[i].outcome = "none"
  BY <1>1, Underway
<1>3. /\ DOMAIN call' = Intents
      /\ \A j \in Intents : Wellformed(call'[j]) /\ Same(call[j], call'[j])
      /\ \A j \in Intents : j # i => call'[j] = call[j]
      /\ call'[i].at = changes["at"] /\ call'[i].sent = call[i].sent
      /\ "outcome" \notin DOMAIN changes => call'[i].outcome = "none"
      /\ "outcome" \in DOMAIN changes => call'[i].outcome = changes["outcome"]
  BY <1>1, <1>2, Proceeds
<1>4. Accepts' = Accepts
  BY DEF Accepts
<1>5. Meaning(call'[i], applied[i], version, Accepts)
  <2>1. call'[i].etag = call[i].etag /\ call'[i].endpoint = call[i].endpoint
        /\ call[i].etag <= version
    BY <1>3 DEF Same, IndInv, Outcomes, Meaning
  <2>2. CASE "outcome" \notin DOMAIN changes
    BY <1>3, <2>1, <2>2 DEF Meaning
  <2>3. CASE "outcome" \in DOMAIN changes
    BY <1>3, <2>1, <2>3 DEF Meaning
  <2>4. QED
    BY <2>2, <2>3
<1>6. Outcomes'
  BY <1>3, <1>4, <1>5 DEF IndInv, Outcomes
<1>7. QED
  BY <1>3, <1>6, Keeps

\* load_credentials, the deadline, refresh_access, set_tokens, clear_tokens.
LEMMA ClientSteps ==
    ASSUME IndInv, NEW i \in Intents,
           Authorize(i) \/ TransportFails(i) \/ RefreshAccess(i) \/ StoreTokens(i)
    PROVE  IndInv'
<1> Wellformed(call[i])
  BY DEF IndInv, Typed
<1>1. CASE Authorize(i)
  <2>1. call[i].at \in {"auth", "reauth"}
        /\ UNCHANGED <<card, keys, net, version, answered, applied, stale>>
    BY <1>1 DEF Authorize, serverVars
  <2>2. CASE Returns(i, "AuthenticationRequired")
    BY <2>1, <2>2, ClientStep DEF Returns
  <2>3. CASE Set(i, [at |-> "send", token |-> IF call[i].endpoint.auth
                                               THEN active ELSE 0])
    BY <2>1, <2>3, ClientStep
  <2>4. CASE call[i].endpoint.then = "clear_tokens" /\ Returns(i, "ok")
    <3>1. Plain(call[i].endpoint)
      BY EndpointsPlain DEF Wellformed
    <3>2. call[i].sent = 0
      BY <2>1, <2>4, <3>1 DEF Wellformed, Plain
    <3>3. QED
      BY <2>1, <2>4, <3>2, ClientStep DEF Returns
  <2>5. QED
    BY <1>1, <2>2, <2>3, <2>4 DEF Authorize
<1>2. CASE TransportFails(i)
  BY <1>2, ClientStep DEF TransportFails, Returns, serverVars
<1>3. CASE RefreshAccess(i)
  <2>1. call[i].at = "refresh" /\ call[i].endpoint.auth
        /\ UNCHANGED <<card, keys, net, version, answered, applied, stale>>
    BY <1>3 DEF RefreshAccess, Wellformed
  <2>2. Set(i, [at |-> "reauth"]) \/ Returns(i, "AuthExpired")
    BY <1>3 DEF RefreshAccess
  <2>3. QED
    BY <2>1, <2>2, ClientStep DEF Returns
<1>4. CASE StoreTokens(i)
  <2>1. call[i].at = "store"
        /\ UNCHANGED <<card, keys, net, version, answered, applied, stale>>
    BY <1>4 DEF StoreTokens
  <2>2. applied[i] # 0
    BY <2>1 DEF IndInv, Outcomes, Meaning
  <2>3. Returns(i, "ok") \/ Returns(i, "Credential")
    BY <1>4 DEF StoreTokens
  <2>4. QED
    BY <2>1, <2>2, <2>3, ClientStep DEF Returns
<1>5. QED
  BY <1>1, <1>2, <1>3, <1>4

\* ReqwestTransport::send: the request repeats the call, or the card lets none
\* through.
LEMMA Sends ==
    ASSUME IndInv, NEW i \in Intents, Send(i)
    PROVE  IndInv'
<1>1. Typed /\ call[i].at = "send"
      /\ UNCHANGED <<card, keys, version, answered, applied, stale>>
  BY DEF IndInv, Send
<1>2. Ready(call[i]) /\ call[i].calls # 0 /\ call[i].outcome = "none"
  BY <1>1, Underway
<1>3. Accepts' = Accepts
  BY <1>1 DEF Accepts
<1>4. CASE Accepts
  <2> DEFINE q == [id |-> sends + 1, intent |-> i, key |-> call[i].key,
                   token |-> call[i].token, etag |-> call[i].etag,
                   options |-> call[i].options, endpoint |-> call[i].endpoint]
  <2>1. net' = net \cup {q} /\ Set(i, [at |-> "sent", sent |-> sends + 1])
    BY <1>4 DEF Send, Accepts
  <2>2. /\ DOMAIN call' = Intents
        /\ \A j \in Intents : Wellformed(call'[j]) /\ Same(call[j], call'[j])
        /\ \A j \in Intents : j # i => call'[j] = call[j]
        /\ call'[i].outcome = "none" /\ call'[i].at = "sent"
    BY <1>1, <1>2, <2>1, Proceeds
  <2>3. /\ q.intent = i /\ q.key = call[i].key /\ q.etag = call[i].etag
        /\ q.options = call[i].options /\ q.endpoint = call[i].endpoint
    OBVIOUS
  <2> HIDE DEF q
  <2>4. \A j \in Intents : Ready(call'[j]) <=> Ready(call[j])
    BY <2>2 DEF Same, Ready
  <2>5. Typed'
    BY <1>1, <2>2 DEF Typed
  <2>6. Requests'
    BY <1>2, <1>3, <1>4, <2>1, <2>2, <2>3, <2>4 DEF IndInv, Requests, Same
  <2>7. Memory'
    BY <1>1, <1>3, <2>2, <2>4 DEF IndInv, Memory, Same
  <2>8. Outcomes'
    BY <1>1, <1>3, <2>2, <2>4 DEF IndInv, Outcomes, Meaning, Same
  <2>9. NoLostUpdate' /\ Parsed'
    BY <1>1 DEF IndInv, NoLostUpdate, Parsed, Usable
  <2>10. QED
    BY <2>5, <2>6, <2>7, <2>8, <2>9 DEF IndInv
<1>5. CASE ~Accepts
  <2>1. net' = net /\ Set(i, [at |-> "done", outcome |-> "InvalidUrl"])
    BY <1>5 DEF Send, Accepts, Returns
  <2>2. /\ DOMAIN call' = Intents
        /\ \A j \in Intents : Wellformed(call'[j]) /\ Same(call[j], call'[j])
        /\ \A j \in Intents : j # i => call'[j] = call[j]
        /\ call'[i].outcome = "InvalidUrl" /\ call'[i].at = "done"
    BY <1>1, <1>2, <2>1, Proceeds
  <2>3. \A j \in Intents : Ready(call'[j]) <=> Ready(call[j])
    BY <2>2 DEF Same, Ready
  <2>4. Outcomes'
    BY <1>1, <1>3, <1>5, <2>2, <2>3 DEF IndInv, Outcomes, Meaning, Same
  <2>5. QED
    BY <1>1, <2>1, <2>2, <2>4, Keeps
<1>6. QED
  BY <1>4, <1>5

\* The key of a call.
LEMMA KeyOf ==
    ASSUME Typed, NEW e \in Endpoints, NEW owned \in BOOLEAN, owned => e.keyed
    PROVE  /\ EnsureIdempotency(e, owned) = NoKey <=> ~e.keyed
           /\ owned => EnsureIdempotency(e, owned) = OwnKey
           /\ keys' = (IF EnsureIdempotency(e, owned) = keys THEN keys + 1 ELSE keys)
                => keys' \in Nat \ {0}
<1>1. e.keyed \in BOOLEAN
  BY EndpointsPlain DEF Plain
<1>2. keys \in Nat \ {0} /\ OwnKey \in Nat \ {0} /\ NoKey = 0
  BY ApiAssumption DEF ApiAssumption, OwnKey, NoKey, Typed
<1>3. QED
  BY <1>1, <1>2 DEF EnsureIdempotency

\* A method starts the first call of an intent, or repeats the last one.
LEMMA Calls ==
    ASSUME IndInv, NEW i \in Intents, NEW e \in Endpoints, NEW owned \in BOOLEAN,
           owned => e.keyed, NEW options, options \subseteq e.requires,
           NEW etag \in Nat, etag <= version,
           Method(i, e, options, owned, etag),
           UNCHANGED <<card, net, version, answered, applied, stale>>,
           \/ call[i].calls = 0
           \/ /\ call[i].owned /\ e = call[i].endpoint /\ options = call[i].options
              /\ owned /\ etag = call[i].etag
    PROVE  IndInv'
<1>1. Typed /\ Wellformed(call[i])
  BY DEF IndInv, Typed
<1>2. Accepts' = Accepts
  BY DEF Accepts
<1> DEFINE key == EnsureIdempotency(e, owned)
           refused == [at |-> "done", endpoint |-> e, owned |-> owned,
                       options |-> options, outcome |-> "MissingPrecondition",
                       calls |-> call[i].calls + 1]
           started == [at |-> "auth", endpoint |-> e, owned |-> owned,
                       options |-> options, etag |-> etag, retried |-> FALSE,
                       sent |-> 0, key |-> key, outcome |-> "none", calls |-> call[i].calls + 1]
           c == call'[i]
<1>3. /\ key = NoKey <=> ~e.keyed
      /\ owned => key = OwnKey
  BY <1>1, KeyOf
<1>4. /\ DOMAIN call' = Intents
      /\ \A j \in Intents : j # i => call'[j] = call[j]
      /\ c.endpoint = e /\ c.owned = owned /\ c.options = options
      /\ c.calls = call[i].calls + 1 /\ keys' \in Nat \ {0}
      /\ \/ /\ Missing(e, options) # {} /\ c.at = "done"
            /\ c.outcome = "MissingPrecondition"
            /\ c.etag = call[i].etag /\ c.key = call[i].key
         \/ /\ Missing(e, options) = {} /\ c.at = "auth" /\ c.outcome = "none"
            /\ c.etag = etag /\ c.key = key /\ c.sent = 0
  <2>1. CASE Missing(e, options) # {}
    <3>1. Set(i, refused) /\ keys' = keys
      BY <2>1 DEF Method
    <3>2. /\ DOMAIN call' = Intents
          /\ \A j \in Intents : j # i => call'[j] = call[j]
          /\ \A f \in Fields : c[f] = IF f \in DOMAIN refused THEN refused[f]
                                                           ELSE call[i][f]
      BY <1>1, <3>1, SetCall
    <3>3. /\ c.endpoint = e /\ c.owned = owned /\ c.options = options
          /\ c.calls = call[i].calls + 1 /\ c.at = "done"
      BY <3>2 DEF Fields
    <3>4. /\ c.outcome = "MissingPrecondition" /\ c.etag = call[i].etag
          /\ c.key = call[i].key
      BY <3>2 DEF Fields
    <3>5. keys' \in Nat \ {0}
      BY <1>1, <3>1 DEF Typed
    <3>6. QED
      BY <2>1, <3>2, <3>3, <3>4, <3>5
  <2>2. CASE Missing(e, options) = {}
    <3>1. Set(i, started) /\ keys' = IF key = keys THEN keys + 1 ELSE keys
      BY <2>2 DEF Method
    <3>2. /\ DOMAIN call' = Intents
          /\ \A j \in Intents : j # i => call'[j] = call[j]
          /\ \A f \in Fields : c[f] = IF f \in DOMAIN started THEN started[f]
                                                           ELSE call[i][f]
      BY <1>1, <3>1, SetCall
    <3> HIDE DEF key
    <3>3. /\ c.endpoint = e /\ c.owned = owned /\ c.options = options
          /\ c.calls = call[i].calls + 1 /\ c.at = "auth"
      BY <3>2 DEF Fields
    <3>4. c.outcome = "none" /\ c.etag = etag /\ c.key = key /\ c.sent = 0
      BY <3>2 DEF Fields
    <3>5. keys' \in Nat \ {0}
      BY <1>1, <3>1, KeyOf DEF key
    <3>6. QED
      BY <2>2, <3>2, <3>3, <3>4, <3>5
  <2>3. QED
    BY <2>1, <2>2
<1> HIDE DEF c, key
<1>5. Ready(c) <=> Missing(e, options) = {}
  BY <1>4 DEF Ready
<1>6. Wellformed(c) /\ c.etag <= version /\ c.calls # 0
  <2>1. c.etag \in Nat /\ c.etag <= version /\ c.calls \in Nat \ {0}
    BY <1>1, <1>4 DEF Wellformed, IndInv, Outcomes, Meaning
  <2>2. QED
    BY <1>3, <1>4, <1>5, <2>1 DEF Wellformed
<1>7. \/ applied[i] = 0 /\ \A q \in net : q.intent # i
      \/ /\ Ready(c) /\ c.endpoint = call[i].endpoint /\ c.options = call[i].options
         /\ c.etag = call[i].etag /\ c.key = call[i].key
  <2>1. CASE call[i].calls = 0 \/ ~Ready(call[i])
    BY <2>1 DEF IndInv, Memory, Requests
  <2>2. CASE call[i].calls # 0 /\ Ready(call[i])
    <3>1. /\ call[i].owned /\ e = call[i].endpoint /\ options = call[i].options
          /\ owned /\ etag = call[i].etag
      BY <2>2
    <3>2. Missing(e, options) = {} /\ call[i].key = OwnKey
      BY <1>1, <2>2, <3>1 DEF Ready, Wellformed
    <3>3. QED
      BY <1>3, <1>4, <1>5, <3>1, <3>2
  <2>3. QED
    BY <2>1, <2>2
<1>8. \A j \in Intents : j # i => call'[j] = call[j]
  BY <1>4
<1>9. Typed'
  BY <1>1, <1>4, <1>6 DEF Typed, c
<1>10. Requests'
  <2> SUFFICES ASSUME NEW q \in net
               PROVE  /\ q.intent \in Intents /\ Accepts
                      /\ LET d == call'[q.intent]
                         IN  /\ q.key = d.key /\ q.etag = d.etag
                             /\ q.options = d.options
                             /\ q.endpoint = d.endpoint /\ Ready(d) /\ d.calls # 0
    BY <1>2 DEF Requests, Ready
  <2>1. CASE q.intent = i
    BY <1>6, <1>7, <2>1 DEF IndInv, Requests, c
  <2>2. CASE q.intent # i
    BY <1>8, <2>2 DEF IndInv, Requests
  <2>3. QED
    BY <2>1, <2>2
<1>11. Memory'
  <2>1. \A p \in answered : p[1] \in Intents /\ applied[p[1]] # 0
    BY DEF IndInv, Memory
  <2>2. ASSUME NEW j \in Intents, applied[j] # 0
        PROVE  /\ Ready(call'[j]) /\ call'[j].calls # 0 /\ Accepts
               /\ call'[j].endpoint.keyed =>
                    applied[j] = 1 /\ <<j, call'[j].key>> \in answered
    <3>1. CASE j = i
      BY <1>6, <1>7, <2>2, <3>1 DEF IndInv, Memory, c
    <3>2. CASE j # i
      BY <1>8, <2>2, <3>2 DEF IndInv, Memory
    <3>3. QED
      BY <3>1, <3>2
  <2>3. QED
    BY <1>2, <2>1, <2>2 DEF Memory, Ready
<1>12. Outcomes'
  <2>1. /\ c.outcome = "none" \/ (c.outcome = "MissingPrecondition" /\ ~Ready(c))
        /\ c.at # "store"
    BY <1>4, <1>5
  <2>2. ASSUME NEW j \in Intents
        PROVE  Meaning(call'[j], applied[j], version, Accepts)
    <3>1. CASE j = i
      BY <1>6, <2>1, <3>1 DEF c, Meaning
    <3>2. CASE j # i
      BY <1>8, <3>2 DEF IndInv, Outcomes
    <3>3. QED
      BY <3>1, <3>2
  <2>3. QED
    BY <1>2, <2>2 DEF Outcomes
<1>13. NoLostUpdate' /\ Parsed'
  BY DEF IndInv, NoLostUpdate, Parsed, Usable
<1>14. QED
  BY <1>9, <1>10, <1>11, <1>12, <1>13 DEF IndInv

\* The two ways a host calls a method.
LEMMA CallSteps ==
    ASSUME IndInv, NEW i \in Intents, Call(i) \/ CallAgain(i)
    PROVE  IndInv'
<1>1. UNCHANGED <<card, net, version, answered, applied, stale>>
  BY DEF Call, CallAgain, serverVars
<1>2. version \in Nat /\ version <= version /\ Wellformed(call[i])
  BY DEF IndInv, Typed
<1>3. CASE Call(i)
  <2>1. PICK e \in Endpoints, owned \in BOOLEAN :
           /\ owned => e.keyed
           /\ \E options \in {e.requires, {}} : Method(i, e, options, owned, version)
    BY <1>3 DEF Call
  <2>2. PICK options \in {e.requires, {}} : Method(i, e, options, owned, version)
    BY <2>1
  <2>3. options \subseteq e.requires /\ call[i].calls = 0
    BY <1>3, <2>2 DEF Call
  <2>4. QED
    BY <1>1, <1>2, <2>1, <2>2, <2>3, Calls
<1>4. CASE CallAgain(i)
  <2>1. call[i].owned /\ Method(i, call[i].endpoint, call[i].options, TRUE, call[i].etag)
    BY <1>4 DEF CallAgain
  <2>2. /\ call[i].endpoint \in Endpoints /\ call[i].endpoint.keyed
        /\ call[i].options \subseteq call[i].endpoint.requires
        /\ call[i].etag \in Nat /\ call[i].etag <= version
    BY <1>2, <2>1 DEF Wellformed, IndInv, Outcomes, Meaning
  <2>3. QED
    BY <1>1, <2>1, <2>2, Calls
<1>5. QED
  BY <1>3, <1>4

------------------------------------------------------------------------------
(***************************************************************************)
(* The server.                                                             *)
(***************************************************************************)

\* The outcomes a client decides by itself.
Own == {"MissingPrecondition", "InvalidUrl", "Credential"}

\* What the decoders make of the answers: only an applied request reads as ok,
\* only a failed precondition as such.
LEMMA Decodes ==
    ASSUME NEW e
    PROVE  /\ \A r \in Refusals \cup {Response(401, "code", TRUE)} :
                Decode(e, r) \notin Own \cup {"ok", "PreconditionFailed"}
           /\ \A r \in Success(e) : Decode(e, r) \notin Own \cup {"PreconditionFailed"}
           /\ Decode(e, Response(412, "code", TRUE)) \notin Own \cup {"ok"}
<1> DEFINE Refused(r) == Decode(e, r) \notin Own \cup {"ok", "PreconditionFailed"}
           Answered(r) == Decode(e, r) \notin Own \cup {"PreconditionFailed"}
           Unmet(r) == Decode(e, r) \notin Own \cup {"ok"}
           unauthorized == Response(401, "code", TRUE)
           coded == Response(200, "code", TRUE)
           rejected == Response(400, "code", TRUE)
           broken == Response(500, "data", TRUE)
           proxy == Response(502, "html", TRUE)
           failed == Response(412, "code", TRUE)
           data == Response(200, "data", TRUE)
           bare == Response(200, "data", FALSE)
           odd == Response(200, "envelope", TRUE)
           empty == Response(204, "empty", TRUE)
<1>a. /\ Refusals = {coded, rejected, broken, proxy}
      /\ Success(e) \in {{data, bare, odd}, {empty, data}}
  BY DEF Refusals, Success
<1> HIDE DEF Refused, Answered, Unmet, unauthorized, coded, rejected, broken, proxy, failed, data, bare, odd, empty
<1>1. Refused(unauthorized)
  <2>1. unauthorized.status = 401 /\ unauthorized.body = "code" /\ unauthorized.headers = TRUE
    BY DEF unauthorized, Response
  <2>2. Decode(e, unauthorized) = "Api"
    BY <2>1 DEF Decode, DecodeJson, DecodeNoContent, IsSuccess
  <2>3. QED
    BY <2>2 DEF Refused, Own
<1>2. Refused(coded)
  <2>1. coded.status = 200 /\ coded.body = "code" /\ coded.headers = TRUE
    BY DEF coded, Response
  <2>2. Decode(e, coded) \in {"Api", "ExpectedNoContent"}
    BY <2>1 DEF Decode, DecodeJson, DecodeNoContent, IsSuccess
  <2>3. QED
    BY <2>2 DEF Refused, Own
<1>3. Refused(rejected)
  <2>1. rejected.status = 400 /\ rejected.body = "code" /\ rejected.headers = TRUE
    BY DEF rejected, Response
  <2>2. Decode(e, rejected) = "Api"
    BY <2>1 DEF Decode, DecodeJson, DecodeNoContent, IsSuccess
  <2>3. QED
    BY <2>2 DEF Refused, Own
<1>4. Refused(broken)
  <2>1. broken.status = 500 /\ broken.body = "data" /\ broken.headers = TRUE
    BY DEF broken, Response
  <2>2. Decode(e, broken) = "HttpStatus"
    BY <2>1 DEF Decode, DecodeJson, DecodeNoContent, IsSuccess
  <2>3. QED
    BY <2>2 DEF Refused, Own
<1>5. Refused(proxy)
  <2>1. proxy.status = 502 /\ proxy.body = "html" /\ proxy.headers = TRUE
    BY DEF proxy, Response
  <2>2. Decode(e, proxy) = "Json"
    BY <2>1 DEF Decode, DecodeJson, DecodeNoContent, IsSuccess
  <2>3. QED
    BY <2>2 DEF Refused, Own
<1>6. Unmet(failed)
  <2>1. failed.status = 412 /\ failed.body = "code" /\ failed.headers = TRUE
    BY DEF failed, Response
  <2>2. Decode(e, failed) = "PreconditionFailed"
    BY <2>1 DEF Decode, DecodeJson, DecodeNoContent, IsSuccess
  <2>3. QED
    BY <2>2 DEF Unmet, Own
<1>7. Answered(data)
  <2>1. data.status = 200 /\ data.body = "data" /\ data.headers = TRUE
    BY DEF data, Response
  <2>2. Decode(e, data) \in {"ok", "ExpectedNoContent"}
    BY <2>1 DEF Decode, DecodeJson, DecodeNoContent, IsSuccess
  <2>3. QED
    BY <2>2 DEF Answered, Own
<1>8. Answered(bare)
  <2>1. bare.status = 200 /\ bare.body = "data" /\ bare.headers = FALSE
    BY DEF bare, Response
  <2>2. Decode(e, bare) \in {"InvalidHeader", "ExpectedNoContent"}
    BY <2>1 DEF Decode, DecodeJson, DecodeNoContent, IsSuccess
  <2>3. QED
    BY <2>2 DEF Answered, Own
<1>9. Answered(empty)
  <2>1. empty.status = 204 /\ empty.body = "empty" /\ empty.headers = TRUE
    BY DEF empty, Response
  <2>2. Decode(e, empty) \in {"ok", "UnexpectedNoContent"}
    BY <2>1 DEF Decode, DecodeJson, DecodeNoContent, IsSuccess
  <2>3. QED
    BY <2>2 DEF Answered, Own
<1>b. Answered(odd)
  <2>1. odd.status = 200 /\ odd.body = "envelope" /\ odd.headers = TRUE
    BY DEF odd, Response
  <2>2. Decode(e, odd) \in {"Envelope", "ExpectedNoContent"}
    BY <2>1 DEF Decode, DecodeJson, DecodeNoContent, IsSuccess
  <2>3. QED
    BY <2>2 DEF Answered, Own
<1>10. \A r \in Refusals \cup {unauthorized} : Refused(r)
  BY <1>a, <1>1, <1>2, <1>3, <1>4, <1>5
<1>11. \A r \in Success(e) : Answered(r)
  BY <1>a, <1>b, <1>7, <1>8, <1>9
<1>12. QED
  BY <1>10, <1>11, <1>6 DEF Refused, Answered, Unmet, unauthorized, failed

\* An answer reaches the call that waits for it, or nobody.
LEMMA Answers ==
    ASSUME Typed, NEW i \in Intents, NEW id, NEW r,
           IF call[i].at = "sent" /\ call[i].sent = id
             THEN Receive(i, r) ELSE UNCHANGED call
    PROVE  /\ DOMAIN call' = Intents
           /\ \A j \in Intents : Wellformed(call'[j]) /\ Same(call[j], call'[j])
           /\ \A j \in Intents : j # i => call'[j] = call[j]
           /\ \/ call'[i] = call[i]
              \/ call'[i].outcome = "none" /\ call'[i].at # "store"
              \/ /\ call'[i].outcome = "none" /\ call'[i].at = "store"
                 /\ Decode(call[i].endpoint, r) = "ok"
              \/ /\ call'[i].outcome = Decode(call[i].endpoint, r)
                 /\ call'[i].at = "done"
<1>1. CASE UNCHANGED call
  BY <1>1 DEF Typed, Same
<1>2. CASE call[i].at = "sent" /\ Receive(i, r)
  <2>1. Ready(call[i]) /\ call[i].calls # 0 /\ call[i].outcome = "none"
    BY <1>2, Underway
  <2>2. CASE /\ call[i].endpoint.auth
             /\ Set(i, [at |-> IF active = call[i].token THEN "refresh" ELSE "reauth",
                        retried |-> TRUE])
    <3>1. PICK point \in {"refresh", "reauth"} :
             Set(i, [at |-> point, retried |-> TRUE])
      BY <2>2
    <3>2. QED
      BY <2>1, <2>2, <3>1, Proceeds
  <2>3. CASE Decode(call[i].endpoint, r) = "ok" /\ Set(i, [at |-> "store"])
    BY <2>1, <2>3, Proceeds
  <2>4. CASE Set(i, [at |-> "done", outcome |-> Decode(call[i].endpoint, r)])
    BY <2>1, <2>4, Proceeds
  <2>5. QED
    BY <1>2, <2>2, <2>3, <2>4 DEF Receive, Returns
<1>3. QED
  BY <1>1, <1>2

\* The server refuses a request, or repeats the answer it has: nothing it
\* remembers changes.
LEMMA Refuses ==
    ASSUME IndInv, NEW q \in net, net' = net \ {q}, NEW r,
           IF call[q.intent].at = "sent" /\ call[q.intent].sent = q.id
             THEN Receive(q.intent, r) ELSE UNCHANGED call,
           UNCHANGED <<card, keys, version, answered, applied, stale>>,
           LET d == Decode(q.endpoint, r)
           IN  /\ d \notin Own
               /\ d = "ok" => applied[q.intent] # 0
               /\ d = "PreconditionFailed" =>
                    /\ "if_match" \in q.options /\ q.etag < version
                    /\ applied[q.intent] = 0
    PROVE  IndInv'
<1> DEFINE i == q.intent
           d == Decode(q.endpoint, r)
<1>1. Typed /\ i \in Intents
  BY DEF IndInv, Requests
<1>2. q.endpoint = call[i].endpoint /\ q.options = call[i].options /\ q.etag = call[i].etag
  BY DEF IndInv, Requests
<1>3. /\ DOMAIN call' = Intents
      /\ \A j \in Intents : Wellformed(call'[j]) /\ Same(call[j], call'[j])
      /\ \A j \in Intents : j # i => call'[j] = call[j]
      /\ \/ call'[i] = call[i]
         \/ call'[i].outcome = "none" /\ call'[i].at # "store"
         \/ call'[i].outcome = "none" /\ call'[i].at = "store" /\ d = "ok"
         \/ call'[i].outcome = d /\ call'[i].at = "done"
  BY <1>1, <1>2, Answers
<1>4. Accepts' = Accepts
  BY DEF Accepts
<1>5. \A j \in Intents : Ready(call'[j]) <=> Ready(call[j])
  BY <1>3 DEF Same, Ready
<1> HIDE DEF d, i
<1>6. /\ d \notin Own
      /\ d = "ok" => applied[i] # 0
      /\ d = "PreconditionFailed" =>
           "if_match" \in call[i].options /\ call[i].etag < version /\ applied[i] = 0
  BY <1>2 DEF d, i
<1>7. Outcomes'
  <2>1. ASSUME NEW j \in Intents
        PROVE  Meaning(call'[j], applied[j], version, Accepts)
    <3>1. CASE call'[j] = call[j]
      BY <3>1 DEF IndInv, Outcomes
    <3>2. CASE j = i /\ call'[i] # call[i]
      <4>1. /\ call'[i].etag <= version /\ call'[i].etag = call[i].etag
            /\ call'[i].options = call[i].options
        BY <1>1, <1>3 DEF IndInv, Outcomes, Meaning, Same
      <4>2. QED
        BY <1>3, <1>6, <3>2, <4>1 DEF Meaning, Own
    <3>3. QED
      BY <1>3, <3>1, <3>2
  <2>2. QED
    BY <1>4, <2>1 DEF Outcomes
<1>8. QED
  BY <1>3, <1>7, Keeps

\* The server applies a request: for the first time, if it has a key, and to
\* the version the caller read, if the endpoint is preconditioned.
LEMMA Applies ==
    ASSUME IndInv, NEW q \in net, net' = net \ {q}, NEW r \in Success(q.endpoint),
           IF call[q.intent].at = "sent" /\ call[q.intent].sent = q.id
             THEN Receive(q.intent, r) ELSE UNCHANGED call,
           q.key = NoKey \/ <<q.intent, q.key>> \notin answered,
           "if_match" \in q.options => q.etag = version,
           applied' = [applied EXCEPT ![q.intent] = @ + 1],
           version' = IF q.endpoint.writes THEN version + 1 ELSE version,
           answered' = IF q.key = NoKey THEN answered
                       ELSE answered \cup {<<q.intent, q.key>>},
           stale' = IF "if_match" \in q.endpoint.requires /\ q.etag # version
                      THEN stale \cup {q.intent} ELSE stale,
           UNCHANGED <<card, keys>>
    PROVE  IndInv'
<1> DEFINE i == q.intent
           d == Decode(q.endpoint, r)
<1>1. Typed /\ i \in Intents /\ Accepts
  BY DEF IndInv, Requests
<1>2. /\ q.endpoint = call[i].endpoint /\ q.options = call[i].options
      /\ q.etag = call[i].etag /\ q.key = call[i].key
      /\ Ready(call[i]) /\ call[i].calls # 0
  BY DEF IndInv, Requests
<1>3. /\ DOMAIN call' = Intents
      /\ \A j \in Intents : Wellformed(call'[j]) /\ Same(call[j], call'[j])
      /\ \A j \in Intents : j # i => call'[j] = call[j]
      /\ \/ call'[i] = call[i]
         \/ call'[i].outcome = "none" /\ call'[i].at # "store"
         \/ call'[i].outcome = "none" /\ call'[i].at = "store" /\ d = "ok"
         \/ call'[i].outcome = d /\ call'[i].at = "done"
  BY <1>1, <1>2, Answers
<1>4. Accepts' = Accepts
  BY DEF Accepts
<1>5. \A j \in Intents : Ready(call'[j]) <=> Ready(call[j])
  BY <1>3 DEF Same, Ready
<1>6. d \notin Own \cup {"PreconditionFailed"}
  BY ZenonT(60), Decodes
<1>7. /\ applied \in [Intents -> Nat] /\ applied' \in [Intents -> Nat]
      /\ applied'[i] = applied[i] + 1 /\ applied'[i] # 0
      /\ \A j \in Intents : j # i => applied'[j] = applied[j]
  BY <1>1 DEF Typed
<1>8. version \in Nat /\ version' \in Nat /\ version' >= version
  BY DEF IndInv, Typed
<1>9. Wellformed(call[i])
  BY <1>1 DEF Typed
<1>10. call[i].endpoint.keyed => applied[i] = 0
  BY <1>1, <1>2, <1>9 DEF IndInv, Memory, Wellformed
<1>11. call[i].endpoint.keyed => <<i, call[i].key>> \in answered'
  BY <1>2, <1>9 DEF Wellformed
<1>12. answered \subseteq answered' /\ \A p \in answered' : p \in answered \/ p[1] = i
  OBVIOUS
<1>13. NoLostUpdate'
  <2>1. "if_match" \in q.endpoint.requires => "if_match" \in q.options
    BY <1>2 DEF Ready, Missing
  <2>2. stale' = stale
    BY <2>1
  <2>3. QED
    BY <2>2 DEF IndInv, NoLostUpdate
<1>14. call[i].outcome # "PreconditionFailed"
  BY <1>1, <1>2, <1>8, <1>9 DEF IndInv, Outcomes, Meaning, Wellformed
<1> HIDE DEF d, i
<1>15. Typed'
  BY <1>3, <1>7, <1>8 DEF IndInv, Typed
<1>16. Requests'
  BY <1>3, <1>4, <1>5 DEF IndInv, Requests, Same
<1>17. Memory'
  <2>1. \A p \in answered' : p[1] \in Intents /\ applied'[p[1]] # 0
    BY <1>1, <1>7, <1>12 DEF IndInv, Memory
  <2>2. ASSUME NEW j \in Intents, applied'[j] # 0
        PROVE  /\ Ready(call'[j]) /\ call'[j].calls # 0 /\ Accepts
               /\ call'[j].endpoint.keyed =>
                    applied'[j] = 1 /\ <<j, call'[j].key>> \in answered'
    <3>1. CASE j = i
      BY <1>1, <1>2, <1>3, <1>5, <1>7, <1>10, <1>11, <3>1 DEF Same
    <3>2. CASE j # i
      BY <1>3, <1>7, <1>12, <2>2, <3>2 DEF IndInv, Memory
    <3>3. QED
      BY <3>1, <3>2
  <2>3. QED
    BY <1>4, <2>1, <2>2 DEF Memory, Ready
<1>18. Outcomes'
  <2>1. ASSUME NEW j \in Intents
        PROVE  Meaning(call'[j], applied'[j], version', Accepts)
    <3>1. /\ Wellformed(call[j]) /\ Same(call[j], call'[j]) /\ call[j].etag \in Nat
          /\ Meaning(call[j], applied[j], version, Accepts)
      BY <1>3 DEF IndInv, Typed, Outcomes, Wellformed
    <3>2. call'[j].etag <= version'
      BY <1>8, <3>1 DEF Same, Meaning
    <3>3. CASE j # i
      <4>1. call'[j] = call[j] /\ applied'[j] = applied[j]
        BY <1>3, <1>7, <3>3
      <4>2. call[j].etag < version => call[j].etag < version'
        BY <1>8, <3>1
      <4>3. QED
        BY <3>1, <3>2, <4>1, <4>2 DEF Meaning
    <3>4. CASE j = i
      <4>1. Accepts /\ Ready(call[i])
        BY <1>1, <1>2
      <4>2. call'[i].outcome \notin {"InvalidUrl", "MissingPrecondition",
                                     "PreconditionFailed"}
        BY <1>3, <1>6, <1>14, <3>1, <3>4, <4>1 DEF Meaning, Own
      <4>3. QED
        BY <1>7, <3>2, <3>4, <4>2 DEF Meaning
    <3>5. QED
      BY <3>3, <3>4
  <2>2. QED
    BY <1>4, <2>1 DEF Outcomes
<1>19. Parsed'
  BY DEF IndInv, Parsed, Usable
<1>20. QED
  BY <1>13, <1>15, <1>16, <1>17, <1>18, <1>19 DEF IndInv

\* The server serves a request in one of five ways.
LEMMA Serves ==
    ASSUME IndInv, Serve
    PROVE  IndInv'
<1>1. PICK q \in net :
        /\ net' = net \ {q}
        /\ LET first == q.key = NoKey \/ <<q.intent, q.key>> \notin answered
               current == "if_match" \in q.options => q.etag = version
               Answer(r) == IF call[q.intent].at = "sent" /\ call[q.intent].sent = q.id
                              THEN Receive(q.intent, r) ELSE UNCHANGED call
               Refuse(r) == Answer(r) /\ UNCHANGED <<version, answered, applied, stale>>
           IN  \/ Refuse(Response(401, "code", TRUE))
               \/ /\ first /\ current
                  /\ applied' = [applied EXCEPT ![q.intent] = @ + 1]
                  /\ version' = IF q.endpoint.writes THEN version + 1 ELSE version
                  /\ answered' = IF q.key = NoKey THEN answered
                                 ELSE answered \cup {<<q.intent, q.key>>}
                  /\ stale' = IF "if_match" \in q.endpoint.requires /\ q.etag # version
                                THEN stale \cup {q.intent} ELSE stale
                  /\ \E r \in Success(q.endpoint) : Answer(r)
               \/ /\ ~first /\ \E r \in Success(q.endpoint) : Refuse(r)
               \/ /\ first /\ ~current /\ Refuse(Response(412, "code", TRUE))
               \/ /\ first /\ \E r \in Refusals : Refuse(r)
        /\ UNCHANGED <<card, keys>>
  BY ZenonT(60) DEF Serve
<1> DEFINE first == q.key = NoKey \/ <<q.intent, q.key>> \notin answered
           current == "if_match" \in q.options => q.etag = version
           Answer(r) == IF call[q.intent].at = "sent" /\ call[q.intent].sent = q.id
                          THEN Receive(q.intent, r) ELSE UNCHANGED call
           Refuse(r) == Answer(r) /\ UNCHANGED <<version, answered, applied, stale>>
           refusals == Refusals \cup {Response(401, "code", TRUE)}
           failed == Response(412, "code", TRUE)
<1>2. /\ q.intent \in Intents /\ q.key = call[q.intent].key
      /\ q.etag = call[q.intent].etag /\ q.options = call[q.intent].options
      /\ q.endpoint = call[q.intent].endpoint /\ Ready(call[q.intent])
      /\ Wellformed(call[q.intent]) /\ call[q.intent].etag <= version
      /\ version \in Nat
  BY DEF IndInv, Requests, Typed, Outcomes, Meaning
<1>3. ASSUME NEW r \in refusals, Refuse(r)
      PROVE  IndInv'
  <2>1. Decode(q.endpoint, r) \notin Own \cup {"ok", "PreconditionFailed"}
    BY ZenonT(60), Decodes
  <2>2. QED
    BY <1>1, <1>3, <2>1, Refuses
<1>4. ASSUME first, current, NEW r \in Success(q.endpoint), Answer(r),
             applied' = [applied EXCEPT ![q.intent] = @ + 1],
             version' = IF q.endpoint.writes THEN version + 1 ELSE version,
             answered' = IF q.key = NoKey THEN answered
                         ELSE answered \cup {<<q.intent, q.key>>},
             stale' = IF "if_match" \in q.endpoint.requires /\ q.etag # version
                        THEN stale \cup {q.intent} ELSE stale
      PROVE  IndInv'
  BY <1>1, <1>4, Applies
<1>5. ASSUME ~first, NEW r \in Success(q.endpoint), Refuse(r)
      PROVE  IndInv'
  <2>1. applied[q.intent] # 0
    <3>1. <<q.intent, q.key>> \in answered
      BY <1>5
    <3>2. applied[<<q.intent, q.key>>[1]] # 0
      BY <3>1 DEF IndInv, Memory
    <3>3. QED
      BY <3>2
  <2>2. Decode(q.endpoint, r) \notin Own \cup {"PreconditionFailed"}
    BY ZenonT(60), Decodes
  <2>3. QED
    BY <1>1, <1>5, <2>1, <2>2, Refuses
<1> HIDE DEF failed
<1>6. ASSUME first, ~current, Refuse(failed)
      PROVE  IndInv'
  <2>1. "if_match" \in q.options /\ q.etag # version /\ q.etag \in Nat /\ q.etag < version
    BY <1>2, <1>6 DEF Wellformed
  <2>2. call[q.intent].endpoint.keyed
    <3>1. call[q.intent].endpoint.requires # {}
      BY <1>2, <2>1 DEF Wellformed
    <3>2. Plain(call[q.intent].endpoint)
      BY <1>2, EndpointsPlain DEF Wellformed
    <3>3. QED
      BY <3>1, <3>2 DEF Plain
  <2>3. applied[q.intent] = 0
    BY <1>2, <1>6, <2>2 DEF IndInv, Memory, Wellformed
  <2>4. Decode(q.endpoint, failed) \notin Own \cup {"ok"}
    BY ZenonT(60), Decodes DEF failed
  <2>5. QED
    BY <1>1, <1>6, <2>1, <2>3, <2>4, Refuses
<1>7. QED
  BY ZenonT(60), <1>1, <1>3, <1>4, <1>5, <1>6 DEF failed

------------------------------------------------------------------------------
(***************************************************************************)
(* The invariant holds.                                                    *)
(***************************************************************************)

\* The invariant holds initially.
LEMMA Initially == Init => IndInv
<1> SUFFICES ASSUME Init PROVE IndInv
  OBVIOUS
<1>1. /\ Idle.at = "idle" /\ Idle.endpoint = Read /\ Idle.options = {}
      /\ Idle.owned = FALSE /\ Idle.etag = 0 /\ Idle.key = NoKey
      /\ Idle.outcome = "none" /\ Idle.calls = 0
  BY DEF Idle
<1>2. Read.keyed = FALSE /\ Read.requires = {}
  BY DEF Read
<1>3. Wellformed(Idle)
  <2>1. /\ Idle.endpoint \in Endpoints /\ Idle.owned \in BOOLEAN /\ Idle.calls \in Nat
        /\ Idle.etag \in Nat /\ Idle.options \subseteq Idle.endpoint.requires
    <3>1. Idle.endpoint \in Endpoints /\ Idle.owned \in BOOLEAN
      BY <1>1, ReadIsEndpoint, Zenon
    <3>2. Idle.calls \in Nat /\ Idle.etag \in Nat
      BY <1>1
    <3>3. Idle.options \subseteq Idle.endpoint.requires
      BY <1>1, Zenon
    <3>4. QED
      BY <3>1, <3>2, <3>3
  <2>2. Idle.key = NoKey /\ ~Idle.endpoint.keyed /\ ~Idle.owned
    BY <1>1, <1>2
  <2>3. Idle.at \notin {"auth", "reauth", "send", "sent", "refresh", "store"}
    BY <1>1
  <2>4. Idle.outcome = "none"
    BY <1>1
  <2>5. QED
    BY <2>1, <2>2, <2>3, <2>4 DEF Wellformed
<1>4. Typed
  BY <1>3 DEF Init, Typed
<1>5. Requests /\ Memory /\ NoLostUpdate
  BY DEF Init, Requests, Memory, NoLostUpdate
<1>6. Outcomes
  BY <1>1 DEF Init, Outcomes, Meaning
<1>7. Parsed
  <2>1. PICK t \in CardTexts :
           card = IF Parse(t) = "ok" THEN CardOf(t) ELSE [error |-> Parse(t)]
    BY DEF Init
  <2>2. CASE Parse(t) = "ok"
    BY <2>1, <2>2 DEF Parsed
  <2>3. CASE Parse(t) # "ok"
    BY <2>1, <2>3 DEF Parsed, Usable
  <2>4. QED
    BY <2>2, <2>3
<1>8. QED
  BY <1>4, <1>5, <1>6, <1>7 DEF IndInv

\* Tokens come and go, others write, or nothing happens.
LEMMA Elsewhere ==
    ASSUME IndInv, UNCHANGED <<card, call, keys, net, answered, applied, stale>>,
           version' \in Nat, version' >= version
    PROVE  IndInv'
<1>1. Accepts' = Accepts
  BY DEF Accepts
<1>2. version \in Nat /\ \A i \in Intents : call[i].etag \in Nat
  BY DEF IndInv, Typed, Wellformed
<1>3. Typed' /\ NoLostUpdate' /\ Parsed'
  BY DEF IndInv, Typed, NoLostUpdate, Parsed, Usable
<1>4. Requests' /\ Memory'
  BY <1>1 DEF IndInv, Requests, Memory, Ready
<1>5. Outcomes'
  BY <1>1, <1>2 DEF IndInv, Outcomes, Meaning, Ready
<1>6. QED
  BY <1>3, <1>4, <1>5 DEF IndInv

\* Every step keeps the invariant.
LEMMA StepKeeps == IndInv /\ [Next]_vars => IndInv'
<1> SUFFICES ASSUME IndInv, [Next]_vars PROVE IndInv'
  OBVIOUS
<1>1. version \in Nat
  BY DEF IndInv, Typed
<1>2. ASSUME NEW i \in Intents, Call(i) \/ CallAgain(i) \/ Step(i)
      PROVE  IndInv'
  BY <1>2, CallSteps, ClientSteps, Sends DEF Step
<1>3. CASE Serve
  BY <1>3, Serves
<1>4. CASE TokenExpires \/ NewPair \/ PairCleared \/ OtherWrites
  <2>1. /\ UNCHANGED <<card, call, keys, net, answered, applied, stale>>
        /\ version' = version \/ version' = version + 1
    BY <1>4 DEF TokenExpires, NewPair, PairCleared, OtherWrites, clientVars, serverVars
  <2>2. QED
    BY <1>1, <2>1, Elsewhere
<1>5. CASE UNCHANGED vars
  <2>1. UNCHANGED <<card, call, keys, net, answered, applied, stale, version>>
    BY <1>5 DEF vars, clientVars, serverVars
  <2>2. QED
    BY <1>1, <2>1, Elsewhere
<1>6. QED
  BY <1>2, <1>3, <1>4, <1>5 DEF Next

\* The invariant holds of every behaviour.
LEMMA Invariance == Spec => []IndInv
BY Initially, StepKeeps, PTL DEF Spec

------------------------------------------------------------------------------
(***************************************************************************)
(* The theorems.                                                           *)
(***************************************************************************)

\* request.rs, ensure_idempotency: a mutation with a key is applied at most once,
\* however often it is sent.
THEOREM KeyedAtMostOnce == Spec => []AtMostOnce
<1>1. IndInv => AtMostOnce
  <2> SUFFICES ASSUME IndInv, NEW i \in Intents, call[i].endpoint.keyed
               PROVE  applied[i] <= 1
    BY DEF AtMostOnce
  <2>1. applied[i] \in Nat
    BY DEF IndInv, Typed
  <2>2. applied[i] # 0 => applied[i] = 1
    BY DEF IndInv, Memory
  <2>3. QED
    BY <2>1, <2>2
<1>2. QED
  BY <1>1, Invariance, PTL

\* request.rs, require_if_match: no update is lost.
THEOREM UpdatesNeverLost == Spec => []NoLostUpdate
<1>1. IndInv => NoLostUpdate
  BY DEF IndInv
<1>2. QED
  BY <1>1, Invariance, PTL

\* response.rs, auth.rs: what a call returns is true of what the server did, and
\* stays so; a logout alone may return ok without a request.
THEOREM OutcomesHonest == Spec => []HonestOutcome
<1>1. IndInv => HonestOutcome
  <2> SUFFICES ASSUME IndInv, NEW i \in Intents
               PROVE  /\ call[i].outcome = "ok" =>
                           \/ applied[i] >= 1
                           \/ call[i].endpoint.then = "clear_tokens" /\ call[i].sent = 0
                      /\ call[i].outcome = "Credential" => applied[i] >= 1
                      /\ call[i].outcome \in {"MissingPrecondition", "InvalidUrl",
                                              "PreconditionFailed"}
                           => applied[i] = 0
    BY DEF HonestOutcome
  <2>1. applied[i] \in Nat
    BY DEF IndInv, Typed
  <2>2. Meaning(call[i], applied[i], version, Accepts)
    BY DEF IndInv, Outcomes
  <2>3. applied[i] # 0 => Ready(call[i]) /\ Accepts
    BY DEF IndInv, Memory
  <2>4. QED
    BY <2>1, <2>2, <2>3 DEF Meaning
<1>2. QED
  BY <1>1, Invariance, PTL

\* server_card.rs, parse and render: a pin survives, and TLS is never left.
THEOREM PinsSurvive == Spec => []CardKeepsPin
<1>1. IndInv => CardKeepsPin
  <2> SUFFICES ASSUME Parsed, Usable
               PROVE  /\ Parse(Render(card)) = "ok" /\ CardOf(Render(card)) = card
                      /\ card.tls => /\ card.fp # Absent
                                     /\ ControlBaseUrl(card).scheme = "https"
                                     /\ WebsocketUrl(card).scheme = "wss"
    BY DEF CardKeepsPin, IndInv
  <2>1. PICK t \in CardTexts : Parse(t) = "ok" /\ card = CardOf(t)
    BY DEF Parsed
  <2>2. QED
    BY <2>1, RoundTrip, ParsedCard DEF ControlBaseUrl, WebsocketUrl, UrlOf
<1>2. QED
  BY <1>1, Invariance, PTL

\* server_card.rs, client.rs, connection.rs: the origin checks let the URLs of
\* the same card through, but for IPv6 hosts.
THEOREM UrlsAgree == Spec => []OwnUrlsAccepted
<1>1. IndInv => OwnUrlsAccepted
  <2> SUFFICES ASSUME Parsed, Usable
               PROVE  /\ TransportAccepts(ControlBaseUrl(card), card) <=> card.host # "v6"
                      /\ UrlMatchesCard(WebsocketUrl(card), card) <=> card.host # "v6"
    BY DEF OwnUrlsAccepted, IndInv
  <2>1. PICK t \in CardTexts : Parse(t) = "ok" /\ card = CardOf(t)
    BY DEF Parsed
  <2>2. card.host \in Names /\ card.port # Absent
    BY <2>1, ParsedCard
  <2>3. QED
    BY <2>2, OwnUrls
<1>2. QED
  BY <1>1, Invariance, PTL

==============================================================================
