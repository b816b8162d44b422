------------------------------ MODULE ServerCard ------------------------------
(***************************************************************************)
(* Server cards (server_card.rs): the text a host is given, the card it    *)
(* parses to, the text a card renders to, and the URLs and origin checks   *)
(* the HTTP and WebSocket transports derive from a card.                   *)
(*                                                                         *)
(* A text is the record of its URL components; its query is a sequence of  *)
(* key-value pairs.  Of a host only its kind matters: a name, an IPv4 or   *)
(* an IPv6 address; the brackets of an IPv6 address in a URL are kept.     *)
(***************************************************************************)
EXTENDS Naturals, Sequences

Absent == "absent"
Names == {"name", "v4", "v6"}

\* Url::host_str of the url crate: an IPv6 address keeps its brackets.
HostStr(host) == IF host = "v6" THEN "[v6]" ELSE host

\* normalize_host: surrounding brackets are stripped.
NormalizeHost(text) == IF text = "[v6]" THEN "v6" ELSE text

\* Mutant: a TLS card needs no fingerprint.
CardError_Unpinned(c) ==
    CASE c.host \notin Names -> "InvalidHost"
      [] c.host \in Names /\ c.port = "0" -> "InvalidPort"
      [] ~c.tls /\ c.fp # Absent -> "UnexpectedFingerprint"
      [] OTHER -> "ok"

\* ServerCard::new on the normalized host.
CardError(c) ==
    CASE c.host \notin Names -> "InvalidHost"
      [] c.host \in Names /\ c.port = "0" -> "InvalidPort"
      [] c.tls /\ c.fp = Absent -> "MissingFingerprint"
      [] ~c.tls /\ c.fp # Absent -> "UnexpectedFingerprint"
      [] OTHER -> "ok"

\* The query of a card text: each key at most once, no other key, values in
\* their grammar; an empty invite counts as none.
Values(text, key) == {p \in {text.query[i] : i \in DOMAIN text.query} : p[1] = key}
Value(text, key) ==
    IF Values(text, key) = {} THEN Absent ELSE (CHOOSE p \in Values(text, key) : TRUE)[2]

QueryError(text) ==
    CASE \E i \in DOMAIN text.query : text.query[i][1] \notin {"v", "fp", "invite"}
           -> "UnknownQuery"
      [] \E i, j \in DOMAIN text.query : i < j /\ text.query[i][1] = text.query[j][1]
           -> "DuplicateQuery"
      [] Value(text, "fp") = "bad" -> "InvalidFingerprint"
      [] Value(text, "v") = "not a u8" -> "InvalidVersion"
      [] Value(text, "v") = Absent -> "MissingVersion"
      [] Value(text, "v") # "1" -> "UnsupportedVersion"
      [] OTHER -> "ok"

\* ServerCard::parse
TextError(text) ==
    CASE text.scheme \notin {"zephyrvox", "zephyrvoxs"} -> "UnsupportedScheme"
      [] text.extra -> "InvalidUrl"     \* user information, a path, a fragment
      [] text.port = Absent -> "MissingPort"
      [] OTHER -> QueryError(text)

CardOf(text) ==
    [tls |-> text.scheme = "zephyrvoxs",
     host |-> NormalizeHost(text.host),
     port |-> text.port, fp |-> Value(text, "fp"),
     invite |-> IF Value(text, "invite") = "" THEN Absent ELSE Value(text, "invite")]

Parse(text) ==
    IF TextError(text) # "ok" THEN TextError(text) ELSE CardError(CardOf(text))

\* ServerCard::render
Render(c) ==
    [scheme |-> IF c.tls THEN "zephyrvoxs" ELSE "zephyrvox", extra |-> FALSE,
     host |-> HostStr(c.host), port |-> c.port,
     query |-> <<<<"v", "1">>>>
               \o (IF c.fp = Absent THEN <<>> ELSE <<<<"fp", c.fp>>>>)
               \o (IF c.invite = Absent THEN <<>> ELSE <<<<"invite", c.invite>>>>)]

------------------------------------------------------------------------------
(***************************************************************************)
(* The URLs the client builds.  The url crate drops a port that is the     *)
(* default of its scheme, and port_or_known_default puts it back.          *)
(***************************************************************************)

DefaultPort(scheme) == IF scheme \in {"http", "ws"} THEN "80" ELSE "443"
UrlOf(scheme, host, port) ==
    [scheme |-> scheme, host |-> host,
     port |-> IF port = DefaultPort(scheme) THEN Absent ELSE port]
PortOrKnownDefault(url) ==
    IF url.port = Absent THEN DefaultPort(url.scheme) ELSE url.port

\* control_base_url
ControlBaseUrl(c) == UrlOf(IF c.tls THEN "https" ELSE "http", c.host, c.port)

\* Mutant: the WebSocket URL leaves the port to its scheme.
WebsocketUrl_DefaultPort(c) ==
    [scheme |-> IF c.tls THEN "wss" ELSE "ws", host |-> c.host, port |-> Absent]

\* websocket_url
WebsocketUrl(c) == UrlOf(IF c.tls THEN "wss" ELSE "ws", c.host, c.port)

\* ReqwestTransport::send_inner and url_matches_card: the check of a URL
\* against the card before anything is sent.
TransportAccepts(url, c) ==
    /\ url.scheme = IF c.tls THEN "https" ELSE "http"
    /\ HostStr(url.host) = c.host
    /\ PortOrKnownDefault(url) = c.port
UrlMatchesCard(url, c) ==
    /\ url.scheme = IF c.tls THEN "wss" ELSE "ws"
    /\ HostStr(url.host) = c.host
    /\ PortOrKnownDefault(url) = c.port

==============================================================================
