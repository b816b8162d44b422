------------------------------ MODULE VoicePath ------------------------------
(***************************************************************************)
(* The path of voice media: the join answer and the metadata as HTTP       *)
(* validates them (channels/voice.rs, discovery.rs), the session           *)
(* configuration and key cache made of them (config.rs, voice_api.rs), the *)
(* packet codec (codec.rs, decode.rs, crypto.rs) and handle_inbound with   *)
(* its replay window (worker.rs; the window is ReplayWindow's), over a     *)
(* network that loses, duplicates, reorders, misdelivers and damages       *)
(* datagrams.                                                              *)
(*                                                                         *)
(* A datagram keeps what its fields say and what its seal was computed     *)
(* over; opening compares the two (AES-GCM is external).  Sizes are the    *)
(* protocol's own.  The server is external: it creates a session or names  *)
(* the last one again, and runs the other end of the codec.                *)
(***************************************************************************)
EXTENDS ReplayWindow, Sequences, FiniteSets

CONSTANTS
    Answers, Metadatas,     \* what the server may answer
    MaxJoins                \* bound on sessions created and on workers

ASSUME PathAssumption ==
    /\ MaxJoins \in Nat /\ MaxSequence \in Nat \ {0, 1}
    /\ \A a \in Answers : a.encrypted \in BOOLEAN /\ a.created \in BOOLEAN

VARIABLES
    tls,            \* whether the server card is TLS
    cache,          \* SessionKeyCache: the sessions whose key it holds
    session,        \* codec of the running worker, or NoSession
    outcome,        \* of the last join
    workers,        \* workers started so far
    dropped,        \* history: sessions whose start the host dropped
    nextSeq,        \* transport_sequence of the worker
    delivered,      \* media this worker handed to the host, in order
    peers,          \* server: the codec of every session it created
    serverSeq,      \* server: next sequence of the session
    net             \* every datagram ever on the network

vars == <<tls, cache, session, outcome, workers, dropped, nextSeq, window,
          delivered, peers, serverSeq, net>>

------------------------------------------------------------------------------
(***************************************************************************)
(* Negotiation.                                                            *)
(***************************************************************************)

OUTER_HEADER_SIZE == 30
CHANNEL_HEADER_SIZE == 12
TAG_SIZE == 16
MAX_PACKET_SIZE == 1200
PROTOCOL_VERSION == 1
HEARTBEAT_STREAM_TYPE == 0

\* Mutant: the tag is forgotten.
MaxPayload_NoTag(encrypted) == MAX_PACKET_SIZE - OUTER_HEADER_SIZE - CHANNEL_HEADER_SIZE

\* max_payload
MaxPayload(encrypted) ==
    MAX_PACKET_SIZE - OUTER_HEADER_SIZE - CHANNEL_HEADER_SIZE
      - (IF encrypted THEN TAG_SIZE ELSE 0)

\* validate_metadata, with the version check before it.  Labels and codecs
\* count by whether they pass their grammar; of a host, its kind.
ValidateMetadata(m) ==
    /\ m.version = PROTOCOL_VERSION
    /\ m.host = "concrete" /\ m.port # 0
    /\ m.codecs # {} /\ "invalid" \notin m.codecs /\ "invalid" \notin m.labels
    /\ m.streams # <<>>
    /\ \A i, j \in DOMAIN m.streams : /\ m.streams[i] # HEARTBEAT_STREAM_TYPE
                                      /\ i # j => m.streams[i] # m.streams[j]

\* Mutant: the payload limit is checked against the plaintext ceiling.
ValidateVoiceJoin_PlainLimit(a) ==
    /\ a.channelMatches /\ a.mode = "voice" /\ a.version = PROTOCOL_VERSION
    /\ tls => a.encrypted
    /\ a.maxPayload \in 1..MaxPayload(FALSE)
    /\ a.expires > 0 /\ a.membersMatch
    /\ a.encrypted /\ a.created => a.key = "good"
    /\ ~(a.encrypted /\ a.created) => a.key = "absent"

\* validate_voice_join
ValidateVoiceJoin(a) ==
    /\ a.channelMatches /\ a.mode = "voice" /\ a.version = PROTOCOL_VERSION
    /\ tls => a.encrypted
    /\ a.maxPayload \in 1..MaxPayload(a.encrypted)
    /\ a.expires > 0 /\ a.membersMatch
    /\ a.encrypted /\ a.created => a.key = "good"
    /\ ~(a.encrypted /\ a.created) => a.key = "absent"

\* decode_session_key
DecodesKey(a) ==
    CASE a.encrypted /\ a.created -> a.key = "good"
      [] OTHER -> a.key = "absent"

\* validate_endpoint, new_with_protocol_version and with_stream_types.
ValidConfig(a, m) ==
    /\ m.host \notin {"blank", "wildcard"} /\ m.port # 0
    /\ a.version = PROTOCOL_VERSION
    /\ a.maxPayload \in 1..MaxPayload(a.encrypted) /\ a.expires > 0
    /\ a.encrypted \/ a.key = "absent"
    /\ m.streams # <<>>
    /\ HEARTBEAT_STREAM_TYPE \notin {m.streams[i] : i \in DOMAIN m.streams}

NoSession == [id |-> 0, encrypted |-> FALSE, maxPayload |-> 0, key |-> 0,
              streams |-> {}]

\* PacketCodec::from_config.  The key of session n is called n.
FromConfig(a, m, id, key) ==
    [id |-> id, encrypted |-> a.encrypted, maxPayload |-> a.maxPayload, key |-> key,
     streams |-> {m.streams[i] : i \in DOMAIN m.streams}]

------------------------------------------------------------------------------
(***************************************************************************)
(* The codec.                                                              *)
(***************************************************************************)

Body(stream, speaker, len, text) ==
    [stream |-> stream, flags |-> 0, speaker |-> speaker, len |-> len, text |-> text]

NoSeal == [key |-> 0, dir |-> "none"]
Error == [error |-> TRUE]
Failed(d) == "error" \in DOMAIN d

\* validate_media
ValidateMedia(codec, stream, len) ==
    /\ stream # HEARTBEAT_STREAM_TYPE /\ stream \in codec.streams
    /\ len <= codec.maxPayload

\* encode_body with seal and derive_direction_keys.
EncodeBody(codec, seq, body, dir) ==
    LET size == OUTER_HEADER_SIZE + CHANNEL_HEADER_SIZE + body.len
                  + (IF codec.encrypted THEN TAG_SIZE ELSE 0)
        seal == IF codec.encrypted
                  THEN [key |-> codec.key, dir |-> dir, id |-> codec.id,
                        seq |-> seq, body |-> body]
                  ELSE NoSeal
    IN  IF seq = 0 \/ (codec.encrypted /\ codec.key = 0) \/ size > MAX_PACKET_SIZE
          THEN Error
          ELSE [outer |-> TRUE, id |-> codec.id, seq |-> seq, body |-> body,
                seal |-> seal, size |-> size]

\* encode_media and encode_server_media; encode_heartbeat and
\* encode_revocation carry a body of stream type 0.
EncodeMedia(codec, seq, stream, speaker, len, text, dir) ==
    IF ValidateMedia(codec, stream, len)
      THEN EncodeBody(codec, seq, Body(stream, speaker, len, text), dir)
      ELSE Error

Heartbeat == Body(HEARTBEAT_STREAM_TYPE, 0, 0, "")
Revocation == Body(HEARTBEAT_STREAM_TYPE, 0, 1, "reason")

\* crypto::open: the seal covers the outer header and the body.
Opens(codec, d, dir) ==
    d.seal = [key |-> codec.key, dir |-> dir, id |-> d.id, seq |-> d.seq,
              body |-> d.body]

\* decode_direction
DecodeDirection(codec, d, dir) ==
    /\ d.size \in (OUTER_HEADER_SIZE + CHANNEL_HEADER_SIZE)..MAX_PACKET_SIZE
    /\ d.outer /\ d.id = codec.id /\ d.seq # 0
    /\ codec.encrypted =>
         /\ d.size >= OUTER_HEADER_SIZE + CHANNEL_HEADER_SIZE + TAG_SIZE
         /\ codec.key # 0 /\ Opens(codec, d, dir)
    /\ d.body.flags = 0
    /\ IF d.body.stream = HEARTBEAT_STREAM_TYPE
         THEN d.body.speaker = 0 /\ d.body.len <= IF dir = "c2s" THEN 0 ELSE 1
         ELSE /\ d.body.stream \in codec.streams
              /\ IF dir = "c2s" THEN d.body.speaker = 0 ELSE d.body.speaker # 0
              /\ d.body.len <= codec.maxPayload

------------------------------------------------------------------------------
(***************************************************************************)
(* Joining.                                                                *)
(***************************************************************************)

Init ==
    /\ tls \in BOOLEAN /\ cache = {} /\ session = NoSession /\ outcome = "none"
    /\ workers = 0 /\ dropped = {} /\ nextSeq = 1
    /\ NewWindow /\ delivered = <<>>
    /\ peers = <<>> /\ serverSeq = 1 /\ net = {}

Running == session # NoSession

\* Mutant: the key stays in the cache.
Finish_KeepsKey ==
    /\ session' = NoSession /\ UNCHANGED cache

\* finish: the key leaves the cache.
Finish ==
    /\ session' = NoSession /\ cache' = cache \ {session.id}

\* run: the sequence starts at 1, with the first heartbeat, and the window is
\* empty.
StartWorker(codec) ==
    /\ session' = codec /\ workers' = workers + 1 /\ nextSeq' = 2
    /\ high' = 0 /\ bits' = [w \in {0, 1} |-> {}] /\ seen' = {}
    /\ delivered' = <<>>
    /\ net' = net \cup {EncodeBody(codec, 1, Heartbeat, "c2s")}

JoinFails(why) ==
    /\ outcome' = why
    /\ UNCHANGED <<session, workers, dropped, nextSeq, window, delivered, net>>

\* StartupTaskGuard: the host drops join_voice while it starts the session.  The
\* worker is aborted, before or after its first heartbeat, and never finishes.
StartDropped(codec) ==
    /\ outcome' = "Dropped" /\ workers' = workers + 1
    /\ dropped' = dropped \cup {codec.id}
    /\ net' \in {net, net \cup {EncodeBody(codec, 1, Heartbeat, "c2s")}}
    /\ UNCHANGED <<session, nextSeq, window, delivered>>

\* join_voice from the answer on.  A new encrypted session brings its key,
\* which goes to the cache; a reused one takes it from there (resolve_key).
\* The socket may not connect, and the first heartbeat may fail, which drops
\* the key again.  The worker that is replaced removes the key as it ends, and
\* join_voice puts it back (its steps are Facade's matter).
JoinVoice(a, m) ==
    LET id == IF a.created THEN Len(peers) + 1 ELSE Len(peers)
        inline == IF a.encrypted /\ a.created THEN {id} ELSE {}
        key == IF a.encrypted THEN id ELSE 0
        http == ValidateMetadata(m) /\ ValidateVoiceJoin(a)
        config == DecodesKey(a) /\ ValidConfig(a, m)
    IN  \/ /\ ~http /\ JoinFails("Wire") /\ UNCHANGED cache
        \/ /\ http /\ ~config /\ JoinFails("Configuration") /\ UNCHANGED cache
        \/ /\ http /\ config /\ JoinFails("Endpoint") /\ UNCHANGED cache
        \/ /\ http /\ config
           /\ IF a.encrypted /\ id \notin cache \cup inline
                THEN JoinFails("KeyUnavailable") /\ UNCHANGED cache
                ELSE \/ JoinFails("Transport") /\ cache' = cache \ {id}
                     \/ /\ StartDropped(FromConfig(a, m, id, key))
                        /\ cache' = cache \cup inline
                     \/ /\ StartWorker(FromConfig(a, m, id, key))
                        /\ cache' = (cache \ {session.id}) \cup {n \in {id} : a.encrypted}
                        /\ dropped' = dropped \ {id}
                        /\ outcome' = "ok"

\* The server answers a join: it creates a session, or names the last one,
\* whose terms it keeps.  A session no worker was spawned for leaves no trace.
Join ==
    /\ workers < MaxJoins
    /\ \E a \in Answers, m \in Metadatas :
         /\ a.created \/ /\ peers # <<>>
                         /\ FromConfig(a, m, Len(peers), peers[Len(peers)].key)
                              = peers[Len(peers)]
         /\ JoinVoice(a, m)
         /\ IF a.created /\ outcome' \in {"ok", "Dropped"}
              THEN /\ peers' = Append(peers, FromConfig(a, m, Len(peers) + 1,
                                   IF a.encrypted THEN Len(peers) + 1 ELSE 0))
                   /\ serverSeq' = 1
              ELSE UNCHANGED <<peers, serverSeq>>
    /\ UNCHANGED tls

\* The host closes the session.
Close ==
    /\ Running /\ Finish
    /\ UNCHANGED <<tls, outcome, workers, dropped, nextSeq, window, delivered, peers,
                   serverSeq, net>>

------------------------------------------------------------------------------
(***************************************************************************)
(* Media.                                                                  *)
(***************************************************************************)

\* The lengths at which a check can go wrong.
Lengths(codec) == {0, 1, codec.maxPayload, codec.maxPayload + 1}

\* send_media: the sequence is reserved before the packet is encoded.
SendMedia ==
    /\ Running /\ nextSeq < MaxSequence
    /\ LET d == EncodeMedia(session, nextSeq, 1, 0, session.maxPayload, "mine", "c2s")
       IN  net' = IF Failed(d) THEN net ELSE net \cup {d}
    /\ nextSeq' = nextSeq + 1
    /\ UNCHANGED <<tls, cache, session, outcome, workers, dropped, window, delivered, peers,
                   serverSeq>>

\* The server knows where to send once a datagram of the session reached it.
Reaches(d) == DecodeDirection(peers[Len(peers)], d, "c2s")

\* The server relays media of speaker 7, answers a heartbeat, or revokes.
ServerSends ==
    /\ serverSeq < MaxSequence /\ \E d \in net : Reaches(d)
    /\ LET peer == peers[Len(peers)]
       IN  \E d \in {EncodeMedia(peer, serverSeq, 1, 7, peer.maxPayload, "theirs", "s2c"),
                     EncodeBody(peer, serverSeq, Heartbeat, "s2c"),
                     EncodeBody(peer, serverSeq, Revocation, "s2c")} :
             ~Failed(d) /\ net' = net \cup {d}
    /\ serverSeq' = serverSeq + 1
    /\ UNCHANGED <<tls, cache, session, outcome, workers, dropped, nextSeq, window, delivered,
                   peers>>

\* The network may damage a datagram: its fixed bytes, its sequence, its
\* session, its flags, its payload, or all but its first bytes.
Damaged(d) ==
    {[d EXCEPT !.outer = FALSE], [d EXCEPT !.seq = 0],
     [d EXCEPT !.seq = MaxSequence], [d EXCEPT !.id = @ + 1],
     [d EXCEPT !.body.flags = 1], [d EXCEPT !.body.text = "noise"],
     [d EXCEPT !.size = OUTER_HEADER_SIZE]}

\* Mutant: the window is consulted before the packet is authenticated.
Inbound_WindowFirst(d) ==
    /\ Running /\ WouldAccept(d.seq)
    /\ Record(d.seq)
    /\ IF DecodeDirection(session, d, "s2c") /\ d.body.stream # HEARTBEAT_STREAM_TYPE
         THEN delivered' = Append(delivered, d) ELSE UNCHANGED delivered
    /\ UNCHANGED <<session, cache, tls, outcome, workers, dropped, nextSeq, peers, serverSeq, net>>

\* Mutant: media is handed over without asking the window.
Inbound_NoWindow(d) ==
    /\ Running /\ DecodeDirection(session, d, "s2c")
    /\ seen' = seen \cup {d.seq}
    /\ delivered' = IF d.body.stream = HEARTBEAT_STREAM_TYPE
                      THEN delivered ELSE Append(delivered, d)
    /\ Len(delivered) < 4
    /\ UNCHANGED <<session, cache, tls, outcome, workers, dropped, nextSeq, high, bits, peers,
                   serverSeq, net>>

\* handle_inbound: whatever does not decode, or is a replay, changes nothing;
\* then a heartbeat is dropped, a revocation ends the worker, media is handed
\* to the host.
Inbound(d) ==
    /\ Running
    /\ DecodeDirection(session, d, "s2c") /\ WouldAccept(d.seq)
    /\ Record(d.seq)
    /\ CASE d.body.stream # HEARTBEAT_STREAM_TYPE ->
              delivered' = Append(delivered, d) /\ UNCHANGED <<session, cache>>
         [] d.body = Revocation -> Finish /\ UNCHANGED delivered
         [] OTHER -> UNCHANGED <<session, cache, delivered>>
    /\ UNCHANGED <<tls, outcome, workers, dropped, nextSeq, peers, serverSeq, net>>

Next ==
    \/ Join \/ Close \/ SendMedia \/ ServerSends
    \/ \E d \in net : \E e \in {d} \cup Damaged(d) : Inbound(e)

Spec == Init /\ [][Next]_vars

------------------------------------------------------------------------------
(***************************************************************************)
(* Properties.                                                             *)
(***************************************************************************)

\* Sequences stay below the last number, datagrams within MAX_PACKET_SIZE.
TypeOK ==
    /\ tls \in BOOLEAN /\ (Running => session.id \in DOMAIN peers)
    /\ nextSeq \in 1..MaxSequence /\ serverSeq \in 1..MaxSequence
    /\ WindowTypeOK
    /\ \A d \in net : ~Failed(d) /\ d.size <= MAX_PACKET_SIZE

\* decode.rs:74, replay.rs:4: whatever the network does to datagrams, a worker
\* hands over each packet at most once, and of an encrypted session only
\* packets the server sealed for this session and direction, unchanged.
AuthenticOnce ==
    /\ \A i, j \in DOMAIN delivered : i # j => delivered[i].seq # delivered[j].seq
    /\ Running /\ session.encrypted =>
         \A i \in DOMAIN delivered : /\ delivered[i] \in net
                                     /\ delivered[i].seal.dir = "s2c"
                                     /\ delivered[i].id = session.id

\* decode.rs:74: packets are authenticated before they are classified, so no
\* datagram but the server's own ever moves the window, which would shut out
\* media still to come.
WindowHonest ==
    Running /\ session.encrypted =>
        \A s \in seen : \E d \in net : /\ d.id = session.id /\ d.seq = s
                                       /\ d.seal.dir = "s2c"

\* Whatever terms the negotiation accepted, every payload validate_media admits
\* is encoded and decoded by the other end, at the limit too, both ways.
NegotiatedMediaFits ==
    Running =>
        \A stream \in session.streams, len \in Lengths(session) :
            ValidateMedia(session, stream, len) =>
              LET peer == peers[session.id]
                  up == EncodeMedia(session, 1, stream, 0, len, "", "c2s")
                  down == EncodeMedia(peer, 1, stream, 7, len, "", "s2c")
              IN  /\ ~Failed(up) /\ DecodeDirection(peer, up, "c2s")
                  /\ ~Failed(down) /\ DecodeDirection(session, down, "s2c")

\* HTTP and the voice crate check a join independently of each other: nothing
\* HTTP accepts is refused by the configuration, after the server has joined.
ChecksAgree == outcome # "Configuration"

\* worker.rs:367, finish: no key outlives the session it belongs to, through
\* replacement, reuse, revocation and failed starts; a start that is dropped is
\* the one way to leave a key behind, until the session is started again.
KeyDiesWithSession == cache \subseteq {session.id} \cup dropped

==============================================================================
