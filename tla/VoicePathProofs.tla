--------------------------- MODULE VoicePathProofs ---------------------------
(***************************************************************************)
(* VoicePath keeps its promises for every window width, every range of     *)
(* sequence numbers, every number of sessions and whatever the server      *)
(* answers.  The replay window comes first, as a specification of its own: *)
(* handle_inbound takes its step Record, and the same invariant is a part  *)
(* of VoicePath's.                                                         *)
(***************************************************************************)
EXTENDS VoicePath, TLAPS

------------------------------------------------------------------------------
(***************************************************************************)
(* The replay window: the invariant of ReplayWindow, kept by each of its   *)
(* steps.                                                                  *)
(***************************************************************************)

\* The distance from a recorded sequence to the high-water mark is d.
RecordedAt(d) == \E s \in seen : s + d = high

\* Each word mirrors the history: bit b of word 0 stands for distance b, bit b
\* of word 1 for distance W + b.
BitsExact ==
    /\ \A s \in seen : s # 0 /\ s <= high
    /\ \A b \in 0..(W - 1) : b \in bits[0] <=> RecordedAt(b)
    /\ \A b \in 0..(W - 1) : b \in bits[1] <=> RecordedAt(W + b)

WindowInv == WindowTypeOK /\ BitsExact

\* Word and bit of an offset inside the window.
LEMMA WordOf ==
    ASSUME NEW o \in Nat, o < 2 * W
    PROVE  /\ o < W => o \div W = 0 /\ o % W = o
           /\ o >= W => o \div W = 1 /\ o % W = o - W
BY WidthAssumption DEF WidthAssumption

\* The bitmap read as a predicate on distances.
LEMMA DecidesAt ==
    ASSUME WindowInv, NEW s \in Nat
    PROVE  WouldAccept(s) <=> IsFresh(s)
<1> USE WidthAssumption DEF WidthAssumption, WindowInv, WindowTypeOK
<1>1. CASE s = 0 \/ s > high
  BY <1>1 DEF WouldAccept, IsFresh, BitsExact
<1>2. CASE s # 0 /\ s <= high
  <2> DEFINE o == high - s
  <2>1. o \in Nat /\ s + o = high
    BY <1>2
  <2>2. s \in seen <=> RecordedAt(o)
    BY <2>1 DEF RecordedAt
  <2>3. WouldAccept(s) <=> o < 2 * W /\ o % W \notin bits[o \div W]
    BY <1>2 DEF WouldAccept
  <2>4. CASE o >= 2 * W
    BY <1>2, <2>1, <2>3, <2>4 DEF IsFresh
  <2>5. CASE o < W
    <3>1. o \in 0..(W - 1) /\ o < 2 * W
      BY <2>1, <2>5
    <3>2. o \in bits[0] <=> s \in seen
      BY <2>2, <3>1 DEF BitsExact
    <3>3. o % W = o /\ o \div W = 0
      BY <2>1, <2>5, <3>1, WordOf
    <3>4. QED
      BY <1>2, <2>1, <2>3, <3>1, <3>2, <3>3 DEF IsFresh
  <2>6. CASE o >= W /\ o < 2 * W
    <3>1. o - W \in 0..(W - 1) /\ W + (o - W) = o
      BY <2>1, <2>6
    <3>2. o - W \in bits[1] <=> s \in seen
      BY <2>2, <3>1 DEF BitsExact
    <3>3. o % W = o - W /\ o \div W = 1
      BY <2>1, <2>6, WordOf
    <3>4. QED
      BY <1>2, <2>1, <2>3, <2>6, <3>2, <3>3 DEF IsFresh
  <2>7. QED
    BY <2>1, <2>4, <2>5, <2>6
<1>3. QED
  BY <1>1, <1>2

\* Setting one bit of one word.
LEMMA OneBit ==
    ASSUME NEW f \in [{0, 1} -> Word], NEW w \in {0, 1}, NEW b \in 0..(W - 1),
           NEW g, g = [f EXCEPT ![w] = @ \cup {b}]
    PROVE  /\ g \in [{0, 1} -> Word]
           /\ g[w] = f[w] \cup {b}
           /\ \A v \in {0, 1} : v # w => g[v] = f[v]
BY DEF Word

\* accept keeps the bitmap a mirror of the history.
LEMMA WindowStep ==
    ASSUME WindowInv, NEW s \in 0..MaxSequence, Record(s)
    PROVE  WindowInv'
<1> USE WidthAssumption DEF WidthAssumption, WindowInv, WindowTypeOK
<1>1. s \in Nat /\ s # 0 /\ s \notin seen /\ seen' = seen \cup {s}
  BY DecidesAt DEF Record, IsFresh
<1>2. \A e \in seen : e \in Nat /\ e # 0 /\ e <= high
  BY DEF BitsExact
<1>3. CASE s > high
  <2> DEFINE n == s - high
             moved == IF n >= 2 * W THEN [w \in {0, 1} |-> {}] ELSE ShiftLeft(n)
  <2>1. /\ n \in Nat /\ n > 0 /\ high + n = s
        /\ high' = s /\ bits' = [moved EXCEPT ![0] = @ \cup {0}]
    BY <1>1, <1>3 DEF Record, Accept, Advance
  <2>2. moved \in [{0, 1} -> Word]
    BY DEF ShiftLeft, ShiftUp, ShiftDown, Word
  <2>3. bits' \in [{0, 1} -> Word]
        /\ bits'[0] = moved[0] \cup {0} /\ bits'[1] = moved[1]
    <3>1. 0 \in 0..(W - 1)
      OBVIOUS
    <3> HIDE DEF moved
    <3>2. QED
      BY <2>1, <2>2, <3>1 DEF Word
  <2>4. \A d \in Nat : RecordedAt(d)' <=> d = 0 \/ (d >= n /\ RecordedAt(d - n))
    BY <1>1, <1>2, <2>1 DEF RecordedAt
  <2>5. \A b \in 0..(W - 1) : b \in moved[0] <=> b >= n /\ RecordedAt(b - n)
    <3>1. CASE n < W
      <4>1. moved[0] = ShiftUp(bits[0], n)
        BY <2>1, <3>1 DEF ShiftLeft
      <4>2. \A b \in 0..(W - 1) : b >= n => b - n \in 0..(W - 1)
        BY <2>1
      <4>3. QED
        BY <4>1, <4>2 DEF ShiftUp, BitsExact
    <3>2. CASE n >= W
      <4>1. moved[0] = {}
        BY <3>2, <2>1 DEF ShiftLeft
      <4>2. QED
        BY <2>1, <3>2, <4>1
    <3>3. QED
      BY <2>1, <3>1, <3>2
  <2>6. \A b \in 0..(W - 1) :
           b \in moved[1] <=> W + b >= n /\ RecordedAt(W + b - n)
    <3>1. CASE n < W
      <4>1. moved[1] = ShiftUp(bits[1], n) \cup ShiftDown(bits[0], W - n)
        BY <2>1, <3>1 DEF ShiftLeft
      <4>2. TAKE b \in 0..(W - 1)
      <4>3. CASE b >= n
        <5>1. b - n \in 0..(W - 1) /\ W + (b - n) = W + b - n /\ b + (W - n) \notin 0..(W - 1)
          BY <2>1, <3>1, <4>3
        <5>2. b + (W - n) \notin bits[0]
          BY <5>1 DEF Word
        <5>3. b \in moved[1] <=> b - n \in bits[1]
          BY <4>1, <4>3, <5>2 DEF ShiftUp, ShiftDown
        <5>4. b - n \in bits[1] <=> RecordedAt(W + b - n)
          BY <5>1 DEF BitsExact
        <5>5. QED
          BY <2>1, <4>3, <5>3, <5>4
      <4>4. CASE b < n
        <5>1. b + (W - n) \in 0..(W - 1) /\ b + (W - n) = W + b - n /\ W + b >= n
          BY <2>1, <3>1, <4>4
        <5>2. b \in moved[1] <=> b + (W - n) \in bits[0]
          BY <2>1, <4>1, <4>4 DEF ShiftUp, ShiftDown
        <5>3. QED
          BY <5>1, <5>2 DEF BitsExact
      <4>5. QED
        BY <2>1, <4>3, <4>4
    <3>2. CASE n >= W /\ n < 2 * W
      <4>1. moved[1] = ShiftUp(bits[0], n - W)
        BY <2>1, <3>2 DEF ShiftLeft
      <4>2. \A b \in 0..(W - 1) :
               /\ b >= n - W <=> W + b >= n
               /\ b >= n - W => b - (n - W) \in 0..(W - 1)
               /\ b - (n - W) = W + b - n
        BY <2>1, <3>2
      <4>3. QED
        BY <2>1, <4>1, <4>2 DEF ShiftUp, BitsExact
    <3>3. CASE n >= 2 * W
      BY <2>1, <3>3
    <3>4. QED
      BY <2>1, <3>1, <3>2, <3>3
  <2>7. \A b \in 0..(W - 1) : b \in bits'[0] <=> RecordedAt(b)'
    BY <2>3, <2>4, <2>5
  <2>8. \A b \in 0..(W - 1) : b \in bits'[1] <=> RecordedAt(W + b)'
    <3>1. \A b \in 0..(W - 1) : W + b \in Nat /\ W + b # 0
      OBVIOUS
    <3>2. QED
      BY <2>3, <2>4, <2>6, <3>1
  <2>9. QED
    BY <1>1, <1>2, <2>1, <2>3, <2>7, <2>8 DEF BitsExact
<1>4. CASE s <= high
  <2> DEFINE o == high - s
  <2>1. /\ o \in Nat /\ s + o = high /\ o < 2 * W /\ high' = high
        /\ bits' = [bits EXCEPT ![o \div W] = @ \cup {o % W}]
    BY <1>1, <1>4 DEF Record, Accept, MarkLate, WouldAccept
  <2>5. PICK w, b : /\ w = o \div W /\ b = o % W
                    /\ bits' = [bits EXCEPT ![w] = @ \cup {b}]
    BY <2>1, Zenon
  <2>2. \A d \in Nat : RecordedAt(d)' <=> RecordedAt(d) \/ d = o
    BY <1>1, <1>2, <2>1 DEF RecordedAt
  <2>3. CASE o < W
    <3>0. w = 0 /\ b = o
      BY <2>1, <2>5, <2>3, WordOf
    <3>1. o \in 0..(W - 1)
      BY <2>1, <2>3
    <3>2. bits' \in [{0, 1} -> Word] /\ bits'[0] = bits[0] \cup {o} /\ bits'[1] = bits[1]
      <4>1. w \in {0, 1} /\ b \in 0..(W - 1) /\ bits \in [{0, 1} -> Word]
        BY <3>0, <3>1
      <4>2. /\ bits' \in [{0, 1} -> Word]
            /\ bits'[w] = bits[w] \cup {b}
            /\ \A v \in {0, 1} : v # w => bits'[v] = bits[v]
        BY <2>5, <4>1, OneBit, Zenon
      <4>3. QED
        BY <3>0, <4>2
    <3>3. \A i \in 0..(W - 1) : i \in Nat /\ W + i \in Nat /\ W + i # o
      BY <2>1, <2>3
    <3>4. QED
      BY <1>1, <1>2, <1>4, <2>1, <2>2, <3>2, <3>3 DEF BitsExact
  <2>4. CASE o >= W
    <3>0. w = 1 /\ b = o - W
      BY <2>1, <2>5, <2>4, WordOf
    <3>1. o - W \in 0..(W - 1)
      BY <2>1, <2>4
    <3>2. /\ bits' \in [{0, 1} -> Word]
          /\ bits'[0] = bits[0] /\ bits'[1] = bits[1] \cup {o - W}
      <4>1. w \in {0, 1} /\ b \in 0..(W - 1) /\ bits \in [{0, 1} -> Word]
        BY <3>0, <3>1
      <4>2. /\ bits' \in [{0, 1} -> Word]
            /\ bits'[w] = bits[w] \cup {b}
            /\ \A v \in {0, 1} : v # w => bits'[v] = bits[v]
        BY <2>5, <4>1, OneBit, Zenon
      <4>3. QED
        BY <3>0, <4>2
    <3>3. \A i \in 0..(W - 1) : /\ i \in Nat /\ W + i \in Nat /\ i # o
                                /\ W + i = o <=> i = o - W
      BY <2>1, <2>4
    <3>4. QED
      BY <1>1, <1>2, <1>4, <2>1, <2>2, <3>2, <3>3 DEF BitsExact
  <2>6. QED
    BY <2>1, <2>3, <2>4
<1>5. QED
  BY <1>1, <1>3, <1>4

\* The invariant holds throughout.
LEMMA WindowInvariance == WindowSpec => []WindowInv
<1>1. NewWindow => WindowInv
  BY WidthAssumption DEF WidthAssumption, NewWindow, WindowInv, WindowTypeOK, BitsExact,
     RecordedAt, Word
<1>2. WindowInv /\ [WindowNext]_window => WindowInv'
  <2> SUFFICES ASSUME WindowInv, [WindowNext]_window PROVE WindowInv'
    OBVIOUS
  <2>1. CASE WindowNext
    BY <2>1, WindowStep DEF WindowNext
  <2>2. CASE UNCHANGED window
    BY <2>2 DEF window, WindowInv, WindowTypeOK, BitsExact, RecordedAt
  <2>3. QED
    BY <2>1, <2>2
<1>3. QED
  BY <1>1, <1>2, PTL DEF WindowSpec

\* Both words stay words of W bits, and the high-water mark a sequence.
THEOREM WindowTyped == WindowSpec => []WindowTypeOK
<1>1. WindowInv => WindowTypeOK
  BY DEF WindowInv
<1>2. QED
  BY <1>1, WindowInvariance, PTL

\* would_accept is exact for every word width: it lets in a sequence precisely
\* when it is non-zero, unrecorded and inside the window.
THEOREM WindowIsExact == WindowSpec => []WindowExact
<1>1. WindowInv => WindowExact
  BY DecidesAt DEF WindowExact
<1>2. QED
  BY <1>1, WindowInvariance, PTL

------------------------------------------------------------------------------
(***************************************************************************)
(* The inductive invariant.                                                *)
(***************************************************************************)

\* What can be on the network, damaged or not.
Bodies == [stream : {0, 1}, flags : {0, 1}, speaker : {0, 7}, len : Nat,
           text : {"", "mine", "theirs", "noise", "reason"}]
Seals == {NoSeal} \cup [key : Nat, dir : {"c2s", "s2c"}, id : Nat, seq : Nat,
                        body : Bodies]
Datagrams == [outer : BOOLEAN, id : Nat, seq : 0..MaxSequence, body : Bodies,
              seal : Seals, size : Nat]

Codecs == {FromConfig(a, m, n, k) : a \in Answers, m \in Metadatas, n \in Nat, k \in Nat}

\* The terms of session n, as negotiated.
Negotiated(codec, n) ==
    /\ codec.id = n /\ codec.encrypted \in BOOLEAN
    /\ codec.maxPayload \in 1..MaxPayload(codec.encrypted)
    /\ codec.key = IF codec.encrypted THEN n ELSE 0
    /\ HEARTBEAT_STREAM_TYPE \notin codec.streams

Typed ==
    /\ tls \in BOOLEAN
    /\ nextSeq \in 1..MaxSequence /\ serverSeq \in 1..MaxSequence
    /\ net \in SUBSET Datagrams /\ delivered \in Seq(Datagrams)

\* Both ends of a session have the same codec.
Sessions ==
    /\ peers \in Seq(Codecs)
    /\ \A n \in 1..Len(peers) : Negotiated(peers[n], n)
    /\ Running => session.id \in 1..Len(peers) /\ session = peers[session.id]
    /\ Len(peers) = 0 => net = {}

\* A datagram as it was sent: its seal, if any, covers what its fields say.
Intact(d) ==
    /\ d.outer /\ d.seq \in 1..(MaxSequence - 1)
    /\ d.body.flags = 0 /\ d.body.text # "noise"
    /\ d.size \in (OUTER_HEADER_SIZE + CHANNEL_HEADER_SIZE)..MAX_PACKET_SIZE
    /\ d.seal # NoSeal => d.seal.id = d.id /\ d.seal.seq = d.seq /\ d.seal.body = d.body

\* What the worker handed over, the window has recorded.
Recorded == \A i \in DOMAIN delivered : delivered[i].seq \in seen

Wire == \A d \in net : Intact(d)

IndInv ==
    /\ Typed /\ Sessions /\ Wire /\ WindowInv /\ Recorded
    /\ AuthenticOnce /\ WindowHonest /\ ChecksAgree /\ KeyDiesWithSession

------------------------------------------------------------------------------
(***************************************************************************)
(* Negotiation.                                                            *)
(***************************************************************************)

\* What HTTP accepts, the configuration accepts.
LEMMA Agreement ==
    ASSUME NEW a, NEW m, ValidateMetadata(m), ValidateVoiceJoin(a)
    PROVE  DecodesKey(a) /\ ValidConfig(a, m)
<1>1. DecodesKey(a)
  BY DEF ValidateVoiceJoin, DecodesKey
<1>2. a.encrypted \/ a.key = "absent"
  BY DEF ValidateVoiceJoin
<1>3. HEARTBEAT_STREAM_TYPE \notin {m.streams[i] : i \in DOMAIN m.streams}
  BY DEF ValidateMetadata
<1>4. QED
  BY <1>1, <1>2, <1>3 DEF ValidateMetadata, ValidateVoiceJoin, ValidConfig

\* A configuration that is accepted makes the codec of a negotiated session.
LEMMA Configured ==
    ASSUME NEW a \in Answers, NEW m \in Metadatas, NEW n \in Nat, ValidConfig(a, m)
    PROVE  LET c == FromConfig(a, m, n, IF a.encrypted THEN n ELSE 0)
           IN  c \in Codecs /\ Negotiated(c, n)
<1> DEFINE k == IF a.encrypted THEN n ELSE 0
           c == FromConfig(a, m, n, k)
<1>1. k \in Nat /\ a.encrypted \in BOOLEAN
  BY PathAssumption DEF PathAssumption
<1>2. c \in Codecs
  BY <1>1 DEF Codecs
<1>3. /\ c.id = n /\ c.encrypted = a.encrypted /\ c.maxPayload = a.maxPayload
      /\ c.key = k /\ c.streams = {m.streams[i] : i \in DOMAIN m.streams}
  BY DEF FromConfig
<1>4. Negotiated(c, n)
  BY <1>1, <1>3 DEF Negotiated, ValidConfig
<1>5. QED
  BY <1>2, <1>4

------------------------------------------------------------------------------
(***************************************************************************)
(* The codec.                                                              *)
(***************************************************************************)

\* What encode_body produces for a negotiated codec.
LEMMA Encoded ==
    ASSUME NEW c, NEW n \in Nat \ {0}, Negotiated(c, n), NEW s \in 1..(MaxSequence - 1),
           NEW b \in Bodies, b.len <= c.maxPayload, b.flags = 0, b.text # "noise",
           NEW dir \in {"c2s", "s2c"}
    PROVE  LET d == EncodeBody(c, s, b, dir)
           IN  ~Failed(d) /\ d \in Datagrams /\ Intact(d)
<1> DEFINE d == EncodeBody(c, s, b, dir)
           size == OUTER_HEADER_SIZE + CHANNEL_HEADER_SIZE + b.len
                     + (IF c.encrypted THEN TAG_SIZE ELSE 0)
           seal == IF c.encrypted
                     THEN [key |-> c.key, dir |-> dir, id |-> c.id, seq |-> s, body |-> b]
                     ELSE NoSeal
<1>1. b.len \in Nat /\ s \in 0..MaxSequence /\ s # 0 /\ s \in Nat
  <2>1. b.len \in Nat
    BY DEF Bodies
  <2>2. MaxSequence \in Nat
    BY PathAssumption DEF PathAssumption
  <2>3. QED
    BY <2>1, <2>2
<1>2. size \in (OUTER_HEADER_SIZE + CHANNEL_HEADER_SIZE)..MAX_PACKET_SIZE
  BY SMTT(40), <1>1 DEF Negotiated, MaxPayload, OUTER_HEADER_SIZE, CHANNEL_HEADER_SIZE, TAG_SIZE,
     MAX_PACKET_SIZE
<1>3. size \in Nat /\ ~(size > MAX_PACKET_SIZE)
  BY SMTT(40), <1>2 DEF OUTER_HEADER_SIZE, CHANNEL_HEADER_SIZE, MAX_PACKET_SIZE
<1>4. ~(c.encrypted /\ c.key = 0) /\ c.id = n /\ (c.encrypted => c.key = n)
  BY DEF Negotiated
<1> HIDE DEF size, seal
<1>5. d = [outer |-> TRUE, id |-> n, seq |-> s, body |-> b, seal |-> seal, size |-> size]
  BY <1>1, <1>3, <1>4 DEF EncodeBody, size, seal
<1>6. seal \in Seals /\ (seal # NoSeal => seal.id = n /\ seal.seq = s /\ seal.body = b)
  BY <1>1, <1>4 DEF Seals, seal
<1>7. d \in Datagrams
  BY <1>1, <1>3, <1>5, <1>6 DEF Datagrams
<1>8. Intact(d)
  BY <1>2, <1>5, <1>6 DEF Intact
<1>9. ~Failed(d)
  BY <1>5 DEF Failed
<1>10. QED
  BY <1>7, <1>8, <1>9

\* The bodies that are ever sent.
LEMMA BodiesSent ==
    /\ Heartbeat \in Bodies /\ Heartbeat.len = 0 /\ Heartbeat.flags = 0
    /\ Heartbeat.text # "noise"
    /\ Revocation \in Bodies /\ Revocation.len = 1 /\ Revocation.flags = 0
    /\ Revocation.text # "noise"
    /\ \A len \in Nat : /\ Body(1, 0, len, "mine") \in Bodies
                        /\ Body(1, 7, len, "theirs") \in Bodies
    /\ \A text : \A len \in Nat, speaker \in {0, 7} :
         LET b == Body(1, speaker, len, text)
         IN  b.len = len /\ b.text = text /\ b.flags = 0
BY DEF Heartbeat, Revocation, Body, Bodies, HEARTBEAT_STREAM_TYPE

\* What is damaged stays a datagram.
LEMMA DamagedTyped ==
    ASSUME NEW d \in Datagrams, NEW e \in {d} \cup Damaged(d)
    PROVE  e \in Datagrams
<1>1. d.body \in Bodies /\ d.id + 1 \in Nat /\ MaxSequence \in 0..MaxSequence
      /\ 0 \in 0..MaxSequence
  BY PathAssumption DEF Datagrams, PathAssumption
<1>2. [d.body EXCEPT !.flags = 1] \in Bodies /\ [d.body EXCEPT !.text = "noise"] \in Bodies
  BY <1>1 DEF Bodies
<1>3. [d EXCEPT !.outer = FALSE] \in Datagrams
  BY DEF Datagrams
<1>4. [d EXCEPT !.seq = 0] \in Datagrams /\ [d EXCEPT !.seq = MaxSequence] \in Datagrams
  BY <1>1 DEF Datagrams
<1>5. [d EXCEPT !.id = @ + 1] \in Datagrams
  BY <1>1 DEF Datagrams
<1>6. [d EXCEPT !.body.flags = 1] \in Datagrams
  BY <1>2 DEF Datagrams
<1>7. [d EXCEPT !.body.text = "noise"] \in Datagrams
  BY <1>2 DEF Datagrams
<1>8. [d EXCEPT !.size = OUTER_HEADER_SIZE] \in Datagrams
  BY DEF Datagrams, OUTER_HEADER_SIZE
<1>9. QED
  BY <1>3, <1>4, <1>5, <1>6, <1>7, <1>8 DEF Damaged

\* A session that is encrypted accepts no datagram but the one that was sent.
LEMMA OnlyIntact ==
    ASSUME NEW c, c.encrypted, NEW d \in Datagrams, Intact(d),
           NEW e \in {d} \cup Damaged(d), DecodeDirection(c, e, "s2c")
    PROVE  e = d /\ e.seal.dir = "s2c" /\ e.id = c.id
<1>1. /\ e.seal = [key |-> c.key, dir |-> "s2c", id |-> e.id, seq |-> e.seq,
                   body |-> e.body]
      /\ e.outer /\ e.id = c.id /\ e.seq # 0 /\ e.body.flags = 0
      /\ e.size \in (OUTER_HEADER_SIZE + CHANNEL_HEADER_SIZE)..MAX_PACKET_SIZE
  BY DEF DecodeDirection, Opens
<1>2. e.seal = d.seal
  BY DEF Damaged, Datagrams
<1>3. e.seal.dir = "s2c" /\ e.seal.id = e.id /\ e.seal.seq = e.seq /\ e.seal.body = e.body
  BY <1>1
<1>4. NoSeal.dir = "none"
  BY DEF NoSeal
<1>5. e.id = d.id /\ e.seq = d.seq /\ e.body = d.body
  BY <1>2, <1>3, <1>4 DEF Intact
<1>6. ASSUME e # d PROVE FALSE
  <2>1. CASE e = [d EXCEPT !.outer = FALSE]
    BY <2>1, <1>1 DEF Datagrams
  <2>2. CASE e = [d EXCEPT !.seq = 0]
    BY <2>2, <1>1 DEF Datagrams
  <2>3. CASE e = [d EXCEPT !.seq = MaxSequence]
    <3>1. e.seq = MaxSequence
      BY <2>3 DEF Datagrams
    <3>2. d.seq \in 1..(MaxSequence - 1) /\ MaxSequence \in Nat
      BY PathAssumption DEF Intact, PathAssumption
    <3>3. QED
      BY <3>1, <3>2, <1>5
  <2>4. CASE e = [d EXCEPT !.id = @ + 1]
    <3>1. e.id = d.id + 1 /\ d.id \in Nat
      BY <2>4 DEF Datagrams
    <3>2. QED
      BY <3>1, <1>5
  <2>5. CASE e = [d EXCEPT !.body.flags = 1]
    <3>1. e.body = [d.body EXCEPT !.flags = 1] /\ d.body \in Bodies
      BY <2>5 DEF Datagrams
    <3>2. e.body.flags = 1
      BY <3>1 DEF Bodies
    <3>3. QED
      BY <3>2, <1>1
  <2>6. CASE e = [d EXCEPT !.body.text = "noise"]
    <3>1. e.body.text = "noise"
      BY <2>6 DEF Datagrams, Bodies
    <3>2. QED
      BY <3>1, <1>5 DEF Intact
  <2>7. CASE e = [d EXCEPT !.size = OUTER_HEADER_SIZE]
    BY <2>7, <1>1 DEF Datagrams, OUTER_HEADER_SIZE, CHANNEL_HEADER_SIZE
  <2>8. QED
    BY <1>6, <2>1, <2>2, <2>3, <2>4, <2>5, <2>6, <2>7 DEF Damaged
<1>7. QED
  BY <1>1, <1>3, <1>6

\* Both ends of a negotiated session understand each other.
LEMMA Understood ==
    ASSUME NEW c, NEW n \in Nat \ {0}, Negotiated(c, n), NEW len \in Nat,
           NEW stream, ValidateMedia(c, stream, len),
           NEW speaker \in {0, 7}, NEW dir \in {"c2s", "s2c"},
           speaker = 0 <=> dir = "c2s"
    PROVE  LET d == EncodeMedia(c, 1, stream, speaker, len, "", dir)
           IN  ~Failed(d) /\ DecodeDirection(c, d, dir)
<1> DEFINE b == Body(stream, speaker, len, "")
           d == EncodeMedia(c, 1, stream, speaker, len, "", dir)
           size == OUTER_HEADER_SIZE + CHANNEL_HEADER_SIZE + len
                     + (IF c.encrypted THEN TAG_SIZE ELSE 0)
           seal == IF c.encrypted
                     THEN [key |-> c.key, dir |-> dir, id |-> c.id, seq |-> 1, body |-> b]
                     ELSE NoSeal
<1>1. /\ b.stream = stream /\ b.speaker = speaker /\ b.len = len /\ b.flags = 0
      /\ len <= c.maxPayload /\ stream # HEARTBEAT_STREAM_TYPE /\ stream \in c.streams
  <2>1. b.stream = stream /\ b.speaker = speaker /\ b.len = len /\ b.flags = 0
    BY DEF Body
  <2>2. QED
    BY <2>1 DEF ValidateMedia
<1> HIDE DEF b
<1>2. /\ size \in (OUTER_HEADER_SIZE + CHANNEL_HEADER_SIZE)..MAX_PACKET_SIZE
      /\ c.encrypted => size >= OUTER_HEADER_SIZE + CHANNEL_HEADER_SIZE + TAG_SIZE
  BY <1>1 DEF Negotiated, MaxPayload, OUTER_HEADER_SIZE, CHANNEL_HEADER_SIZE, TAG_SIZE,
     MAX_PACKET_SIZE
<1>3. ~(size > MAX_PACKET_SIZE)
  BY <1>2 DEF OUTER_HEADER_SIZE, CHANNEL_HEADER_SIZE, MAX_PACKET_SIZE
<1>4. (c.encrypted => c.key # 0) /\ c.id = n
  BY DEF Negotiated
<1> HIDE DEF size, seal
<1>5. d = [outer |-> TRUE, id |-> c.id, seq |-> 1, body |-> b, seal |-> seal, size |-> size]
  <2>1. d = EncodeBody(c, 1, b, dir)
    BY DEF EncodeMedia, b
  <2> HIDE DEF d
  <2>2. QED
    BY <1>1, <1>3, <1>4, <2>1 DEF EncodeBody, size, seal
<1> HIDE DEF d
<1>6. ~Failed(d)
  BY <1>5 DEF Failed
<1>7. /\ d.outer /\ d.id = c.id /\ d.seq = 1 /\ d.body = b /\ d.seal = seal
      /\ d.size = size
  BY <1>5
<1>8. c.encrypted => Opens(c, d, dir)
  BY <1>7 DEF Opens, seal
<1>9. DecodeDirection(c, d, dir)
  BY <1>1, <1>2, <1>4, <1>7, <1>8 DEF DecodeDirection
<1>10. QED
  BY <1>6, <1>9 DEF d

\* That is what NegotiatedMediaFits says of the running session.
LEMMA Fits ==
    ASSUME Sessions
    PROVE  NegotiatedMediaFits
<1> SUFFICES ASSUME Running, NEW stream \in session.streams,
                    NEW len \in Lengths(session), ValidateMedia(session, stream, len)
             PROVE  LET peer == peers[session.id]
                        up == EncodeMedia(session, 1, stream, 0, len, "", "c2s")
                        down == EncodeMedia(peer, 1, stream, 7, len, "", "s2c")
                    IN  /\ ~Failed(up) /\ DecodeDirection(peer, up, "c2s")
                        /\ ~Failed(down) /\ DecodeDirection(session, down, "s2c")
  BY DEF NegotiatedMediaFits
<1>1. /\ session = peers[session.id] /\ session.id \in Nat \ {0}
      /\ Negotiated(session, session.id)
  BY DEF Sessions
<1>2. len \in Nat
  BY <1>1 DEF Lengths, Negotiated
<1>3. LET up == EncodeMedia(session, 1, stream, 0, len, "", "c2s")
      IN  ~Failed(up) /\ DecodeDirection(session, up, "c2s")
  BY <1>1, <1>2, Understood
<1>4. LET down == EncodeMedia(session, 1, stream, 7, len, "", "s2c")
      IN  ~Failed(down) /\ DecodeDirection(session, down, "s2c")
  <2>1. 7 = 0 <=> "s2c" = "c2s"
    OBVIOUS
  <2>2. QED
    BY <1>1, <1>2, <2>1, Understood
<1>5. QED
  BY <1>1, <1>3, <1>4

------------------------------------------------------------------------------
(***************************************************************************)
(* The invariant is preserved.                                             *)
(***************************************************************************)

\* An empty window mirrors an empty history.
LEMMA EmptyWindow == NewWindow => WindowInv
BY PathAssumption DEF PathAssumption, NewWindow, WindowInv,
   WindowTypeOK, BitsExact, RecordedAt, Word

\* The invariant holds initially.
LEMMA Initially == Init => IndInv
<1> SUFFICES ASSUME Init PROVE IndInv
  OBVIOUS
<1>1. Typed
  BY PathAssumption DEF Init, Typed, PathAssumption
<1>2. Sessions /\ Wire
  BY DEF Init, Sessions, Wire, Running
<1>3. WindowInv
  BY EmptyWindow DEF Init
<1>4. Recorded /\ AuthenticOnce /\ WindowHonest /\ ChecksAgree /\ KeyDiesWithSession
  BY DEF Init, Recorded, AuthenticOnce, WindowHonest, ChecksAgree, KeyDiesWithSession,
     Running
<1>5. QED
  BY <1>1, <1>2, <1>3, <1>4 DEF IndInv

\* A step that leaves the worker, its window and what it handed over alone.
LEMMA WorkerIdle ==
    ASSUME IndInv, UNCHANGED <<session, window, delivered>>, net \subseteq net'
    PROVE  WindowInv' /\ Recorded' /\ AuthenticOnce' /\ WindowHonest'
<1>1. WindowInv'
  BY DEF IndInv, window, WindowInv, WindowTypeOK,
     BitsExact, RecordedAt, Word
<1>2. Recorded' /\ WindowHonest'
  BY DEF IndInv, window, Recorded, WindowHonest, Running
<1>3. AuthenticOnce'
  BY DEF IndInv, AuthenticOnce, Running
<1>4. QED
  BY <1>1, <1>2, <1>3

\* send_media.
LEMMA SendsMedia ==
    ASSUME IndInv, SendMedia
    PROVE  IndInv'
<1> DEFINE b == Body(1, 0, session.maxPayload, "mine")
           d == EncodeMedia(session, nextSeq, 1, 0, session.maxPayload, "mine", "c2s")
<1>1. session.id \in Nat \ {0} /\ Negotiated(session, session.id)
  BY DEF IndInv, Sessions, SendMedia
<1>2. session.maxPayload \in Nat /\ session.maxPayload <= session.maxPayload
  BY <1>1 DEF Negotiated
<1>3. nextSeq \in 1..(MaxSequence - 1)
  BY PathAssumption DEF PathAssumption, IndInv, Typed, SendMedia
<1>4. ~Failed(d) => d \in Datagrams /\ Intact(d)
  <2>1. CASE ValidateMedia(session, 1, session.maxPayload)
    <3>1. b \in Bodies /\ b.len = session.maxPayload /\ b.flags = 0 /\ b.text = "mine"
      BY <1>2, BodiesSent
    <3>2. d = EncodeBody(session, nextSeq, b, "c2s")
      BY <2>1 DEF EncodeMedia
    <3> HIDE DEF b, d
    <3>3. QED
      BY <1>1, <1>2, <1>3, <3>1, <3>2, Encoded
  <2>2. CASE ~ValidateMedia(session, 1, session.maxPayload)
    <3>1. d = Error
      BY <2>2 DEF EncodeMedia
    <3>2. QED
      BY <3>1 DEF Failed, Error
  <2>3. QED
    BY <2>1, <2>2
<1>5. net' = (IF Failed(d) THEN net ELSE net \cup {d}) /\ nextSeq' = nextSeq + 1
      /\ UNCHANGED <<tls, cache, session, outcome, dropped, window, delivered, peers,
                     serverSeq>>
  BY DEF SendMedia
<1> HIDE DEF d
<1>6. Typed' /\ Wire' /\ net \subseteq net'
  BY <1>3, <1>4, <1>5, PathAssumption DEF IndInv, Typed, Wire, PathAssumption
<1>7. Sessions' /\ ChecksAgree' /\ KeyDiesWithSession'
  <2>1. Len(peers) # 0
    BY DEF SendMedia, IndInv, Sessions
  <2>2. QED
    BY <1>5, <2>1 DEF IndInv, Sessions, ChecksAgree, KeyDiesWithSession, Running
<1>8. QED
  BY <1>5, <1>6, <1>7, WorkerIdle DEF IndInv

\* The server sends on the last session it created.
LEMMA ServerSending ==
    ASSUME IndInv, ServerSends
    PROVE  IndInv'
<1> DEFINE peer == peers[Len(peers)]
           b == Body(1, 7, peer.maxPayload, "theirs")
<1>1. serverSeq \in 1..(MaxSequence - 1)
  BY PathAssumption DEF PathAssumption, IndInv, Typed, ServerSends
<1>2. PICK d \in {EncodeMedia(peer, serverSeq, 1, 7, peer.maxPayload, "theirs", "s2c"),
                  EncodeBody(peer, serverSeq, Heartbeat, "s2c"),
                  EncodeBody(peer, serverSeq, Revocation, "s2c")} :
             ~Failed(d) /\ net' = net \cup {d}
  BY DEF ServerSends
<1>3. /\ serverSeq' = serverSeq + 1
      /\ UNCHANGED <<tls, cache, session, outcome, dropped, nextSeq, window, delivered,
                     peers>>
  BY DEF ServerSends
<1>4. Len(peers) # 0
  BY DEF ServerSends, IndInv, Sessions
<1>5. Len(peers) \in Nat \ {0} /\ Negotiated(peer, Len(peers))
  BY <1>4 DEF IndInv, Sessions
<1>6. peer.maxPayload \in Nat /\ peer.maxPayload >= 1 /\ peer.maxPayload <= peer.maxPayload
  BY <1>5 DEF Negotiated
<1>7. d \in Datagrams /\ Intact(d)
  <2> HIDE DEF peer
  <2>1. CASE d = EncodeBody(peer, serverSeq, Heartbeat, "s2c")
    BY <2>1, <1>1, <1>5, <1>6, BodiesSent, Encoded
  <2>2. CASE d = EncodeBody(peer, serverSeq, Revocation, "s2c")
    BY <2>2, <1>1, <1>5, <1>6, BodiesSent, Encoded
  <2>3. CASE d = EncodeMedia(peer, serverSeq, 1, 7, peer.maxPayload, "theirs", "s2c")
    <3>1. d = EncodeBody(peer, serverSeq, b, "s2c")
      BY <2>3, <1>2 DEF EncodeMedia, Failed, Error
    <3>2. b \in Bodies /\ b.len = peer.maxPayload /\ b.flags = 0 /\ b.text = "theirs"
      BY <1>6, BodiesSent
    <3> HIDE DEF b
    <3>3. QED
      BY <3>1, <3>2, <1>1, <1>5, <1>6, Encoded
  <2>4. QED
    BY <1>2, <2>1, <2>2, <2>3
<1>8. Typed' /\ Wire' /\ net \subseteq net'
  BY <1>1, <1>2, <1>3, <1>7, PathAssumption DEF IndInv, Typed, Wire, PathAssumption
<1>9. Sessions' /\ ChecksAgree' /\ KeyDiesWithSession'
  BY <1>3, <1>4 DEF IndInv, Sessions, ChecksAgree, KeyDiesWithSession, Running
<1>10. QED
  BY <1>3, <1>8, <1>9, WorkerIdle DEF IndInv

\* The host closes the session: nothing is said of a worker that has ended, but
\* that it handed nothing over twice.
LEMMA Closes ==
    ASSUME IndInv, Close
    PROVE  IndInv'
<1> USE DEF Close, Finish
<1>1. ~Running' /\ NoSession.id = 0
  BY DEF Running, NoSession
<1>2. Typed' /\ Wire' /\ ChecksAgree'
  BY DEF IndInv, Typed, Wire, ChecksAgree
<1>3. Sessions'
  BY <1>1 DEF IndInv, Sessions
<1>4. WindowInv' /\ Recorded'
  BY DEF IndInv, window, WindowInv, WindowTypeOK,
     BitsExact, RecordedAt, Word, Recorded
<1>5. AuthenticOnce' /\ WindowHonest'
  BY <1>1 DEF IndInv, AuthenticOnce, WindowHonest
<1>6. KeyDiesWithSession'
  BY DEF IndInv, KeyDiesWithSession
<1>7. QED
  BY <1>2, <1>3, <1>4, <1>5, <1>6 DEF IndInv

\* handle_inbound.
LEMMA Receives ==
    ASSUME IndInv, NEW d \in net, NEW e \in {d} \cup Damaged(d), Inbound(e)
    PROVE  IndInv'
<1>1. d \in Datagrams /\ Intact(d)
  BY DEF IndInv, Typed, Wire
<1>2. e \in Datagrams
  BY <1>1, DamagedTyped
<1>3. e.seq \in 0..MaxSequence /\ e.seq \in Nat
  BY <1>2, PathAssumption DEF Datagrams, PathAssumption
<1>4. WindowInv /\ Running /\ DecodeDirection(session, e, "s2c")
      /\ UNCHANGED <<tls, outcome, dropped, nextSeq, peers, serverSeq, net>>
  BY DEF IndInv, Inbound
<1>5. Record(e.seq)
  BY DEF Inbound
<1>6. WindowInv'
  BY <1>3, <1>4, <1>5, WindowStep
<1>7. e.seq \notin seen /\ seen' = seen \cup {e.seq}
  <2>1. WouldAccept(e.seq) /\ seen' = seen \cup {e.seq}
    BY <1>5 DEF Record
  <2>2. IsFresh(e.seq)
    BY <2>1, <1>3, <1>4, DecidesAt
  <2>3. QED
    BY <2>1, <2>2 DEF IsFresh
<1>8. session.encrypted => e \in net /\ e.seal.dir = "s2c" /\ e.id = session.id
  BY <1>1, <1>4, OnlyIntact
<1>9. \/ delivered' = Append(delivered, e) /\ UNCHANGED <<session, cache>>
      \/ Finish /\ UNCHANGED delivered
      \/ UNCHANGED <<session, cache, delivered>>
  BY DEF Inbound
<1>10. delivered \in Seq(Datagrams)
  BY DEF IndInv, Typed
<1>11. Typed'
  BY SMTT(40), <1>2, <1>4, <1>9, <1>10 DEF IndInv, Typed
<1>12. Wire' /\ ChecksAgree'
  BY <1>4 DEF IndInv, Wire, ChecksAgree
<1>13. CASE Finish /\ UNCHANGED delivered
  <2>1. ~Running' /\ NoSession.id = 0
    BY <1>13 DEF Running, NoSession, Finish
  <2>2. Sessions' /\ KeyDiesWithSession'
    BY <1>4, <1>13, <2>1 DEF IndInv, Sessions, KeyDiesWithSession, Finish
  <2>3. Recorded' /\ AuthenticOnce' /\ WindowHonest'
    BY <1>7, <1>13, <2>1 DEF IndInv, Recorded, AuthenticOnce, WindowHonest
  <2>4. QED
    BY <1>6, <1>11, <1>12, <2>2, <2>3 DEF IndInv
<1>14. CASE UNCHANGED <<session, cache>>
  <2>1. Sessions' /\ KeyDiesWithSession'
    BY <1>4, <1>14 DEF IndInv, Sessions, KeyDiesWithSession, Running
  <2>2. WindowHonest'
    BY <1>4, <1>7, <1>8, <1>14 DEF IndInv, WindowHonest, Running
  <2>3. CASE UNCHANGED delivered
    <3>1. Recorded' /\ AuthenticOnce'
      BY <1>4, <1>7, <1>14, <2>3 DEF IndInv, Recorded, AuthenticOnce, Running
    <3>2. QED
      BY <1>6, <1>11, <1>12, <2>1, <2>2, <3>1 DEF IndInv
  <2>4. CASE delivered' = Append(delivered, e)
    <3>1. PICK n \in Nat : n = Len(delivered)
      BY <1>10
    <3>2. /\ DOMAIN delivered = 1..n /\ DOMAIN delivered' = 1..(n + 1)
          /\ \A i \in 1..n : delivered'[i] = delivered[i]
          /\ delivered'[n + 1] = e
      BY <1>10, <2>4, <3>1
    <3>3. \A i \in 1..n : delivered[i].seq \in seen
      BY <3>2 DEF IndInv, Recorded
    <3>4. \A i \in 1..(n + 1) : i \in 1..n \/ i = n + 1
      BY <3>1
    <3>5. Recorded'
      BY <1>7, <3>2, <3>3, <3>4 DEF Recorded
    <3>6. \A i, j \in DOMAIN delivered' : i # j => delivered'[i].seq # delivered'[j].seq
      BY <1>7, <3>2, <3>3, <3>4 DEF IndInv, AuthenticOnce
    <3>7. Running' /\ session'.encrypted =>
            \A i \in DOMAIN delivered' : /\ delivered'[i] \in net'
                                         /\ delivered'[i].seal.dir = "s2c"
                                         /\ delivered'[i].id = session'.id
      BY <1>4, <1>8, <1>14, <3>2, <3>4 DEF IndInv, AuthenticOnce, Running
    <3>8. AuthenticOnce'
      BY <3>6, <3>7 DEF AuthenticOnce
    <3>9. QED
      BY <1>6, <1>11, <1>12, <2>1, <2>2, <3>5, <3>8 DEF IndInv
  <2>5. QED
    BY <1>9, <1>13, <2>3, <2>4
<1>15. QED
  BY <1>9, <1>13, <1>14

\* join_voice: the codec of the worker is the one the server keeps.
LEMMA Joins ==
    ASSUME IndInv, Join
    PROVE  IndInv'
<1>1. PICK a \in Answers, m \in Metadatas :
         /\ a.created \/ /\ peers # <<>>
                         /\ FromConfig(a, m, Len(peers), peers[Len(peers)].key)
                              = peers[Len(peers)]
         /\ JoinVoice(a, m)
         /\ IF a.created /\ outcome' \in {"ok", "Dropped"}
              THEN /\ peers' = Append(peers, FromConfig(a, m, Len(peers) + 1,
                                   IF a.encrypted THEN Len(peers) + 1 ELSE 0))
                   /\ serverSeq' = 1
              ELSE UNCHANGED <<peers, serverSeq>>
  BY DEF Join
<1>2. UNCHANGED tls
  BY DEF Join
<1> DEFINE id == IF a.created THEN Len(peers) + 1 ELSE Len(peers)
           inline == IF a.encrypted /\ a.created THEN {id} ELSE {}
           key == IF a.encrypted THEN id ELSE 0
           c == FromConfig(a, m, id, key)
           heartbeat == EncodeBody(c, 1, Heartbeat, "c2s")
           failed == \E why \in {"Wire", "Endpoint", "KeyUnavailable", "Transport"} :
                       JoinFails(why) /\ cache' \subseteq cache
           startDropped == StartDropped(c) /\ cache' = cache \cup inline
           started == /\ StartWorker(c)
                      /\ cache' = (cache \ {session.id}) \cup {n \in {id} : a.encrypted}
                      /\ dropped' = dropped \ {id}
                      /\ outcome' = "ok"
<1>3. failed \/ (ValidConfig(a, m) /\ (startDropped \/ started))
  <2>1. ~(/\ ValidateMetadata(m) /\ ValidateVoiceJoin(a)
          /\ ~(DecodesKey(a) /\ ValidConfig(a, m)))
    BY Agreement
  <2>2. JoinVoice(a, m)
    BY <1>1
  <2>3. QED
    BY <2>1, <2>2 DEF JoinVoice
<1>4. CASE failed
  <2>1. PICK why \in {"Wire", "Endpoint", "KeyUnavailable", "Transport"} :
           JoinFails(why) /\ cache' \subseteq cache
    BY <1>4
  <2>2. /\ outcome' = why /\ cache' \subseteq cache
        /\ UNCHANGED <<session, dropped, nextSeq, window, delivered, net>>
    BY <2>1 DEF JoinFails
  <2>3. outcome' \notin {"ok", "Dropped", "Configuration"}
    BY <2>2
  <2>4. UNCHANGED <<peers, serverSeq>>
    BY <1>1, <2>3
  <2>5. Typed' /\ Sessions' /\ Wire' /\ ChecksAgree' /\ KeyDiesWithSession'
    BY <1>2, <2>2, <2>3, <2>4 DEF IndInv, Typed, Sessions, Wire, ChecksAgree,
       KeyDiesWithSession, Running
  <2>6. QED
    BY <2>2, <2>5, WorkerIdle DEF IndInv
<1>5. CASE ValidConfig(a, m) /\ (startDropped \/ started)
  <2>1. peers \in Seq(Codecs) /\ Len(peers) \in Nat
        /\ \A n \in 1..Len(peers) : Negotiated(peers[n], n)
    BY DEF IndInv, Sessions
  <2>2. id \in Nat \ {0}
    BY <1>1, <2>1
  <2>3. c \in Codecs /\ Negotiated(c, id)
    BY <1>5, <2>2, Configured
  <2>4. outcome' \in {"ok", "Dropped"}
    BY <1>5 DEF StartDropped
  <2>5. /\ peers' \in Seq(Codecs) /\ id \in 1..Len(peers') /\ peers'[id] = c
        /\ \A n \in 1..Len(peers) : n \in 1..Len(peers') /\ peers'[n] = peers[n]
        /\ \A n \in 1..Len(peers') : Negotiated(peers'[n], n)
        /\ serverSeq' \in 1..MaxSequence
    <3>1. CASE a.created
      <4>1. id = Len(peers) + 1 /\ peers' = Append(peers, c) /\ serverSeq' = 1
        BY <1>1, <2>4, <3>1
      <4> HIDE DEF c, id
      <4>2. /\ Len(peers') = id /\ peers'[id] = c /\ peers' \in Seq(Codecs)
            /\ \A n \in 1..Len(peers) : n \in 1..id /\ peers'[n] = peers[n]
            /\ \A n \in 1..id : n = id \/ n \in 1..Len(peers)
        BY <2>1, <2>2, <2>3, <4>1
      <4>3. QED
        BY <2>1, <2>2, <2>3, <4>1, <4>2, PathAssumption DEF PathAssumption
    <3>2. CASE ~a.created
      <4>1. id = Len(peers) /\ UNCHANGED <<peers, serverSeq>> /\ id \in 1..Len(peers)
        BY <1>1, <2>1, <2>2, <3>2
      <4>2. FromConfig(a, m, id, peers[id].key) = peers[id] /\ Negotiated(peers[id], id)
        BY <1>1, <2>1, <3>2, <4>1
      <4>3. peers[id].encrypted = a.encrypted
        BY <4>2 DEF FromConfig
      <4>4. peers[id].key = key
        BY <4>2, <4>3 DEF Negotiated
      <4>5. peers[id] = c
        BY <4>2, <4>4
      <4>6. QED
        BY <2>1, <4>1, <4>5 DEF IndInv, Typed
    <3>3. QED
      BY <3>1, <3>2
  <2>6. heartbeat \in Datagrams /\ Intact(heartbeat)
    <3>1. 1 \in 1..(MaxSequence - 1) /\ 0 <= c.maxPayload
      BY <2>3, PathAssumption DEF PathAssumption, Negotiated
    <3> HIDE DEF c, id
    <3>2. QED
      BY <2>2, <2>3, <3>1, BodiesSent, Encoded
  <2>7. c.id = id
    BY <2>3 DEF Negotiated
  <2> HIDE DEF id, c, heartbeat
  <2>8. CASE startDropped
    <3>1. /\ outcome' = "Dropped" /\ dropped' = dropped \cup {id}
          /\ net' = net \/ net' = net \cup {heartbeat}
          /\ UNCHANGED <<session, nextSeq, window, delivered>>
          /\ cache' \subseteq cache \cup {id}
      BY <2>7, <2>8 DEF StartDropped, heartbeat
    <3>2. Typed' /\ Wire' /\ net \subseteq net'
      BY <1>2, <2>5, <2>6, <3>1 DEF IndInv, Typed, Wire
    <3>3. Sessions'
      BY SMTT(40), <2>5, <3>1 DEF IndInv, Sessions, Running
    <3>4. ChecksAgree' /\ KeyDiesWithSession'
      BY <3>1 DEF IndInv, ChecksAgree, KeyDiesWithSession
    <3>5. QED
      BY <3>1, <3>2, <3>3, <3>4, WorkerIdle DEF IndInv
  <2>9. CASE started
    <3>1. /\ session' = c /\ nextSeq' = 2 /\ delivered' = <<>> /\ outcome' = "ok"
          /\ high' = 0 /\ bits' = [w \in {0, 1} |-> {}] /\ seen' = {}
          /\ net' = net \cup {heartbeat} /\ dropped' = dropped \ {id}
          /\ cache' \subseteq (cache \ {session.id}) \cup {id}
      BY <2>9 DEF StartWorker, heartbeat
    <3>2. Typed' /\ Wire'
      BY <1>2, <2>5, <2>6, <3>1, PathAssumption DEF IndInv, Typed, Wire, PathAssumption
    <3>3. Sessions'
      BY SMTT(40), <2>5, <2>7, <3>1 DEF IndInv, Sessions, Running
    <3>4. ChecksAgree' /\ KeyDiesWithSession'
      BY <2>7, <3>1 DEF IndInv, ChecksAgree, KeyDiesWithSession
    <3>5. WindowInv'
      BY <3>1, PathAssumption DEF PathAssumption, WindowInv,
         WindowTypeOK, BitsExact, RecordedAt,
         Word
    <3>6. Recorded' /\ AuthenticOnce' /\ WindowHonest'
      BY <3>1 DEF Recorded, AuthenticOnce, WindowHonest
    <3>7. QED
      BY <3>2, <3>3, <3>4, <3>5, <3>6 DEF IndInv
  <2>10. QED
    BY <1>5, <2>8, <2>9
<1>6. QED
  BY <1>3, <1>4, <1>5

\* Every step keeps the invariant.
LEMMA Step == IndInv /\ [Next]_vars => IndInv'
<1> SUFFICES ASSUME IndInv, [Next]_vars PROVE IndInv'
  OBVIOUS
<1>1. CASE UNCHANGED vars
  <2>1. UNCHANGED <<session, window, delivered>> /\ net \subseteq net'
    BY <1>1 DEF vars
  <2>2. Typed' /\ Sessions' /\ Wire' /\ ChecksAgree' /\ KeyDiesWithSession'
    BY <1>1 DEF vars, IndInv, Typed, Sessions, Wire, ChecksAgree, KeyDiesWithSession,
       Running
  <2>3. QED
    BY <2>1, <2>2, WorkerIdle DEF IndInv
<1>2. QED
  BY <1>1, Joins, Closes, SendsMedia, ServerSending, Receives DEF Next

\* The invariant holds of every behaviour.
LEMMA Invariance == Spec => []IndInv
BY Initially, Step, PTL DEF Spec

------------------------------------------------------------------------------
(***************************************************************************)
(* The theorems.                                                           *)
(***************************************************************************)

\* TypeOK: no sequence overflows and no datagram exceeds the packet size.
THEOREM TypeCorrect == Spec => []TypeOK
<1>1. IndInv => TypeOK
  <2> SUFFICES ASSUME IndInv PROVE TypeOK
    OBVIOUS
  <2>1. \A d \in net : ~Failed(d) /\ d.size <= MAX_PACKET_SIZE
    <3> SUFFICES ASSUME NEW d \in net PROVE ~Failed(d) /\ d.size <= MAX_PACKET_SIZE
      OBVIOUS
    <3>1. d \in Datagrams /\ Intact(d)
      BY DEF IndInv, Typed, Wire
    <3>2. ~Failed(d)
      BY <3>1 DEF Datagrams, Failed
    <3>3. d.size <= MAX_PACKET_SIZE
      BY SMTT(40), <3>1 DEF Intact, OUTER_HEADER_SIZE, CHANNEL_HEADER_SIZE, MAX_PACKET_SIZE
    <3>4. QED
      BY <3>2, <3>3
  <2>2. Running => session.id \in DOMAIN peers
    BY DEF IndInv, Sessions
  <2>3. WindowTypeOK
    BY DEF IndInv, WindowInv, WindowTypeOK
  <2>4. QED
    BY <2>1, <2>2, <2>3 DEF IndInv, Typed, TypeOK
<1>2. QED
  BY <1>1, Invariance, PTL

\* decode.rs, replay.rs: whatever the network does, each packet is handed over
\* at most once and, in an encrypted session, as the server sealed it.
THEOREM DeliveredOnceAuthentic == Spec => []AuthenticOnce
<1>1. IndInv => AuthenticOnce
  BY DEF IndInv
<1>2. QED
  BY <1>1, Invariance, PTL

\* decode.rs: only datagrams of the server move the window of an encrypted
\* session.
THEOREM WindowMovedByServerOnly == Spec => []WindowHonest
<1>1. IndInv => WindowHonest
  BY DEF IndInv
<1>2. QED
  BY <1>1, Invariance, PTL

\* channels/voice.rs, config.rs, codec.rs: the accepted terms always leave room
\* for the payloads they admit, at both ends.
THEOREM NegotiationSound == Spec => []NegotiatedMediaFits
<1>1. IndInv => NegotiatedMediaFits
  BY Fits DEF IndInv
<1>2. QED
  BY <1>1, Invariance, PTL

\* channels/voice.rs and config.rs: the configuration never refuses what HTTP
\* accepted.
THEOREM ConfigurationNeverRefuses == Spec => []ChecksAgree
<1>1. IndInv => ChecksAgree
  BY DEF IndInv
<1>2. QED
  BY <1>1, Invariance, PTL

\* worker.rs, finish: no key outlives its session, but for a dropped start.
THEOREM KeysDieWithSessions == Spec => []KeyDiesWithSession
<1>1. IndInv => KeyDiesWithSession
  BY DEF IndInv
<1>2. QED
  BY <1>1, Invariance, PTL

==============================================================================
