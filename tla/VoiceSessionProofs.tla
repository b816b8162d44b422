-------------------------- MODULE VoiceSessionProofs --------------------------
(***************************************************************************)
(* The voice worker, for any number of hosts, any queue capacity and any   *)
(* number space: what it writes is numbered as the server expects, and it  *)
(* is silent once a terminal status was published.                         *)
(***************************************************************************)
EXTENDS VoiceSession, TLAPS

\* The packet being written carries a number above those on the wire.  A media
\* write that a stop is about to cancel may have none of its own.
Reserved == worker = "heartbeat" \/ (worker = "sending" /\ ~stopChanged)

Numbering ==
    /\ \A i \in DOMAIN wire : wire[i].seq < nextSeq
    /\ worker = "joining" => wire = <<>>
    /\ Reserved => \A i \in DOMAIN wire : wire[i].seq < nextSeq - 1

\* channel_sequences holds the successor of the last media packet's number.
Channels ==
    /\ NoMediaIn(1..Len(wire)) => channelSeq = 0
    /\ \A i \in 1..Len(wire) :
         MediaAt(i) /\ NoMediaIn((i + 1)..Len(wire)) =>
           channelSeq = (wire[i].channel[1] + 1) % ChannelModulus

\* A terminal status is the last thing the worker publishes.
Terminal == IsTerminal(status) => worker \in {"drop", "stopped"}

IndInv == TypeOK /\ Numbering /\ Channels /\ WireOrdered /\ Terminal

------------------------------------------------------------------------------
\* A channel counter stays within its width.
LEMMA Modulo == \A n \in Nat : n % ChannelModulus \in 0..(ChannelModulus - 1)
BY SessionAssumption

\* The empty queue and the empty history have their types.
LEMMA Empties ==
    /\ \A S : <<>> \in Seq(S)
    /\ Len(<<>>) = 0 /\ 0 <= QueueCapacity
BY SessionAssumption

\* A packet is written.
LEMMA Writes ==
    ASSUME TypeOK, WireOrdered, Channels, NEW ch \in Seq(Nat), Write(ch),
           \A i \in DOMAIN wire : wire[i].seq < nextSeq - 1,
           \/ ch = <<>> /\ channelSeq' = channelSeq
           \/ ch = <<channelSeq>> /\ channelSeq' = (channelSeq + 1) % ChannelModulus,
           UNCHANGED nextSeq
    PROVE  /\ wire' \in Seq(Packets) /\ channelSeq' \in 0..(ChannelModulus - 1)
           /\ WireOrdered' /\ Channels'
           /\ \A i \in DOMAIN wire' : wire'[i].seq < nextSeq'
<1> DEFINE packet == [seq |-> nextSeq - 1, channel |-> ch]
<1>0. PICK n \in Nat : n = Len(wire)
  BY DEF TypeOK
<1>1. /\ n \in Nat /\ wire \in Seq(Packets) /\ DOMAIN wire = 1..n
      /\ nextSeq \in 2..MaxSequence /\ MaxSequence \in Nat
      /\ channelSeq \in 0..(ChannelModulus - 1) /\ ChannelModulus \in Nat \ {0}
  BY <1>0, SessionAssumption DEF TypeOK
<1>2. packet \in Packets
  BY <1>1 DEF Packets
<1>3. wire' \in Seq(Packets)
  BY <1>1, <1>2 DEF Write
<1>4. /\ Len(wire') = n + 1 /\ DOMAIN wire' = 1..(n + 1)
      /\ wire'[n + 1] = packet
      /\ \A i \in 1..n : wire'[i] = wire[i]
  BY <1>0, <1>1, <1>2 DEF Write
<1>5. /\ wire'[n + 1].seq = nextSeq - 1 /\ wire'[n + 1].channel = ch
  BY <1>4
<1> HIDE DEF packet
<1>6. channelSeq' \in 0..(ChannelModulus - 1)
  <2>1. channelSeq + 1 \in Nat
    BY <1>1
  <2>2. (channelSeq + 1) % ChannelModulus \in 0..(ChannelModulus - 1)
    BY <2>1, Modulo
  <2>3. QED
    BY <1>1, <2>2
<1>7. \A i \in 1..n : wire[i].seq \in Nat
  <2>1. \A i \in 1..n : wire[i] \in Packets
    BY <1>1
  <2>2. QED
    BY <2>1 DEF Packets
<1>8. \A i \in DOMAIN wire' : wire'[i].seq < nextSeq'
  BY <1>1, <1>4, <1>5, <1>7
<1>9. /\ \A i \in 1..n : MediaAt(i)' <=> MediaAt(i)
      /\ MediaAt(n + 1)' <=> ch # <<>>
  BY <1>4, <1>5 DEF MediaAt
<1>10. \A S : S \subseteq 1..n => (NoMediaIn(S)' <=> NoMediaIn(S))
  BY <1>9 DEF NoMediaIn
<1>11. Channels'
  <2>1. CASE ch = <<>> /\ channelSeq' = channelSeq
    <3>1. ~MediaAt(n + 1)'
      BY <1>9, <2>1
    <3>2. NoMediaIn(1..(n + 1))' => NoMediaIn(1..n)
      BY <1>1, <1>9 DEF NoMediaIn
    <3>3. \A i \in 1..n : NoMediaIn((i + 1)..(n + 1))' => NoMediaIn((i + 1)..n)
      BY <1>1, <1>9 DEF NoMediaIn
    <3>4. \A i \in 1..(n + 1) : MediaAt(i)' => i \in 1..n /\ MediaAt(i) /\ wire'[i] = wire[i]
      BY <1>1, <1>4, <1>9, <3>1
    <3>5. QED
      BY <1>0, <1>4, <2>1, <3>2, <3>3, <3>4 DEF Channels
  <2>2. CASE ch = <<channelSeq>> /\ channelSeq' = (channelSeq + 1) % ChannelModulus
    <3>1. MediaAt(n + 1)' /\ wire'[n + 1].channel[1] = channelSeq
      BY <1>5, <1>9, <2>2
    <3>2. ~NoMediaIn(1..(n + 1))'
      BY <1>1, <3>1 DEF NoMediaIn
    <3>3. \A i \in 1..(n + 1) : NoMediaIn((i + 1)..(n + 1))' => i = n + 1
      BY <1>1, <3>1 DEF NoMediaIn
    <3>4. QED
      BY <1>4, <2>2, <3>1, <3>2, <3>3 DEF Channels
  <2>3. QED
    BY <2>1, <2>2
<1>12. WireOrdered'
  <2>1. \A i, j \in DOMAIN wire' : i < j => wire'[i].seq < wire'[j].seq
    <3>1. SUFFICES ASSUME NEW i \in 1..(n + 1), NEW j \in 1..(n + 1), i < j
                   PROVE  wire'[i].seq < wire'[j].seq
      BY <1>4
    <3>2. i \in 1..n /\ i \in DOMAIN wire /\ wire'[i] = wire[i]
      BY <1>1, <1>4, <3>1
    <3>3. CASE j \in 1..n
      BY <1>1, <1>4, <3>1, <3>2, <3>3 DEF WireOrdered
    <3>4. CASE j = n + 1
      BY <1>5, <3>2, <3>4
    <3>5. QED
      BY <1>1, <3>3, <3>4
  <2>2. \A i \in DOMAIN wire' : wire'[i].seq \in 1..(MaxSequence - 1)
    BY <1>1, <1>4, <1>5 DEF WireOrdered
  <2>3. ASSUME NEW j \in DOMAIN wire', MediaAt(j)'
        PROVE  /\ NoMediaIn(1..(j - 1))' => wire'[j].channel = <<0>>
               /\ \A i \in 1..(j - 1) : MediaAt(i)' /\ NoMediaIn((i + 1)..(j - 1))' =>
                    wire'[j].channel = <<(wire'[i].channel[1] + 1) % ChannelModulus>>
    <3>1. CASE j \in 1..n
      <4>1. /\ MediaAt(j) /\ wire'[j] = wire[j] /\ j \in DOMAIN wire
            /\ \A i \in 1..(j - 1) : i \in 1..n /\ wire'[i] = wire[i]
        BY <1>1, <1>4, <1>9, <2>3, <3>1
      <4>2. /\ NoMediaIn(1..(j - 1))' <=> NoMediaIn(1..(j - 1))
            /\ \A i \in 1..(j - 1) :
                 /\ MediaAt(i)' <=> MediaAt(i)
                 /\ NoMediaIn((i + 1)..(j - 1))' <=> NoMediaIn((i + 1)..(j - 1))
        <5>1. 1..(j - 1) \subseteq 1..n /\ \A i \in 1..(j - 1) : (i + 1)..(j - 1) \subseteq 1..n
          BY <1>1, <3>1
        <5>2. QED
          BY <1>9, <1>10, <5>1
      <4>3. QED
        BY <4>1, <4>2 DEF WireOrdered
    <3>2. CASE j = n + 1
      <4>1. ch = <<channelSeq>> /\ wire'[j].channel = <<channelSeq>> /\ j - 1 = n
        BY <1>1, <1>5, <1>9, <2>3, <3>2
      <4>2. NoMediaIn(1..n)' => channelSeq = 0
        BY <1>0, <1>10 DEF Channels
      <4>3. \A i \in 1..n : MediaAt(i)' /\ NoMediaIn((i + 1)..n)' =>
               channelSeq = (wire'[i].channel[1] + 1) % ChannelModulus
        <5>1. \A i \in 1..n : (i + 1)..n \subseteq 1..n
          BY <1>1
        <5>2. QED
          BY <1>0, <1>4, <1>9, <1>10, <5>1 DEF Channels
      <4>4. QED
        BY <4>1, <4>2, <4>3
    <3>3. QED
      BY <1>1, <1>4, <3>1, <3>2
  <2>4. QED
    BY <2>1, <2>2, <2>3 DEF WireOrdered
<1>13. QED
  BY <1>3, <1>6, <1>8, <1>11, <1>12

------------------------------------------------------------------------------
\* A step that writes no packet and reserves no number for the packet of a
\* later step.
LEMMA Quiet ==
    ASSUME IndInv, TypeOK', Terminal', UNCHANGED <<wire, channelSeq>>,
           nextSeq <= nextSeq',
           worker' = "joining" => worker = "joining",
           Reserved' => nextSeq' > nextSeq \/ (Reserved /\ nextSeq' = nextSeq)
    PROVE  IndInv'
<1>1. DOMAIN wire = 1..Len(wire) /\ \A i \in DOMAIN wire : wire[i].seq \in Nat
  <2>1. wire \in Seq(Packets)
    BY DEF IndInv, TypeOK
  <2>2. \A i \in DOMAIN wire : wire[i] \in Packets
    BY <2>1
  <2>3. QED
    BY <2>1, <2>2 DEF Packets
<1>2. nextSeq \in Nat /\ nextSeq' \in Nat
  BY SessionAssumption DEF IndInv, TypeOK
<1>3. Numbering'
  BY <1>1, <1>2 DEF IndInv, Numbering
<1>4. Channels' /\ WireOrdered'
  BY DEF IndInv, Channels, WireOrdered, MediaAt, NoMediaIn
<1>5. QED
  BY <1>3, <1>4 DEF IndInv

\* The types of what the channels and the hosts hold.
LEMMA HostStep ==
    ASSUME IndInv, UNCHANGED workerVars, TypeOK',
           IsTerminal(status') => IsTerminal(status),
           stopChanged => stopChanged'
    PROVE  IndInv'
<1>1. UNCHANGED <<worker, final, serving, nextSeq, channelSeq, wire>>
  BY DEF workerVars
<1>2. Terminal'
  BY <1>1 DEF IndInv, Terminal
<1>3. nextSeq <= nextSeq'
  BY <1>1, SessionAssumption DEF IndInv, TypeOK
<1>4. Reserved' => Reserved
  BY <1>1 DEF Reserved
<1>5. QED
  BY <1>1, <1>2, <1>3, <1>4, Quiet

\* The worker writes the first heartbeat, a heartbeat or a media packet.
LEMMA WriteStep ==
    ASSUME IndInv, NEW ch \in Seq(Nat), Write(ch),
           worker = "joining" \/ Reserved,
           worker' = "loop", status' \in {status, "Active"},
           \/ ch = <<>> /\ channelSeq' = channelSeq
           \/ ch = <<channelSeq>> /\ channelSeq' = (channelSeq + 1) % ChannelModulus,
           serving' \in {serving, <<>>},
           sender' \in [Senders -> {"idle", "admitted", "queued", "ok", "error"}],
           UNCHANGED <<stop, stopChanged, queue, media, key, final, nextSeq,
                       handle, stopper, receiver>>
    PROVE  IndInv'
<1>1. \A i \in DOMAIN wire : wire[i].seq < nextSeq - 1
  BY DEF IndInv, Numbering
<1>2. /\ wire' \in Seq(Packets) /\ channelSeq' \in 0..(ChannelModulus - 1)
      /\ WireOrdered' /\ Channels'
      /\ \A i \in DOMAIN wire' : wire'[i].seq < nextSeq'
  BY <1>1, Writes DEF IndInv
<1>3. TypeOK'
  <2>1. serving' \in Seq(Senders) /\ status' \in Statuses /\ worker' \in Points
    BY Empties DEF IndInv, TypeOK, Statuses, Points, Awaiting
  <2>2. QED
    BY <1>2, <2>1 DEF IndInv, TypeOK
<1>4. Numbering'
  BY <1>2 DEF Numbering, Reserved
<1>5. Terminal'
  BY DEF IndInv, Terminal, IsTerminal, Reserved
<1>6. QED
  BY <1>2, <1>3, <1>4, <1>5 DEF IndInv

\* The worker decides how the session ends.
LEMMA FinishStep ==
    ASSUME IndInv, NEW s \in {"Disconnected", "Revoked"}, Finish(s),
           worker \in Awaiting,
           sender' \in [Senders -> {"idle", "admitted", "queued", "ok", "error"}],
           stopChanged' \in BOOLEAN,
           queue' \in Seq(Senders), Len(queue') <= QueueCapacity,
           serving' \in {serving, <<>>},
           UNCHANGED <<status, stop, media, key, nextSeq, channelSeq, wire,
                       handle, stopper, receiver>>
    PROVE  IndInv'
<1>1. TypeOK'
  <2>1. serving' \in Seq(Senders)
    BY Empties DEF IndInv, TypeOK
  <2>2. QED
    BY <2>1 DEF IndInv, TypeOK, Finish, Points
<1>2. Terminal'
  BY DEF IndInv, Terminal, Awaiting
<1>3. ~Reserved' /\ worker' # "joining" /\ nextSeq <= nextSeq'
  BY SessionAssumption DEF Reserved, Finish, IndInv, TypeOK
<1>4. QED
  BY <1>1, <1>2, <1>3, Quiet

\* Every step of the worker and of the host keeps the invariant.
LEMMA Step ==
    ASSUME IndInv, [Next]_vars
    PROVE  IndInv'
<1> USE DEF innerVars, hostVars
<1>1. CASE Join
  <2>1. CASE Write(<<>>) /\ status' = "Active" /\ worker' = "loop" /\ UNCHANGED final
    BY <1>1, <2>1, Empties, WriteStep DEF Join, IndInv, TypeOK
  <2>2. CASE Finish("Disconnected") /\ UNCHANGED <<wire, status>>
    BY <1>1, <2>2, FinishStep DEF Join, Awaiting, IndInv, TypeOK
  <2>3. QED
    BY <1>1, <2>1, <2>2 DEF Join
<1>2. CASE ObserveStop
  <2>1. PICK s \in {"Disconnected", "Revoked"} : Finish(s)
    BY <1>2 DEF ObserveStop
  <2>2. QED
    BY <1>2, <2>1, FinishStep DEF ObserveStop, Awaiting, IndInv, TypeOK
<1>3. CASE TakeCommand
  <2>1. /\ worker = "loop" /\ queue # <<>> /\ queue' = Tail(queue)
        /\ UNCHANGED <<status, stop, stopChanged, media, key, channelSeq, wire,
                       handle, stopper, receiver>>
    BY <1>3 DEF TakeCommand
  <2>2. queue' \in Seq(Senders) /\ Len(queue') <= QueueCapacity /\ Head(queue) \in Senders
    BY <2>1, SessionAssumption DEF IndInv, TypeOK
  <2>3. Terminal'
    BY <2>1 DEF IndInv, Terminal
  <2>4. CASE stopChanged
    <3>1. /\ worker' = "sending" /\ serving' = <<Head(queue)>>
          /\ UNCHANGED <<nextSeq, sender, final>>
      BY <1>3, <2>4 DEF TakeCommand
    <3>2. TypeOK'
      BY <2>1, <2>2, <3>1 DEF IndInv, TypeOK, Points, Awaiting
    <3>3. ~Reserved' /\ nextSeq <= nextSeq'
      BY <2>1, <2>4, <3>1, SessionAssumption DEF Reserved, IndInv, TypeOK
    <3>4. QED
      BY <2>1, <2>3, <3>1, <3>2, <3>3, Quiet
  <2>5. CASE ~stopChanged /\ Exhausted
    BY <1>3, <2>1, <2>2, <2>5, FinishStep DEF TakeCommand, Awaiting, IndInv, TypeOK
  <2>6. CASE ~stopChanged /\ ~Exhausted
    <3>1. /\ worker' = "sending" /\ serving' = <<Head(queue)>>
          /\ nextSeq' = nextSeq + 1 /\ UNCHANGED <<sender, final>>
      BY <1>3, <2>6 DEF TakeCommand
    <3>2. nextSeq' \in 2..MaxSequence /\ nextSeq < nextSeq'
      BY <2>6, <3>1, SessionAssumption DEF Exhausted, IndInv, TypeOK
    <3>3. TypeOK'
      BY <2>1, <2>2, <3>1, <3>2 DEF IndInv, TypeOK, Points, Awaiting
    <3>4. nextSeq <= nextSeq' /\ worker' # "joining"
      BY <3>1, <3>2, <3>3, SessionAssumption DEF IndInv, TypeOK
    <3>5. QED
      BY <2>1, <2>3, <3>2, <3>3, <3>4, Quiet
  <2>7. QED
    BY <2>4, <2>5, <2>6
<1>4. CASE MediaWritten
  <2>1. /\ worker = "sending" /\ ~stopChanged /\ serving' = <<>>
        /\ UNCHANGED <<status, stop, stopChanged, queue, media, key, nextSeq,
                       handle, stopper, receiver>>
    BY <1>4 DEF MediaWritten
  <2>2. Reserved
    BY <2>1 DEF Reserved
  <2>3. CASE /\ Write(<<channelSeq>>)
             /\ channelSeq' = (channelSeq + 1) % ChannelModulus
             /\ sender' = [sender EXCEPT ![serving[1]] = "ok"]
             /\ worker' = "loop" /\ UNCHANGED final
    <3>1. <<channelSeq>> \in Seq(Nat)
      BY SessionAssumption DEF IndInv, TypeOK
    <3>2. sender' \in [Senders -> {"idle", "admitted", "queued", "ok", "error"}]
      BY <2>3 DEF IndInv, TypeOK
    <3>3. QED
      BY <2>1, <2>2, <2>3, <3>1, <3>2, WriteStep
  <2>4. CASE /\ sender' = [sender EXCEPT ![serving[1]] = "error"]
             /\ \/ Finish("Disconnected")
                \/ worker' = "loop" /\ UNCHANGED final
             /\ UNCHANGED <<wire, channelSeq>>
    <3>1. sender' \in [Senders -> {"idle", "admitted", "queued", "ok", "error"}]
      BY <2>4 DEF IndInv, TypeOK
    <3>2. CASE Finish("Disconnected")
      BY <2>1, <2>4, <3>1, <3>2, FinishStep DEF Awaiting, IndInv, TypeOK
    <3>3. CASE worker' = "loop" /\ UNCHANGED final
      <4>1. TypeOK'
        BY <2>1, <2>4, <3>1, <3>3 DEF IndInv, TypeOK, Points, Awaiting
      <4>2. Terminal'
        BY <2>1 DEF IndInv, Terminal
      <4>3. nextSeq <= nextSeq' /\ ~Reserved' /\ worker' # "joining"
        BY <2>1, <3>3, SessionAssumption DEF IndInv, TypeOK, Reserved
      <4>4. QED
        BY <2>4, <4>1, <4>2, <4>3, Quiet
    <3>4. QED
      BY <2>4, <3>2, <3>3
  <2>5. QED
    BY <1>4, <2>3, <2>4 DEF MediaWritten
<1>5. CASE HeartbeatDue
  <2>1. CASE Exhausted
    BY <1>5, <2>1, FinishStep DEF HeartbeatDue, Awaiting, IndInv, TypeOK
  <2>2. CASE ~Exhausted
    <3>1. /\ worker' = "heartbeat" /\ nextSeq' = nextSeq + 1 /\ worker = "loop"
          /\ UNCHANGED <<status, stop, stopChanged, queue, media, key, final, serving,
                         channelSeq, wire, handle, stopper, sender, receiver>>
      BY <1>5, <2>2 DEF HeartbeatDue
    <3>2. nextSeq' \in 2..MaxSequence /\ nextSeq < nextSeq' /\ nextSeq <= nextSeq'
      BY <2>2, <3>1, SessionAssumption DEF Exhausted, IndInv, TypeOK
    <3>3. TypeOK'
      BY <3>1, <3>2 DEF IndInv, TypeOK, Points, Awaiting
    <3>4. Terminal'
      BY <3>1 DEF IndInv, Terminal
    <3>5. QED
      BY <3>1, <3>2, <3>3, <3>4, Quiet
  <2>3. QED
    BY <2>1, <2>2
<1>6. CASE HeartbeatWritten
  <2>1. CASE Write(<<>>) /\ worker' = "loop" /\ UNCHANGED final
    BY <1>6, <2>1, Empties, WriteStep DEF HeartbeatWritten, Reserved, IndInv, TypeOK
  <2>2. CASE Finish("Disconnected") /\ UNCHANGED wire
    BY <1>6, <2>2, FinishStep DEF HeartbeatWritten, Awaiting, IndInv, TypeOK
  <2>3. QED
    BY <1>6, <2>1, <2>2 DEF HeartbeatWritten
<1>7. CASE ReceiveEnds
  <2>1. PICK s \in {"Disconnected", "Revoked"} : Finish(s)
    BY <1>7 DEF ReceiveEnds
  <2>2. QED
    BY <1>7, <2>1, FinishStep DEF ReceiveEnds, Awaiting, IndInv, TypeOK
<1>8. CASE ReleaseKeyAndMedia \/ PublishFinal \/ DropChannels
  <2>1. /\ worker \in {"finish", "publish", "drop"}
        /\ worker' \in {"publish", "drop", "stopped"}
        /\ UNCHANGED <<stop, stopChanged, final, nextSeq, channelSeq, wire,
                       handle, stopper, receiver>>
    BY <1>8 DEF ReleaseKeyAndMedia, PublishFinal, DropChannels
  <2>2. /\ media' \in BOOLEAN /\ key' \in BOOLEAN
    BY <1>8 DEF ReleaseKeyAndMedia, PublishFinal, DropChannels, IndInv, TypeOK
  <2>3. /\ queue' \in {queue, <<>>} /\ serving' \in {serving, <<>>}
        /\ status' \in {status, final}
    BY <1>8 DEF ReleaseKeyAndMedia, PublishFinal, DropChannels
  <2>4. sender' \in [Senders -> {"idle", "admitted", "queued", "ok", "error"}]
    BY <1>8 DEF ReleaseKeyAndMedia, PublishFinal, DropChannels, IndInv, TypeOK
  <2>5. /\ queue' \in Seq(Senders) /\ Len(queue') <= QueueCapacity
        /\ serving' \in Seq(Senders)
    BY <2>3, Empties DEF IndInv, TypeOK
  <2>6. TypeOK'
    <3>1. status' \in Statuses /\ worker' \in Points
      BY <2>1, <2>3 DEF IndInv, TypeOK, Statuses, Points
    <3>2. QED
      BY <2>1, <2>2, <2>4, <2>5, <3>1 DEF IndInv, TypeOK
  <2>7. Terminal'
    BY <1>8 DEF ReleaseKeyAndMedia, PublishFinal, DropChannels, IndInv, Terminal
  <2>8. nextSeq <= nextSeq' /\ ~Reserved' /\ worker' # "joining"
    BY <2>1, SessionAssumption DEF IndInv, TypeOK, Reserved
  <2>9. QED
    BY <2>1, <2>6, <2>7, <2>8, Quiet
<1>9. CASE Started
  BY <1>9, HostStep DEF Started, workerVars, IndInv, TypeOK
<1>10. CASE CancelStart
  <2>1. TypeOK'
    BY <1>10 DEF CancelStart, IndInv, TypeOK, Points
  <2>2. Terminal'
    BY <1>10 DEF CancelStart, IndInv, Terminal, Awaiting
  <2>3. /\ nextSeq <= nextSeq' /\ UNCHANGED <<wire, channelSeq>>
        /\ worker' = "joining" => worker = "joining"
        /\ Reserved' => Reserved /\ nextSeq' = nextSeq
    BY <1>10, SessionAssumption DEF CancelStart, IndInv, TypeOK, Reserved, Awaiting
  <2>4. QED
    BY <2>1, <2>2, <2>3, Quiet
<1>11. ASSUME NEW c \in Stoppers, RequestStop(c) PROVE IndInv'
  BY <1>11, HostStep, SessionAssumption DEF RequestStop, workerVars, IndInv, TypeOK
<1>12. ASSUME NEW c \in Stoppers, AnnounceStop(c) PROVE IndInv'
  BY <1>12, HostStep DEF AnnounceStop, workerVars, IndInv, TypeOK, Statuses, IsTerminal
<1>13. ASSUME NEW c \in Stoppers, SignalStop(c) PROVE IndInv'
  <2>1. /\ stop' \in {"none", "Close", "Disconnect", "Revoke"}
        /\ stopper' \in {[stopper EXCEPT ![c] = "error"], [stopper EXCEPT ![c] = "wait"]}
        /\ stopChanged' \in {stopChanged, TRUE}
        /\ UNCHANGED <<status, queue, media, key, workerVars, handle, sender, receiver>>
    BY <1>13 DEF SignalStop, IndInv, TypeOK
  <2>2. TypeOK'
    BY <2>1 DEF workerVars, IndInv, TypeOK
  <2>3. stopChanged => stopChanged'
    BY <1>13 DEF SignalStop
  <2>4. QED
    BY <2>1, <2>2, <2>3, HostStep
<1>14. ASSUME NEW c \in Stoppers, StopDone(c) PROVE IndInv'
  BY <1>14, HostStep DEF StopDone, workerVars, IndInv, TypeOK
<1>15. ASSUME NEW c \in Senders, BeginSend(c) PROVE IndInv'
  BY <1>15, HostStep DEF BeginSend, workerVars, IndInv, TypeOK
<1>16. ASSUME NEW c \in Senders, QueueSend(c) PROVE IndInv'
  <2>1. queue' \in Seq(Senders) /\ Len(queue') <= QueueCapacity
    <3>1. CASE UNCHANGED queue
      BY <3>1 DEF IndInv, TypeOK
    <3>2. CASE queue' = Append(queue, c) /\ Len(queue) < QueueCapacity
      BY <3>2, SessionAssumption DEF IndInv, TypeOK
    <3>3. Len(queue) \in Nat
      BY DEF IndInv, TypeOK
    <3>4. QED
      BY <1>16, <3>1, <3>2, <3>3, SessionAssumption DEF QueueSend
  <2>2. sender' \in [Senders -> {"idle", "admitted", "queued", "ok", "error"}]
    BY <1>16 DEF QueueSend, IndInv, TypeOK
  <2>3. UNCHANGED <<status, stop, stopChanged, media, key, workerVars, handle,
                    stopper, receiver>>
    BY <1>16 DEF QueueSend
  <2>4. TypeOK'
    BY <2>1, <2>2, <2>3 DEF workerVars, IndInv, TypeOK
  <2>5. QED
    BY <2>3, <2>4, HostStep
<1>17. CASE RecvClosed
  BY <1>17, HostStep DEF RecvClosed, workerVars, IndInv, TypeOK
<1>18. CASE UNCHANGED vars
  BY <1>18, HostStep DEF vars, workerVars, IndInv, TypeOK
<1>19. QED
  BY <1>1, <1>2, <1>3, <1>4, <1>5, <1>6, <1>7, <1>8, <1>9, <1>10, <1>11, <1>12, <1>13,
     <1>14, <1>15, <1>16, <1>17, <1>18
     DEF Next, Worker, StopperStep

\* A session that has not started satisfies it.
LEMMA Initially == Init => IndInv
<1> SUFFICES ASSUME Init PROVE IndInv
  OBVIOUS
<1>1. wire = <<>> /\ DOMAIN wire = {} /\ Len(wire) = 0 /\ 1..Len(wire) = {}
  BY DEF Init
<1>2. TypeOK
  <2>1. nextSeq \in 2..MaxSequence /\ channelSeq \in 0..(ChannelModulus - 1)
    BY SessionAssumption DEF Init
  <2>2. /\ queue \in Seq(Senders) /\ Len(queue) <= QueueCapacity
        /\ serving \in Seq(Senders) /\ wire \in Seq(Packets)
    BY Empties DEF Init
  <2>3. stopChanged \in BOOLEAN /\ media \in BOOLEAN /\ key \in BOOLEAN
    BY Zenon DEF Init
  <2>4. QED
    BY <2>1, <2>2, <2>3 DEF Init, TypeOK, Statuses, Points, Awaiting
<1>3. Numbering /\ Channels /\ WireOrdered /\ Terminal
  BY <1>1 DEF Init, Numbering, Reserved, Channels, WireOrdered, Terminal, IsTerminal
<1>4. QED
  BY <1>2, <1>3 DEF IndInv

\* The invariant holds throughout.
LEMMA Invariance == Spec => []IndInv
BY Initially, Step, PTL DEF Spec

\* The command queue stays within its capacity and the transport counter within
\* its number space.
THEOREM TypeCorrect == Spec => []TypeOK
<1>1. IndInv => TypeOK
  BY DEF IndInv
<1>2. QED
  BY <1>1, Invariance, PTL

\* reserve_transport_sequence and channel_sequences: whatever mix of media,
\* heartbeats, failed and cancelled writes uses the counters, the numbers on the
\* wire rise strictly and never reach the last one, and the media of a stream is
\* numbered without a gap.
THEOREM WireAlwaysOrdered == Spec => []WireOrdered
<1>1. IndInv => WireOrdered
  BY DEF IndInv
<1>2. QED
  BY <1>1, Invariance, PTL

\* Once the worker has published a terminal status nothing goes out and no send
\* succeeds any more, although hosts that read an older status may still queue
\* commands behind it.
THEOREM SilenceAfterStop == Spec => SilentAfterStop
<1> DEFINE Silent == IsTerminal(status) =>
             /\ wire' = wire
             /\ \A c \in Senders : sender'[c] = "ok" => sender[c] = "ok"
<1>1. IndInv /\ [Next]_vars => [Silent]_vars
  <2> SUFFICES ASSUME IndInv, Next, IsTerminal(status)
               PROVE  /\ wire' = wire
                      /\ \A c \in Senders : sender'[c] = "ok" => sender[c] = "ok"
    OBVIOUS
  <2> USE DEF innerVars, workerVars, hostVars
  <2>1. worker \in {"drop", "stopped"} /\ sender \in [Senders -> {"idle", "admitted", "queued", "ok", "error"}]
    BY DEF IndInv, Terminal, TypeOK
  <2>2. ~Join /\ ~ObserveStop /\ ~TakeCommand /\ ~MediaWritten /\ ~HeartbeatWritten
        /\ ~HeartbeatDue /\ ~ReceiveEnds /\ ~ReleaseKeyAndMedia /\ ~PublishFinal
    BY <2>1 DEF Join, ObserveStop, TakeCommand, MediaWritten, HeartbeatWritten, HeartbeatDue,
                ReceiveEnds, ReleaseKeyAndMedia, PublishFinal
  <2>3. CASE DropChannels
    BY <2>1, <2>3 DEF DropChannels
  <2>4. CASE Started \/ CancelStart \/ RecvClosed
    BY <2>4 DEF Started, CancelStart, RecvClosed
  <2>5. ASSUME NEW c \in Stoppers, StopperStep(c)
        PROVE  UNCHANGED <<wire, sender>>
    BY <2>5 DEF StopperStep, RequestStop, AnnounceStop, SignalStop, StopDone
  <2>6. ASSUME NEW c \in Senders, BeginSend(c) \/ QueueSend(c)
        PROVE  /\ wire' = wire
               /\ \A d \in Senders : sender'[d] = "ok" => sender[d] = "ok"
    BY <2>1, <2>6 DEF BeginSend, QueueSend
  <2>7. QED
    BY <2>2, <2>3, <2>4, <2>5, <2>6 DEF Next, Worker
<1>2. QED
  BY <1>1, Invariance, PTL DEF Spec, SilentAfterStop

==============================================================================
