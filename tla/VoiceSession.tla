---------------------------- MODULE VoiceSession ----------------------------
(***************************************************************************)
(* One UDP voice session: the worker task (worker.rs) that owns the socket *)
(* and the sequence counters, VoiceSession::start, and the host tasks that *)
(* hold clones of the handle (session.rs): some ask the session to stop,   *)
(* some send media, one waits for media.  They share the status, stop,     *)
(* command and media channels of SessionInner.                             *)
(*                                                                         *)
(* Inbound media and heartbeats change nothing here (their replay window   *)
(* is module ReplayWindow), so the only datagram modelled is the           *)
(* revocation.  The worker holds an Arc of SessionInner, so its            *)
(* stop and command channels never lose their last sender: the branches of *)
(* run for that case cannot be taken.                                      *)
(***************************************************************************)
EXTENDS Naturals, Sequences

CONSTANTS
    Stoppers,          \* host tasks that request a termination
    Terminations,      \* the requests they make
    Senders,           \* host tasks that send media until an error
    QueueCapacity,     \* MEDIA_QUEUE_CAPACITY of the command channel
    MaxSequence,       \* u64::MAX: the sequence that is never used
    ChannelModulus     \* 2^16: channel sequences wrap

ASSUME SessionAssumption ==
    /\ Terminations \subseteq {"Close", "Disconnect", "Revoke"}
    /\ QueueCapacity \in Nat /\ MaxSequence \in Nat \ {0, 1}
    /\ ChannelModulus \in Nat \ {0}

VARIABLES
    \* SessionInner
    status,       \* status_tx
    stop,         \* stop_tx: the last termination requested, or "none"
    stopChanged,  \* stop_rx has not seen that value yet
    queue,        \* command_tx: the senders whose command is queued
    media,        \* whether media_tx still holds the sender
    key,          \* whether the session key is in the cache
    \* worker task
    worker,       \* control point
    final,        \* the status finish is going to publish
    serving,      \* <<sender>> of the command in progress, or <<>>
    nextSeq,      \* transport_sequence
    channelSeq,   \* channel_sequences of the one stream
    wire,         \* history: packets written to the socket
    \* host tasks
    handle,       \* progress of VoiceSession::start
    stopper, sender, receiver

innerVars == <<status, stop, stopChanged, queue, media, key>>
workerVars == <<worker, final, serving, nextSeq, channelSeq, wire>>
hostVars == <<handle, stopper, sender, receiver>>
vars == <<innerVars, workerVars, hostVars>>

Statuses == {"Joining", "Active", "Disconnecting", "Disconnected", "Revoked"}

IsTerminal(s) == s \in {"Disconnected", "Revoked"}

\* Awaits of the worker: "joining" is the first heartbeat, "sending" and
\* "heartbeat" are socket writes that watch the stop channel.
Awaiting == {"joining", "loop", "sending", "heartbeat"}
Points == Awaiting \cup {"finish", "publish", "drop", "stopped", "aborted"}

\* A packet on the wire: a heartbeat has no channel sequence.
Packets == [seq : Nat, channel : Seq(Nat)]

Init ==
    /\ status = "Joining" /\ stop = "none" /\ stopChanged = FALSE
    /\ queue = <<>> /\ media = TRUE /\ key = TRUE
    /\ worker = "joining" /\ final = "Disconnected" /\ serving = <<>>
    /\ nextSeq = 2 /\ channelSeq = 0 /\ wire = <<>>
    /\ handle = "starting"
    /\ stopper = [c \in Stoppers |-> "idle"]
    /\ sender = [c \in Senders |-> "idle"]
    /\ receiver = "waiting"

------------------------------------------------------------------------------
(***************************************************************************)
(* The worker.                                                             *)
(***************************************************************************)

\* finish begins; what it publishes is already decided.
Finish(s) == worker' = "finish" /\ final' = s

\* reserve_transport_sequence fails at the end of the number space.
Exhausted == nextSeq >= MaxSequence

\* The packet in flight carries the last number reserved.
Write(channel) == wire' = Append(wire, [seq |-> nextSeq - 1, channel |-> channel])

\* The first heartbeat is written: the session is Active, start may return.
Join ==
    /\ worker = "joining"
    /\ \/ /\ Write(<<>>) /\ status' = "Active" /\ worker' = "loop"
          /\ UNCHANGED final
       \/ Finish("Disconnected") /\ UNCHANGED <<wire, status>>
    /\ UNCHANGED <<stop, stopChanged, queue, media, key, serving, nextSeq,
                   channelSeq, hostVars>>

\* Mutant: a stop seen during a heartbeat write is consumed and the worker
\* goes on.
ObserveStop_LostInHeartbeat ==
    /\ worker \in {"loop", "sending", "heartbeat"} /\ stopChanged
    /\ stopChanged' = FALSE
    /\ IF worker = "heartbeat"
         THEN worker' = "loop" /\ UNCHANGED final
         ELSE Finish(IF stop = "Revoke" THEN "Revoked" ELSE "Disconnected")
    /\ UNCHANGED <<status, stop, queue, media, key, serving, nextSeq,
                   channelSeq, wire, hostVars>>

\* The stop branch of the loop, of a media write and of a heartbeat write.
ObserveStop ==
    /\ worker \in {"loop", "sending", "heartbeat"} /\ stopChanged
    /\ stopChanged' = FALSE
    /\ Finish(IF stop = "Revoke" THEN "Revoked" ELSE "Disconnected")
    /\ UNCHANGED <<status, stop, queue, media, key, serving, nextSeq,
                   channelSeq, wire, hostVars>>

\* handle_command up to the socket write.  The select is biased: a pending
\* stop wins before the sequence is reserved.
TakeCommand ==
    /\ worker = "loop" /\ queue # <<>>
    /\ queue' = Tail(queue)
    /\ IF stopChanged
         THEN /\ serving' = <<Head(queue)>> /\ worker' = "sending"
              /\ UNCHANGED <<nextSeq, sender, final>>
         ELSE IF Exhausted
           THEN /\ sender' = [sender EXCEPT ![Head(queue)] = "error"]
                /\ Finish("Disconnected")
                /\ UNCHANGED <<serving, nextSeq>>
           ELSE /\ serving' = <<Head(queue)>> /\ worker' = "sending"
                /\ nextSeq' = nextSeq + 1
                /\ UNCHANGED <<sender, final>>
    /\ UNCHANGED <<status, stop, stopChanged, media, key, channelSeq, wire,
                   handle, stopper, receiver>>

\* The media write completes; or it fails and ends the session; or the packet
\* could not be encoded, which fails this call alone.
MediaWritten ==
    /\ worker = "sending" /\ ~stopChanged
    /\ serving' = <<>>
    /\ \/ /\ Write(<<channelSeq>>)
          /\ channelSeq' = (channelSeq + 1) % ChannelModulus
          /\ sender' = [sender EXCEPT ![serving[1]] = "ok"]
          /\ worker' = "loop" /\ UNCHANGED final
       \/ /\ sender' = [sender EXCEPT ![serving[1]] = "error"]
          /\ \/ Finish("Disconnected")
             \/ worker' = "loop" /\ UNCHANGED final
          /\ UNCHANGED <<wire, channelSeq>>
    /\ UNCHANGED <<innerVars, nextSeq, handle, stopper, receiver>>

\* Mutant: a heartbeat goes out without reserving a sequence of its own.
HeartbeatDue_Unreserved ==
    /\ worker = "loop" /\ ~stopChanged
    /\ worker' = "heartbeat"
    /\ UNCHANGED <<innerVars, final, serving, nextSeq, channelSeq, wire, hostVars>>

\* The heartbeat tick, after HEARTBEAT_INTERVAL without a packet.
HeartbeatDue ==
    /\ worker = "loop" /\ ~stopChanged
    /\ IF Exhausted
         THEN Finish("Disconnected") /\ UNCHANGED nextSeq
         ELSE worker' = "heartbeat" /\ nextSeq' = nextSeq + 1 /\ UNCHANGED final
    /\ UNCHANGED <<innerVars, serving, channelSeq, wire, hostVars>>

HeartbeatWritten ==
    /\ worker = "heartbeat" /\ ~stopChanged
    /\ \/ Write(<<>>) /\ worker' = "loop" /\ UNCHANGED final
       \/ Finish("Disconnected") /\ UNCHANGED wire
    /\ UNCHANGED <<innerVars, serving, nextSeq, channelSeq, hostVars>>

\* Mutant: a revocation is published and the worker keeps running.
ReceiveEnds_KeepsRunning ==
    /\ worker = "loop" /\ status' = "Revoked"
    /\ UNCHANGED <<stop, stopChanged, queue, media, key, workerVars, hostVars>>

\* An authenticated revocation packet, or a receive error.
ReceiveEnds ==
    /\ worker = "loop"
    /\ \/ Finish("Revoked")
       \/ Finish("Disconnected")
    /\ UNCHANGED <<innerVars, serving, nextSeq, channelSeq, wire, hostVars>>

\* Mutant: the media sender is not dropped.
ReleaseKeyAndMedia_KeepsMedia ==
    /\ worker = "finish" /\ worker' = "publish"
    /\ key' = FALSE
    /\ UNCHANGED <<status, stop, stopChanged, queue, media, final, serving,
                   nextSeq, channelSeq, wire, hostVars>>

\* remove_cached_key and close_media.
ReleaseKeyAndMedia ==
    /\ worker = "finish" /\ worker' = "publish"
    /\ key' = FALSE /\ media' = FALSE
    /\ UNCHANGED <<status, stop, stopChanged, queue, final, serving, nextSeq,
                   channelSeq, wire, hostVars>>

PublishFinal ==
    /\ worker = "publish" /\ worker' = "drop"
    /\ status' = final
    /\ UNCHANGED <<stop, stopChanged, queue, media, key, final, serving,
                   nextSeq, channelSeq, wire, hostVars>>

\* run returns: its ends of the command, stop and response channels are
\* dropped, and a start that still waits gets its error.
DropChannels ==
    /\ worker = "drop" /\ worker' = "stopped"
    /\ queue' = <<>> /\ serving' = <<>>
    /\ sender' = [c \in Senders |->
                    IF \/ serving = <<c>>
                       \/ \E i \in DOMAIN queue : queue[i] = c
                      THEN "error" ELSE sender[c]]
    /\ UNCHANGED <<status, stop, stopChanged, media, key, final, nextSeq,
                   channelSeq, wire, handle, stopper, receiver>>

Worker ==
    \/ Join \/ ObserveStop \/ TakeCommand \/ MediaWritten \/ HeartbeatWritten
    \/ ReleaseKeyAndMedia \/ PublishFinal \/ DropChannels

------------------------------------------------------------------------------
(***************************************************************************)
(* The hosts.                                                              *)
(***************************************************************************)

\* start returns the handle once the worker has reported, or its error.
Started ==
    /\ handle = "starting" /\ worker # "joining"
    /\ \/ /\ wire # <<>> /\ handle' = "ready"
       \/ /\ wire = <<>> /\ worker \in {"drop", "stopped"} /\ handle' = "failed"
    /\ UNCHANGED <<innerVars, workerVars, stopper, sender, receiver>>

\* The future of start is dropped: StartupTaskGuard aborts the worker at its
\* next await, and none of finish runs.
CancelStart ==
    /\ handle = "starting" /\ handle' = "cancelled"
    /\ worker' = IF worker \in Awaiting THEN "aborted" ELSE worker
    /\ UNCHANGED <<innerVars, final, serving, nextSeq, channelSeq, wire,
                   stopper, sender, receiver>>

\* request_termination, step by step: read the status, announce an orderly
\* stop, signal, wait.
RequestStop(c) ==
    /\ handle = "ready" /\ stopper[c] = "idle"
    /\ \E termination \in Terminations :
         stopper' = [stopper EXCEPT ![c] =
                       IF IsTerminal(status) THEN "ok" ELSE termination]
    /\ UNCHANGED <<innerVars, workerVars, handle, sender, receiver>>

AnnounceStop(c) ==
    /\ stopper[c] \in {"Close", "Disconnect"}
    /\ status' = "Disconnecting"
    /\ stopper' = [stopper EXCEPT ![c] =
                     IF @ = "Close" THEN "signalClose" ELSE "signalDisconnect"]
    /\ UNCHANGED <<stop, stopChanged, queue, media, key, workerVars, handle,
                   sender, receiver>>

SignalStop(c) ==
    /\ stopper[c] \in {"Revoke", "signalClose", "signalDisconnect"}
    /\ IF worker = "stopped"
         THEN /\ stopper' = [stopper EXCEPT ![c] = "error"]
              /\ UNCHANGED <<stop, stopChanged>>
         ELSE /\ stopper' = [stopper EXCEPT ![c] = "wait"]
              /\ stop' = IF stopper[c] = "Revoke" THEN "Revoke"
                         ELSE IF stopper[c] = "signalClose" THEN "Close"
                         ELSE "Disconnect"
              /\ stopChanged' = TRUE
    /\ UNCHANGED <<status, queue, media, key, workerVars, handle, sender,
                   receiver>>

\* wait_until_stopped.
StopDone(c) ==
    /\ stopper[c] = "wait" /\ IsTerminal(status)
    /\ stopper' = [stopper EXCEPT ![c] = "ok"]
    /\ UNCHANGED <<innerVars, workerVars, handle, sender, receiver>>

\* send checks the status first and queues the command in a later step.
BeginSend(c) ==
    /\ handle = "ready" /\ sender[c] \in {"idle", "ok"}
    /\ sender' = [sender EXCEPT ![c] =
                    IF status = "Active" THEN "admitted" ELSE "error"]
    /\ UNCHANGED <<innerVars, workerVars, handle, stopper, receiver>>

QueueSend(c) ==
    /\ sender[c] = "admitted"
    /\ IF worker = "stopped" \/ Len(queue) >= QueueCapacity
         THEN /\ sender' = [sender EXCEPT ![c] = "error"]
              /\ UNCHANGED queue
         ELSE /\ sender' = [sender EXCEPT ![c] = "queued"]
              /\ queue' = Append(queue, c)
    /\ UNCHANGED <<status, stop, stopChanged, media, key, workerVars, handle,
                   stopper, receiver>>

\* recv ends with Closed when the last media sender is gone.
RecvClosed ==
    /\ handle = "ready" /\ receiver = "waiting" /\ ~media
    /\ receiver' = "closed"
    /\ UNCHANGED <<innerVars, workerVars, handle, stopper, sender>>

StopperStep(c) == RequestStop(c) \/ AnnounceStop(c) \/ SignalStop(c) \/ StopDone(c)

Next ==
    \/ Worker \/ HeartbeatDue \/ ReceiveEnds
    \/ Started \/ CancelStart
    \/ \E c \in Stoppers : StopperStep(c)
    \/ \E c \in Senders : BeginSend(c) \/ QueueSend(c)
    \/ RecvClosed

\* The runtime polls every task that can run; a socket write completes or
\* fails.  Nothing makes a host call, a heartbeat or a revocation happen.
Fairness ==
    /\ WF_vars(Worker) /\ WF_vars(ObserveStop)
    /\ \A c \in Stoppers :
         WF_vars(AnnounceStop(c)) /\ WF_vars(SignalStop(c)) /\ WF_vars(StopDone(c))
    /\ \A c \in Senders : WF_vars(QueueSend(c))
    /\ WF_vars(RecvClosed)

Spec == Init /\ [][Next]_vars /\ Fairness

------------------------------------------------------------------------------
(***************************************************************************)
(* Properties.                                                             *)
(***************************************************************************)

\* The command queue stays within MEDIA_QUEUE_CAPACITY, the transport counter
\* within its number space, and every channel and task variable in its type.
TypeOK ==
    /\ status \in Statuses
    /\ stop \in {"none", "Close", "Disconnect", "Revoke"}
    /\ stopChanged \in BOOLEAN /\ media \in BOOLEAN /\ key \in BOOLEAN
    /\ queue \in Seq(Senders) /\ Len(queue) <= QueueCapacity
    /\ worker \in Points /\ final \in {"Disconnected", "Revoked"}
    /\ serving \in Seq(Senders) /\ nextSeq \in 2..MaxSequence
    /\ channelSeq \in 0..(ChannelModulus - 1) /\ wire \in Seq(Packets)
    /\ handle \in {"starting", "ready", "failed", "cancelled"}
    /\ stopper \in [Stoppers -> {"idle", "Close", "Disconnect", "Revoke",
                                 "signalClose", "signalDisconnect", "wait",
                                 "ok", "error"}]
    /\ sender \in [Senders -> {"idle", "admitted", "queued", "ok", "error"}]
    /\ receiver \in {"waiting", "closed"}

\* The i-th packet carries media; none of those in between does.
MediaAt(i) == wire[i].channel # <<>>
NoMediaIn(indices) == \A k \in indices : ~MediaAt(k)

\* What the server can check about the packets of one session: transport
\* sequences rise strictly and stop before the last number, whichever of the
\* heartbeat, a send, a failed or a cancelled write used the counter last, and
\* channel sequences are consecutive modulo 2^16, from 0 on, although they are
\* advanced only by a write that succeeded.
WireOrdered ==
    /\ \A i, j \in DOMAIN wire : i < j => wire[i].seq < wire[j].seq
    /\ \A i \in DOMAIN wire : wire[i].seq \in 1..(MaxSequence - 1)
    /\ \A j \in DOMAIN wire : MediaAt(j) =>
         /\ NoMediaIn(1..(j - 1)) => wire[j].channel = <<0>>
         /\ \A i \in 1..(j - 1) : MediaAt(i) /\ NoMediaIn((i + 1)..(j - 1)) =>
              wire[j].channel = <<(wire[i].channel[1] + 1) % ChannelModulus>>

\* Once a terminal status has been published the session is silent: the worker
\* writes no further packet and completes no further send, although commands
\* may still be queued by hosts that read an older status.
SilentAfterStop ==
    [][IsTerminal(status) =>
         wire' = wire /\ \A c \in Senders : sender'[c] = "ok" => sender[c] = "ok"]_vars

\* session.rs:243, worker.rs:375: send returns to every caller, whatever ends
\* the session while its command is queued or being written; recv returns
\* Closed to a task that waits for media when the session ends, although that
\* task's own handle keeps the media channel's owner alive.
HostCallsReturn ==
    /\ \A c \in Senders :
         sender[c] \in {"admitted", "queued"} ~> sender[c] \in {"ok", "error"}
    /\ IsTerminal(status) /\ handle = "ready" ~> receiver = "closed"

\* A termination that was signalled is carried out: the worker ends even when
\* the signal arrives during a socket write or beside other events.
WorkerStops == \A c \in Stoppers : stopper[c] = "wait" ~> worker = "stopped"

\* close, disconnect and revoke return: request_termination waits for a status
\* that the worker publishes and that stays published.
StopReturns ==
    \A c \in Stoppers : stopper[c] = "wait" ~> stopper[c] = "ok"

==============================================================================
