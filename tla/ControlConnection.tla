-------------------------- MODULE ControlConnection --------------------------
(***************************************************************************)
(* The WebSocket control connection: the reconnecting owner task           *)
(* (engine.rs), one socket generation (engine/socket.rs), the SyncMachine  *)
(* that validates its frames, the StateStore it fills, and the host that   *)
(* may close it at any moment.  The server, its event log, the HTTP        *)
(* snapshot provider and the socket are external and modelled from how the *)
(* code uses them.                                                         *)
(*                                                                         *)
(* The log is a sequence of event kinds; a GEID is a position in it.       *)
(*   "known"    the projection applies it                                  *)
(*   "refused"  the projection refuses it and asks for a snapshot (unknown *)
(*              type, visibility transition, malformed payload)            *)
(*   "hidden"   filtered out for this recipient and never sent             *)
(* The client's state is abstracted to the set of events it reflects.      *)
(***************************************************************************)
EXTENDS SyncMachine

CONSTANTS
    MaxLog,              \* bound on the server's log
    MaxFaults,           \* bound on failures of token, socket or snapshot
    MaxPushes,           \* bound on unsolicited sync.required / unknown frames
    ReconnectEnabled,    \* ReconnectPolicy::enabled
    MaxAttempts,         \* ReconnectPolicy::maximum_attempts
    LiveDuringReplay,    \* TRUE: live events may overtake replay batches
    HostCloses,          \* whether a host task calls close()
    CompleteCoversLive   \* TRUE: sync.complete's cursor also covers the live
                         \* events already sent, FALSE: the replay high-water

ASSUME BoundsAssumption ==
    /\ MaxLog \in Nat /\ MaxFaults \in Nat /\ MaxPushes \in Nat
    /\ MaxAttempts \in Nat
    /\ ReconnectEnabled \in BOOLEAN /\ HostCloses \in BOOLEAN
    /\ LiveDuringReplay \in BOOLEAN /\ CompleteCoversLive \in BOOLEAN

VARIABLES
    \* server, network and provider (external)
    log,        \* kinds of the events committed so far
    session,    \* the server's view of the socket: handoff and live position
    toServer,   \* cursors of the sync.hello frames in flight
    toClient,   \* server frames in flight
    snap,       \* the snapshot response in flight: <<position>>, or <<>>
    faults, pushes,
    \* owner task
    pc, attempt, result,
    machine,    \* the SyncMachine of the current socket generation
    todo,       \* events a frame handler has accepted and not yet applied
    goLive,     \* TRUE while the handler of sync.complete is running
    \* ConnectionInner
    store,      \* StateStore: cursor, geid and the events the state reflects
    status,     \* status_tx
    controlId,  \* whether control_id and outbound are set
    stopped,    \* the stopped flag
    stopSig,    \* a change of stop_tx that the current await has not yet seen
    closer      \* progress of a host task in close()

serverVars == <<log, session, toServer, toClient, snap, faults, pushes>>
taskVars == <<pc, attempt, result, machine, todo, goLive>>
innerVars == <<store, status, controlId, stopped, stopSig, closer>>
vars == <<serverVars, taskVars, innerVars>>

NoSnapshot == <<>>

Kinds == {"known", "refused", "hidden"}

Statuses == {"Disconnected", "Connecting", "Ready", "Syncing", "Live",
             "Reconnecting", "Closed"}

\* Control points of the owner task.  "clear" and "retry" are between awaits;
\* at every point of Awaiting a stop receiver is subscribed.
Socket == {"ready", "hello", "recv", "apply", "snapshot"}
Awaiting == {"token", "connect", "backoff"} \cup Socket
Points == Awaiting \cup {"start", "clear", "retry", "exit", "done"}

\* How a socket generation ended: "ok" for an orderly stop, "Sync" for a
\* SyncError nobody recovers from, "Terminal" for the other terminal errors.
Results == {"ok", "Transport", "Terminal", "Sync"}

Frames ==
    [t : {"ready", "required", "state_unknown", "terminal"}]
    \cup [t : {"replay"}, from : Nat, to : Nat, events : Seq(Nat)]
    \cup [t : {"complete"}, cursor : Nat]
    \cup [t : {"event"}, geid : Nat]

Stores == [cursor : Nat, geid : Nat, content : SUBSET Nat]

\* The events of positions lo..hi that this recipient is sent.
Visible(lo, hi) == {g \in lo..hi : log[g] # "hidden"}

\* What ClientState::from_snapshot of a snapshot at position n yields.
SnapshotAt(n) == [cursor |-> n, geid |-> n, content |-> Visible(1, n)]

\* The machine is a local variable of socket::run: this is its value outside.
NoMachine == New([cursor |-> 0, geid |-> 0])

NoSession == [mode |-> "none", next |-> 0, high |-> 0, live |-> 0]

------------------------------------------------------------------------------
(***************************************************************************)
(* Init: connect_with_connector has obtained the first snapshot and        *)
(* spawned the owner task.                                                 *)
(***************************************************************************)
Init ==
    /\ log = <<>> /\ session = NoSession
    /\ toServer = <<>> /\ toClient = <<>> /\ snap = NoSnapshot
    /\ faults = 0 /\ pushes = 0
    /\ pc = "start" /\ attempt = 0 /\ result = "ok"
    /\ store = [cursor |-> 0, geid |-> 0, content |-> {}]
    /\ machine = NoMachine
    /\ todo = <<>> /\ goLive = FALSE
    /\ status = "Disconnected" /\ controlId = FALSE
    /\ stopped = FALSE /\ stopSig = FALSE /\ closer = "idle"

------------------------------------------------------------------------------
(***************************************************************************)
(* The external server.  It answers every sync.hello in order; a newer     *)
(* hello supersedes an unfinished handoff.  Live events start at the       *)
(* high-water of the handoff, so nothing is sent twice for one hello.      *)
(***************************************************************************)

Commit(k) ==
    /\ Len(log) < MaxLog
    /\ log' = Append(log, k)
    /\ UNCHANGED <<session, toServer, toClient, snap, faults, pushes,
                   taskVars, innerVars>>

\* Events of the running handoff that no replay batch has carried yet.
Unsent == IF session.mode = "replay"
            THEN Visible(session.next, session.high) ELSE {}

ServerHello ==
    /\ toServer # <<>>
    /\ toServer' = Tail(toServer)
    /\ session' = [mode |-> "replay", next |-> Head(toServer) + 1,
                   high |-> Len(log), live |-> Len(log)]
    /\ UNCHANGED <<log, toClient, snap, faults, pushes, taskVars, innerVars>>

\* A batch: the unsent events up to some point, in increasing order.
ServerReplay ==
    /\ \E n \in 1..MaxLog : \E events \in [1..n -> Unsent] :
         /\ InOrder(session.next - 1, events)
         /\ \A g \in Unsent : g < events[n] => \E i \in 1..n : events[i] = g
         /\ toClient' = Append(toClient,
               [t |-> "replay", from |-> events[1], to |-> events[n],
                events |-> events])
         /\ session' = [session EXCEPT !.next = events[n] + 1]
    /\ UNCHANGED <<log, toServer, snap, faults, pushes, taskVars, innerVars>>

\* A handoff with nothing to replay may be announced by one empty batch whose
\* bounds are the cursor of the hello.
ServerEmptyReplay ==
    /\ session.mode = "replay" /\ Unsent = {} /\ session.next <= session.high
    /\ toClient' = Append(toClient,
          [t |-> "replay", from |-> session.next - 1, to |-> session.next - 1,
           events |-> <<>>])
    /\ session' = [session EXCEPT !.next = session.high + 1]
    /\ UNCHANGED <<log, toServer, snap, faults, pushes, taskVars, innerVars>>

ServerComplete ==
    /\ session.mode = "replay" /\ Unsent = {}
    /\ toClient' = Append(toClient,
          [t |-> "complete",
           cursor |-> IF CompleteCoversLive THEN session.live ELSE session.high])
    /\ session' = [session EXCEPT !.mode = "live"]
    /\ UNCHANGED <<log, toServer, snap, faults, pushes, taskVars, innerVars>>

\* The next visible event above the live position.  With LiveDuringReplay it
\* may be sent while replay batches are still to come.
ServerLive ==
    /\ session.mode # "none"
    /\ LiveDuringReplay \/ Unsent = {}
    /\ \E g \in Visible(session.live + 1, Len(log)) :
         /\ Visible(session.live + 1, g - 1) = {}
         /\ toClient' = Append(toClient, [t |-> "event", geid |-> g])
         /\ session' = [session EXCEPT !.live = g]
    /\ UNCHANGED <<log, toServer, snap, faults, pushes, taskVars, innerVars>>

\* sync.required (ring_miss, visibility_changed): the server abandons the
\* stream until the next hello.  An unknown state.* frame abandons nothing.
ServerPush ==
    /\ pushes < MaxPushes /\ session.mode # "none"
    /\ pushes' = pushes + 1
    /\ \/ /\ toClient' = Append(toClient, [t |-> "required"])
          /\ session' = NoSession
       \/ /\ toClient' = Append(toClient, [t |-> "state_unknown"])
          /\ UNCHANGED session
    /\ UNCHANGED <<log, toServer, snap, faults, taskVars, innerVars>>

\* auth.revoked, a terminal close code, or a frame that cannot be accepted.
ServerTerminal ==
    /\ faults < MaxFaults /\ session.mode # "none"
    /\ faults' = faults + 1
    /\ toClient' = Append(toClient, [t |-> "terminal"])
    /\ UNCHANGED <<log, session, toServer, snap, pushes, taskVars, innerVars>>

\* The HTTP snapshot is taken at one moment and installed at a later one.
ServerSnapshot ==
    /\ pc = "snapshot" /\ snap = NoSnapshot
    /\ snap' = <<Len(log)>>
    /\ UNCHANGED <<log, session, toServer, toClient, faults, pushes,
                   taskVars, innerVars>>

Server ==
    \/ \E k \in Kinds : Commit(k)
    \/ ServerHello \/ ServerReplay \/ ServerEmptyReplay \/ ServerComplete
    \/ ServerLive \/ ServerPush \/ ServerTerminal \/ ServerSnapshot

------------------------------------------------------------------------------
(***************************************************************************)
(* The owner task, engine::run.  A check of is_stopped that follows a      *)
(* subscription is merged with it: whether the host's stop comes before or *)
(* between the two, the task leaves by the same path.                      *)
(***************************************************************************)

\* A fresh subscription sees only later changes of stop_tx.
Subscribe == stopSig' = FALSE

\* The loop head, and load_access_token up to its await.
Start ==
    /\ pc = "start"
    /\ IF stopped
         THEN /\ pc' = "exit"
              /\ UNCHANGED <<status, stopSig>>
         ELSE /\ pc' = "token"
              /\ status' = IF attempt = 0 THEN "Connecting" ELSE "Reconnecting"
              /\ Subscribe
    /\ UNCHANGED <<serverVars, attempt, result, machine, todo, goLive, store,
                   controlId, stopped, closer>>

\* A token was obtained; connect_socket up to its await.
TokenLoaded ==
    /\ pc = "token"
    /\ IF stopped
         THEN pc' = "clear" /\ result' = "Terminal" /\ UNCHANGED stopSig
         ELSE pc' = "connect" /\ UNCHANGED result /\ Subscribe
    /\ UNCHANGED <<serverVars, attempt, machine, todo, goLive, store, status,
                   controlId, stopped, closer>>

\* provider.access_token failed, with a terminal error or another one.
TokenFailed ==
    /\ pc = "token" /\ faults < MaxFaults
    /\ faults' = faults + 1
    /\ \/ pc' = "exit"
       \/ pc' = IF ReconnectEnabled THEN "retry" ELSE "exit"
    /\ UNCHANGED <<log, session, toServer, toClient, snap, pushes, attempt,
                   result, machine, todo, goLive, innerVars>>

\* Mutant: no check of is_stopped after the subscription.
Connected_Unchecked ==
    /\ pc = "connect" /\ pc' = "ready"
    /\ toClient' = <<[t |-> "ready"]>>
    /\ machine' = BeginConnecting(New(store))
    /\ Subscribe
    /\ UNCHANGED <<log, session, toServer, snap, faults, pushes, attempt, result,
                   todo, goLive, store, status, controlId, stopped, closer>>

\* The connector returned a session; socket::run up to its first await.
Connected ==
    /\ pc = "connect"
    /\ IF stopped
         THEN /\ pc' = "clear" /\ result' = "ok"
              /\ UNCHANGED <<toClient, machine, stopSig>>
         ELSE /\ pc' = "ready"
              /\ toClient' = <<[t |-> "ready"]>>
              /\ machine' = BeginConnecting(New(store))
              /\ Subscribe
              /\ UNCHANGED result
    /\ UNCHANGED <<log, session, toServer, snap, faults, pushes, attempt, todo,
                   goLive, store, status, controlId, stopped, closer>>

\* The generation ends with result r; its futures are dropped.
EndSocket(r) ==
    /\ pc' = "clear" /\ result' = r /\ machine' = NoMachine
    /\ todo' = <<>> /\ goLive' = FALSE /\ snap' = NoSnapshot

\* connect, a send, a receive or a timeout failed; or provider.snapshot did.
SocketFailed ==
    /\ pc \in {"connect", "ready", "hello", "recv", "snapshot"}
    /\ faults < MaxFaults
    /\ faults' = faults + 1
    /\ \/ EndSocket("Transport")
       \/ pc \in {"connect", "ready", "snapshot"} /\ EndSocket("Terminal")
    /\ UNCHANGED <<log, session, toServer, toClient, pushes, attempt,
                   innerVars>>

\* The stop branch of a select: every await of the task has one.
StopObserved ==
    /\ pc \in Awaiting /\ stopSig
    /\ stopSig' = FALSE
    /\ \/ /\ pc \in {"token", "backoff"} /\ pc' = "exit"
          /\ UNCHANGED <<result, machine, todo, goLive, snap>>
       \/ pc = "connect" /\ EndSocket("Terminal")
       \/ pc \in Socket /\ EndSocket("ok")
    /\ UNCHANGED <<log, session, toServer, toClient, faults, pushes, attempt,
                   store, status, controlId, stopped, closer>>

\* clear_socket_state, the Disconnected event, and the choice of what is next.
ClearSocket ==
    /\ pc = "clear"
    /\ controlId' = FALSE
    /\ session' = NoSession /\ toServer' = <<>> /\ toClient' = <<>>
    /\ pc' = IF stopped \/ result # "Transport" \/ ~ReconnectEnabled
               THEN "exit" ELSE "retry"
    /\ UNCHANGED <<log, snap, faults, pushes, attempt, result, machine, todo,
                   goLive, store, status, stopped, stopSig, closer>>

\* wait_for_retry up to its await: it subscribes without another check.
BeginBackoff ==
    /\ pc = "retry"
    /\ IF attempt >= MaxAttempts
         THEN pc' = "exit" /\ UNCHANGED <<status, stopSig>>
         ELSE pc' = "backoff" /\ status' = "Reconnecting" /\ Subscribe
    /\ UNCHANGED <<serverVars, attempt, result, machine, todo, goLive, store,
                   controlId, stopped, closer>>

\* The backoff delay elapses.
BackoffElapsed ==
    /\ pc = "backoff"
    /\ IF stopped
         THEN pc' = "exit" /\ UNCHANGED attempt
         ELSE pc' = "start" /\ attempt' = attempt + 1
    /\ UNCHANGED <<serverVars, result, machine, todo, goLive, innerVars>>

\* After the loop: clear_socket_state again, then the final status.
Exit ==
    /\ pc = "exit"
    /\ controlId' = FALSE /\ status' = "Closed" /\ pc' = "done"
    /\ UNCHANGED <<serverVars, attempt, result, machine, todo, goLive, store,
                   stopped, stopSig, closer>>

------------------------------------------------------------------------------
(***************************************************************************)
(* One socket generation, socket::run.                                     *)
(***************************************************************************)

\* connection.ready, the first frame: identity and outbound queue are set.
ReceiveReady ==
    /\ pc = "ready" /\ toClient # <<>>
    /\ toClient' = Tail(toClient)
    /\ machine' = BeginSync(AcceptReady(machine))
    /\ controlId' = TRUE /\ status' = "Ready" /\ pc' = "hello"
    /\ UNCHANGED <<log, session, toServer, snap, faults, pushes, attempt,
                   result, todo, goLive, store, stopped, stopSig, closer>>

SendHello ==
    /\ pc = "hello"
    /\ toServer' = Append(toServer, machine.cursor)
    /\ status' = "Syncing" /\ pc' = "recv"
    /\ UNCHANGED <<log, session, toClient, snap, faults, pushes, attempt,
                   result, machine, todo, goLive, store, controlId, stopped,
                   stopSig, closer>>

\* replace_snapshot_and_hello up to the await of provider.snapshot.
Resync ==
    /\ machine' = RequireSnapshot(machine)
    /\ status' = "Syncing" /\ pc' = "snapshot"
    /\ todo' = <<>> /\ goLive' = FALSE

\* A verdict other than "ok": recover_sync_error.
SyncFailure(verdict) ==
    IF Recoverable(verdict)
      THEN Resync /\ UNCHANGED <<result, snap>>
      ELSE EndSocket("Sync") /\ UNCHANGED status

Receive(type) ==
    /\ pc = "recv" /\ toClient # <<>> /\ Head(toClient).t = type
    /\ toClient' = Tail(toClient)
    /\ UNCHANGED <<log, session, toServer, faults, pushes, attempt, controlId,
                   stopped, stopSig, closer>>

\* Mutant: Live is advertised before the queued events are applied.
Accept_LiveTooSoon(events, live) ==
    /\ todo' = events /\ goLive' = live /\ pc' = "apply"
    /\ status' = IF live THEN "Live" ELSE status
    /\ UNCHANGED <<result, snap>>

\* The handler goes on to apply `events' and stays in this frame until done.
Accept(events, live) ==
    /\ todo' = events /\ goLive' = live /\ pc' = "apply"
    /\ UNCHANGED <<result, snap, status>>

ReceiveReplay ==
    /\ Receive("replay")
    /\ LET frame == Head(toClient)
           verdict == ReplayVerdict(machine, frame)
       IN  IF verdict = "ok"
             THEN machine' = AcceptReplay(machine, frame)
                  /\ Accept(frame.events, FALSE)
             ELSE SyncFailure(verdict)
    /\ UNCHANGED store

\* Mutant: the events queued during replay are dropped at completion.
ReceiveComplete_DropsQueue ==
    /\ Receive("complete")
    /\ LET cursor == Head(toClient).cursor
           verdict == CompleteVerdict(machine)
       IN  IF verdict = "ok"
             THEN /\ machine' = AcceptComplete(machine, cursor)
                  /\ store' = [store EXCEPT !.cursor = cursor]
                  /\ Accept(<<>>, TRUE)
             ELSE SyncFailure(verdict) /\ UNCHANGED store

\* accept_complete, then update_cursor, before the queue is applied.
ReceiveComplete ==
    /\ Receive("complete")
    /\ LET cursor == Head(toClient).cursor
           verdict == CompleteVerdict(machine)
       IN  IF verdict = "ok"
             THEN /\ machine' = AcceptComplete(machine, cursor)
                  /\ store' = [store EXCEPT !.cursor = cursor]
                  /\ Accept(machine.queued, TRUE)
             ELSE SyncFailure(verdict) /\ UNCHANGED store

ReceiveEvent ==
    /\ Receive("event")
    /\ LET event == Head(toClient).geid
           verdict == LiveVerdict(machine, event)
       IN  IF verdict = "ok"
             THEN machine' = AcceptLiveEvent(machine, event)
                  /\ Accept(ReleasedByLive(machine, event), FALSE)
             ELSE SyncFailure(verdict)
    /\ UNCHANGED store

\* Mutant: the request for a new snapshot is ignored.
ReceiveSyncRequired_Ignored ==
    /\ \/ Receive("required")
       \/ Receive("state_unknown")
    /\ UNCHANGED <<pc, machine, todo, goLive, status, result, snap, store>>

\* sync.required, or a state.* frame this client does not know.
ReceiveSyncRequired ==
    /\ \/ Receive("required")
       \/ Receive("state_unknown")
    /\ Resync
    /\ UNCHANGED <<result, snap, store>>

ReceiveTerminal ==
    /\ Receive("terminal")
    /\ EndSocket("Terminal")
    /\ UNCHANGED <<status, store>>

\* Mutant: an event the projection does not support is skipped, and the cursor
\* moves past it.
ApplyEvent_SkipsUnsupported ==
    /\ pc = "apply" /\ todo # <<>>
    /\ LET event == Head(todo)
       IN  IF event > store.geid
             THEN /\ store' = [cursor |-> event, geid |-> event,
                               content |-> IF log[event] = "known"
                                             THEN store.content \cup {event}
                                             ELSE store.content]
                  /\ todo' = Tail(todo)
                  /\ UNCHANGED <<pc, machine, goLive, status>>
             ELSE Resync /\ UNCHANGED store
    /\ UNCHANGED <<serverVars, attempt, result, controlId, stopped, stopSig,
                   closer>>

\* StateStore::apply_event on the next accepted event: validate_event, then
\* the projection, the cursor and the GEID in one publication.
ApplyEvent ==
    /\ pc = "apply" /\ todo # <<>>
    /\ LET event == Head(todo)
       IN  IF event > store.geid /\ log[event] = "known"
             THEN /\ store' = [cursor |-> event, geid |-> event,
                               content |-> store.content \cup {event}]
                  /\ todo' = Tail(todo)
                  /\ UNCHANGED <<pc, machine, goLive, status>>
             ELSE Resync /\ UNCHANGED store
    /\ UNCHANGED <<serverVars, attempt, result, controlId, stopped, stopSig,
                   closer>>

\* The handler returns; only sync.complete publishes Live.
FrameDone ==
    /\ pc = "apply" /\ todo = <<>>
    /\ pc' = "recv" /\ goLive' = FALSE
    /\ status' = IF goLive THEN "Live" ELSE status
    /\ UNCHANGED <<serverVars, attempt, result, machine, todo, store,
                   controlId, stopped, stopSig, closer>>

\* Mutant: the new snapshot is installed and no sync.hello follows.
InstallSnapshot_NoHello ==
    /\ pc = "snapshot" /\ snap # NoSnapshot
    /\ snap' = NoSnapshot
    /\ store' = SnapshotAt(snap[1])
    /\ machine' = BeginSync(ReplaceSnapshot(machine, SnapshotAt(snap[1])))
    /\ pc' = "recv"
    /\ UNCHANGED <<log, session, toServer, toClient, faults, pushes, attempt,
                   result, todo, goLive, status, controlId, stopped, stopSig,
                   closer>>

\* The rest of replace_snapshot_and_hello: store, machine, hello.
InstallSnapshot ==
    /\ pc = "snapshot" /\ snap # NoSnapshot
    /\ snap' = NoSnapshot
    /\ store' = SnapshotAt(snap[1])
    /\ machine' = BeginSync(ReplaceSnapshot(machine, SnapshotAt(snap[1])))
    /\ toServer' = Append(toServer, snap[1])
    /\ pc' = "recv"
    /\ UNCHANGED <<log, session, toClient, faults, pushes, attempt, result,
                   todo, goLive, status, controlId, stopped, stopSig, closer>>

Task ==
    \/ Start \/ TokenLoaded \/ Connected \/ StopObserved \/ ClearSocket
    \/ BeginBackoff \/ BackoffElapsed \/ Exit
    \/ ReceiveReady \/ SendHello \/ ReceiveReplay \/ ReceiveComplete
    \/ ReceiveEvent \/ ReceiveSyncRequired \/ ReceiveTerminal
    \/ ApplyEvent \/ FrameDone \/ InstallSnapshot

------------------------------------------------------------------------------
(***************************************************************************)
(* The host: close() raises the flag, then signals, then waits for the     *)
(* final status.  A signal that finds no subscribed receiver is lost.      *)
(***************************************************************************)

RequestClose ==
    /\ HostCloses /\ closer = "idle" /\ closer' = "signal" /\ stopped' = TRUE
    /\ UNCHANGED <<serverVars, taskVars, store, status, controlId, stopSig>>

SignalClose ==
    /\ closer = "signal" /\ closer' = "wait"
    /\ stopSig' = (pc \in Awaiting)
    /\ UNCHANGED <<serverVars, taskVars, store, status, controlId, stopped>>

CloseReturns ==
    /\ closer = "wait" /\ status = "Closed" /\ closer' = "returned"
    /\ UNCHANGED <<serverVars, taskVars, store, status, controlId, stopped,
                   stopSig>>

Next ==
    \/ Server \/ Task \/ TokenFailed \/ SocketFailed
    \/ RequestClose \/ SignalClose \/ CloseReturns

\* The runtime polls the task and a host call that can run, the server and the
\* provider answer; nothing makes a failure, an event or a close happen.
Fairness ==
    /\ WF_vars(Task)
    /\ WF_vars(ServerHello) /\ WF_vars(ServerReplay) /\ WF_vars(ServerComplete)
    /\ WF_vars(ServerLive) /\ WF_vars(ServerSnapshot)
    /\ WF_vars(SignalClose) /\ WF_vars(CloseReturns)

Spec == Init /\ [][Next]_vars /\ Fairness

------------------------------------------------------------------------------
(***************************************************************************)
(* Properties.                                                             *)
(***************************************************************************)

\* Every variable keeps its type; positions stay within the server's log.
TypeOK ==
    /\ log \in Seq(Kinds)
    /\ session \in {NoSession}
                   \cup [mode : {"replay", "live"}, next : Nat \ {0},
                         high : Nat, live : Nat]
    /\ toServer \in Seq(Nat) /\ toClient \in Seq(Frames)
    /\ snap \in Seq(Nat)
    /\ faults \in Nat /\ pushes \in Nat
    /\ pc \in Points /\ attempt \in Nat /\ result \in Results
    /\ machine \in Machines /\ todo \in Seq(Nat) /\ goLive \in BOOLEAN
    /\ store \in Stores /\ status \in Statuses
    /\ controlId \in BOOLEAN /\ stopped \in BOOLEAN /\ stopSig \in BOOLEAN
    /\ closer \in {"idle", "signal", "wait", "returned"}

\* The cursor the store would resume from never lies beyond an event the
\* state lacks: because the client accepts GEID gaps (accept_ordered_event),
\* an event skipped once would be lost for good.
NoSkippedEvent == Visible(1, store.cursor) \subseteq store.content

\* The same where it bites: no sync.hello in flight asks the server to resume
\* after an event that the state lacks.
ResumeNeverSkips ==
    \A i \in DOMAIN toServer : Visible(1, toServer[i]) \subseteq store.content

\* wait_until_live is the host's publication barrier: while Live is advertised
\* on a running socket, the replay queue has been applied and the projection
\* is at most the one event being handled behind what the machine accepted.
LiveBarrier ==
    status = "Live" /\ pc \in {"recv", "apply"} =>
        /\ machine.phase = "Live" /\ machine.queued = <<>> /\ ~goLive
        /\ \/ todo = <<>> /\ machine.geid = store.geid
           \/ todo = <<machine.geid>>

\* A SyncError ends the connection for good, so it is reserved for a server
\* that breaks the protocol (recover_sync_error); the server here never does.
OnlyBrokenServerFails == result # "Sync"

\* What the host sees is an ever longer prefix of the server's history.
Feed == INSTANCE StateFeed WITH history <- log, view <- store.content

\* The connection implements StateFeed: no step, snapshot or reconnect makes
\* the projection skip an event, lose one or fall back.
ImplementsFeed == Feed!Spec

\* close() returns: the owner task always reaches Closed after a stop, even
\* when the signal of stop_tx finds no receiver.
CloseTerminates == closer = "signal" ~> closer = "returned"

\* With finitely many failures the handoff never hangs: the connection keeps
\* coming back to Live or ends Closed.
HandoffSettles == []<>(status \in {"Live", "Closed"})

\* Once events and failures stop, a connection that stays up has every event.
Converges ==
    <>[](\/ status = "Closed"
         \/ status = "Live" /\ Visible(1, Len(log)) = store.content)

==============================================================================
