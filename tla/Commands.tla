------------------------------- MODULE Commands -------------------------------
(***************************************************************************)
(* Request-correlated commands of a ControlConnection: send_command        *)
(* (connection.rs), called by any number of host tasks, and the part of    *)
(* the engine task that serves them (engine.rs, engine/socket.rs).  A call *)
(* reads the status, reserves a waiter in the pending table, takes the     *)
(* outbound sender, queues its frame and waits for the answer or the       *)
(* deadline; these are separate steps, because sockets end, are cleared    *)
(* and are opened again between them.                                      *)
(*                                                                         *)
(* The synchronization protocol is ControlConnection's matter; here it     *)
(* only moves the status.  The server is external: it executes a frame it  *)
(* was sent on a live socket and answers in any order.                     *)
(***************************************************************************)
EXTENDS Integers, Sequences, FiniteSets

CONSTANTS
    Callers,                     \* host tasks
    MaxPending,                  \* maximum_pending_commands
    Slack,                       \* of the outbound queue over it (4 in the code)
    MaxCommands, MaxSockets      \* bounds

ASSUME CommandsAssumption ==
    /\ MaxPending \in Nat \ {0} /\ Slack \in Nat
    /\ MaxCommands \in Nat /\ MaxSockets \in Nat

VARIABLES
    status,        \* status_tx
    engine,        \* where the engine task is
    sock,          \* number of the last socket
    ready,         \* the socket whose control_id and lease are published, or 0
    outbound,      \* the socket whose sender is installed, or 0
    queue,         \* frames in the outbound queue of the socket that is up
    pending,       \* request ids with a waiter
    result,        \* what each waiter was sent
    stopped,       \* the host asked for close
    call,          \* the call each host task is in
    nextId,        \* sequence
    inbox,         \* server: frames it received on the socket that is up
    answers,       \* server: answers on their way on that socket
    executed,      \* server, history: request ids it executed
    early,         \* history: presence frames the server received on a socket
                   \* whose replay was not complete
    synced,        \* history: the last socket that became live
    announced,     \* history: the last socket whose loss was announced
    returned       \* history: what each request returned

engineVars == <<status, engine, sock, ready, outbound, stopped, synced, announced>>
callVars == <<call, nextId, returned>>
serverVars == <<inbox, answers, executed, early>>
vars == <<engineVars, callVars, serverVars, queue, pending, result>>

Ids == 1..MaxCommands
Kinds == {"presence", "auth"}
Outcomes == {"ok", "error"}
Results == Outcomes \cup {"Closed"}
Idle == [at |-> "idle", id |-> 0, kind |-> "auth", chan |-> 0]

Init ==
    /\ status = "Connecting" /\ engine = "down" /\ sock = 0
    /\ ready = 0 /\ outbound = 0 /\ queue = <<>>
    /\ pending = {} /\ result = [i \in Ids |-> "none"]
    /\ stopped = FALSE
    /\ call = [c \in Callers |-> Idle] /\ nextId = 1
    /\ inbox = {} /\ answers = {} /\ executed = {}
    /\ early = {} /\ synced = 0 /\ announced = 0
    /\ returned = [i \in Ids |-> "none"]

------------------------------------------------------------------------------
(***************************************************************************)
(* A call.                                                                 *)
(***************************************************************************)

At(c, point) == call' = [call EXCEPT ![c].at = point]

\* Mutant: a call that ends leaves its waiter to the answer.
Ends_NoGuard(c, what) ==
    /\ call' = [call EXCEPT ![c] = Idle]
    /\ returned' = [returned EXCEPT ![call[c].id] = what]
    /\ UNCHANGED pending

\* The future ends: PendingCommandGuard removes the waiter.
Ends(c, what) ==
    /\ call' = [call EXCEPT ![c] = Idle]
    /\ pending' = pending \ {call[c].id}
    /\ returned' = [returned EXCEPT ![call[c].id] = what]

\* The status a command may begin in: a lease may be renewed before replay ends.
MayBegin(kind) ==
    status = "Live" \/ (kind = "auth" /\ status \in {"Ready", "Syncing"})

\* set_presence, update_access: status check and request id.
Call(c, kind) ==
    /\ call[c].at = "idle" /\ nextId <= MaxCommands
    /\ nextId' = nextId + 1
    /\ IF MayBegin(kind)
         THEN /\ call' = [call EXCEPT ![c] = [at |-> "insert", id |-> nextId,
                                              kind |-> kind, chan |-> 0]]
              /\ UNCHANGED returned
         ELSE /\ returned' = [returned EXCEPT ![nextId] = "NotLive"]
              /\ UNCHANGED call
    /\ UNCHANGED <<engineVars, serverVars, queue, pending, result>>

\* The waiter is reserved, unless the table is full.
Insert(c) ==
    /\ call[c].at = "insert"
    /\ IF Cardinality(pending) >= MaxPending
         THEN /\ call' = [call EXCEPT ![c] = Idle]
              /\ returned' = [returned EXCEPT ![call[c].id] = "Full"]
              /\ UNCHANGED pending
         ELSE /\ pending' = pending \cup {call[c].id} /\ At(c, "outbound")
              /\ UNCHANGED returned
    /\ UNCHANGED <<engineVars, nextId, serverVars, queue, result>>

\* The sender is cloned, whichever socket it belongs to by now.
TakeOutbound(c) ==
    /\ call[c].at = "outbound"
    /\ IF outbound = 0
         THEN Ends(c, "NotLive")
         ELSE /\ call' = [call EXCEPT ![c].at = "send", ![c].chan = outbound]
              /\ UNCHANGED <<pending, returned>>
    /\ UNCHANGED <<engineVars, nextId, serverVars, queue, result>>

\* The queue of a socket whose task has ended refuses the frame.
Open(s) == s = sock /\ engine \in {"up", "busy"}

Enqueue(c) ==
    /\ call[c].at = "send" /\ Open(call[c].chan)
    /\ Len(queue) < MaxPending + Slack
    /\ queue' = Append(queue, [id |-> call[c].id, kind |-> call[c].kind])
    /\ At(c, "wait")
    /\ UNCHANGED <<engineVars, nextId, returned, serverVars, pending, result>>

EnqueueFails(c) ==
    /\ call[c].at = "send" /\ ~Open(call[c].chan)
    /\ Ends(c, "Closed")
    /\ UNCHANGED <<engineVars, nextId, serverVars, queue, result>>

Answered(c) ==
    /\ call[c].at = "wait" /\ result[call[c].id] # "none"
    /\ Ends(c, result[call[c].id])
    /\ UNCHANGED <<engineVars, nextId, serverVars, queue, result>>

\* Mutant: no deadline.
Expires_Never(c) == FALSE /\ UNCHANGED vars

\* command_timeout, which runs only once the frame is queued.
Expires(c) ==
    /\ call[c].at = "wait" /\ result[call[c].id] = "none"
    /\ Ends(c, "CommandTimeout")
    /\ UNCHANGED <<engineVars, nextId, serverVars, queue, result>>

\* The host drops the future at one of its awaits.
Cancel(c) ==
    /\ call[c].at \in {"outbound", "send", "wait"}
    /\ Ends(c, "cancelled")
    /\ UNCHANGED <<engineVars, nextId, serverVars, queue, result>>

------------------------------------------------------------------------------
(***************************************************************************)
(* The engine task.                                                        *)
(***************************************************************************)

\* connection.ready: identity and lease are published, then the sender.
SocketReady ==
    /\ engine = "down" /\ sock < MaxSockets /\ ~stopped
    /\ sock' = sock + 1 /\ ready' = sock + 1 /\ engine' = "opening"
    /\ UNCHANGED <<status, outbound, stopped, synced, announced, callVars,
                   serverVars, queue, pending, result>>

InstallOutbound ==
    /\ engine = "opening"
    /\ outbound' = sock /\ queue' = <<>> /\ engine' = "up"
    /\ UNCHANGED <<status, sock, ready, stopped, synced, announced, callVars,
                   serverVars, pending, result>>

\* set_status: Ready at once, Syncing after the hello ...
HelloSent ==
    /\ engine = "up" /\ status \notin {"Syncing", "Live"}
    /\ status' = IF status = "Ready" THEN "Syncing" ELSE "Ready"
    /\ UNCHANGED <<engine, sock, ready, outbound, stopped, synced, announced,
                   callVars, serverVars, queue, pending, result>>

\* ... and Live after the replay.
ReplayEnds ==
    /\ engine = "up" /\ status = "Syncing"
    /\ status' = "Live" /\ synced' = sock
    /\ UNCHANGED <<engine, sock, ready, outbound, stopped, announced, callVars,
                   serverVars, queue, pending, result>>

\* replace_snapshot_and_hello: no queue is served until the snapshot is there.
ResyncBegins ==
    /\ engine = "up" /\ status = "Live"
    /\ status' = "Syncing" /\ engine' = "busy"
    /\ UNCHANGED <<sock, ready, outbound, stopped, synced, announced, callVars,
                   serverVars, queue, pending, result>>

ResyncEnds ==
    /\ engine = "busy" /\ engine' = "up"
    /\ UNCHANGED <<status, sock, ready, outbound, stopped, synced, announced,
                   callVars, serverVars, queue, pending, result>>

\* One queued frame goes out.
Forward ==
    /\ engine = "up" /\ status \in {"Syncing", "Live"} /\ queue # <<>>
    /\ queue' = Tail(queue)
    /\ inbox' = inbox \cup {Head(queue).id}
    /\ early' = IF Head(queue).kind = "presence" /\ synced # sock
                  THEN early \cup {Head(queue).id} ELSE early
    /\ UNCHANGED <<engineVars, callVars, answers, executed, pending, result>>

\* Mutant: an answer completes whichever waiter is there.
ResolvePending_Any(id, what) ==
    IF pending # {}
      THEN LET p == CHOOSE p \in pending : TRUE
           IN pending' = pending \ {p} /\ result' = [result EXCEPT ![p] = what]
      ELSE UNCHANGED <<pending, result>>

\* resolve_pending: exactly the waiter of the request, if it is still there.
ResolvePending(id, what) ==
    IF id \in pending
      THEN pending' = pending \ {id} /\ result' = [result EXCEPT ![id] = what]
      ELSE UNCHANGED <<pending, result>>

\* CommandOk, CommandError
TakeAnswer ==
    /\ engine = "up" /\ status \in {"Syncing", "Live"}
    /\ \E a \in answers :
         /\ answers' = answers \ {a}
         /\ ResolvePending(a.id, a.outcome)
    /\ UNCHANGED <<engineVars, callVars, inbox, executed, early, queue>>

\* The socket ends, by its peer, by an error or by close: its task returns and
\* drops the queue with what is in it.
SocketEnds ==
    /\ engine \in {"opening", "up", "busy"}
    /\ engine' = "clearing" /\ queue' = <<>> /\ inbox' = {} /\ answers' = {}
    /\ UNCHANGED <<status, sock, ready, outbound, stopped, synced, announced,
                   callVars, executed, early, pending, result>>

\* clear_socket_state: the sender is removed under its lock ...
ClearOutbound ==
    /\ engine = "clearing"
    /\ outbound' = 0 /\ ready' = 0 /\ engine' = "draining"
    /\ UNCHANGED <<status, sock, stopped, synced, announced, callVars,
                   serverVars, queue, pending, result>>

\* Mutant: the waiters are left to their deadlines.
DrainPending_Forgets ==
    /\ engine = "draining"
    /\ engine' = "cleared" /\ pending' = {}
    /\ UNCHANGED <<status, sock, ready, outbound, stopped, synced, announced,
                   callVars, serverVars, queue, result>>

\* ... and then every waiter is completed with Closed.
DrainPending ==
    /\ engine = "draining"
    /\ engine' = "cleared" /\ pending' = {}
    /\ result' = [i \in Ids |-> IF i \in pending THEN "Closed" ELSE result[i]]
    /\ UNCHANGED <<status, sock, ready, outbound, stopped, synced, announced,
                   callVars, serverVars, queue>>

\* Mutant: a lost socket is announced before it is cleared.
Announce_First ==
    /\ engine \in {"clearing", "cleared"}
    /\ announced' = sock
    /\ engine' = IF engine = "cleared" THEN "waiting" ELSE engine
    /\ UNCHANGED <<status, sock, ready, outbound, stopped, synced, callVars,
                   serverVars, queue, pending, result>>

\* The Disconnected event.
Announce ==
    /\ engine = "cleared"
    /\ announced' = sock /\ engine' = "waiting"
    /\ UNCHANGED <<status, sock, ready, outbound, stopped, synced, callVars,
                   serverVars, queue, pending, result>>

\* wait_for_retry: the status leaves Live only here.
Retries ==
    /\ engine = "waiting" /\ ~stopped
    /\ status' = "Reconnecting" /\ engine' = "down"
    /\ UNCHANGED <<sock, ready, outbound, stopped, synced, announced, callVars,
                   serverVars, queue, pending, result>>

\* The last clear_socket_state, and Closed; reconnecting may also be given up.
Finishes ==
    /\ engine \in {"waiting", "down"}
    /\ engine' = "ended" /\ status' = "Closed"
    /\ outbound' = 0 /\ ready' = 0 /\ pending' = {}
    /\ result' = [i \in Ids |-> IF i \in pending THEN "Closed" ELSE result[i]]
    /\ UNCHANGED <<sock, stopped, synced, announced, callVars, serverVars, queue>>

\* close; the engine sees it at whatever it awaits.
Close ==
    /\ ~stopped /\ stopped' = TRUE
    /\ UNCHANGED <<status, engine, sock, ready, outbound, synced, announced,
                   callVars, serverVars, queue, pending, result>>

------------------------------------------------------------------------------
\* The server executes what it received and answers it (external).
Serves ==
    /\ \E id \in inbox, outcome \in Outcomes :
         /\ inbox' = inbox \ {id}
         /\ answers' = answers \cup {[id |-> id, outcome |-> outcome]}
         /\ executed' = IF outcome = "ok" THEN executed \cup {id} ELSE executed
    /\ UNCHANGED <<engineVars, callVars, early, queue, pending, result>>

Progress(c) == \/ Insert(c) \/ TakeOutbound(c) \/ Enqueue(c) \/ EnqueueFails(c)
               \/ Answered(c) \/ Expires(c)

Clears == ClearOutbound \/ DrainPending \/ Announce

Next ==
    \/ \E c \in Callers : \/ \E k \in Kinds : Call(c, k)
                          \/ Progress(c) \/ Cancel(c)
    \/ SocketReady \/ InstallOutbound \/ HelloSent \/ ReplayEnds
    \/ ResyncBegins \/ ResyncEnds \/ Forward \/ TakeAnswer \/ SocketEnds \/ Clears \/ Retries \/ Finishes
    \/ Close \/ Serves

\* A call and the engine are polled while they can go on; a provider call ends,
\* and the select of the socket loop takes every branch that stays ready.
Fairness ==
    /\ \A c \in Callers : WF_vars(Progress(c))
    /\ WF_vars(InstallOutbound) /\ WF_vars(ResyncEnds) /\ WF_vars(HelloSent)
    /\ SF_vars(Forward) /\ WF_vars(Clears)

Spec == Init /\ [][Next]_vars /\ Fairness

------------------------------------------------------------------------------
(***************************************************************************)
(* Properties.                                                             *)
(***************************************************************************)

InFlight(c) == call[c].at \in {"outbound", "send", "wait"}

\* Every waiter belongs to a call in flight and the table keeps to its
\* capacity, whatever is cancelled, answered late or drained.
TypeOK ==
    /\ status \in {"Connecting", "Reconnecting", "Ready", "Syncing", "Live", "Closed"}
    /\ engine \in {"down", "opening", "up", "busy", "clearing", "draining",
                   "cleared", "waiting", "ended"}
    /\ outbound \in {0, sock}
    /\ Len(queue) <= MaxPending + Slack
    /\ result \in [Ids -> Results \cup {"none"}]
    /\ pending \subseteq {call[c].id : c \in {d \in Callers : InFlight(d)}}
    /\ Cardinality(pending) <= MaxPending

\* connection.rs:215: a call that waits on a socket that was lost has its
\* result: it never sits out the deadline for an answer that cannot come.
LossWakes ==
    \A c \in Callers :
        call[c].at = "wait" /\ result[call[c].id] = "none"
          => /\ call[c].chan = sock
             /\ engine \in {"up", "busy", "clearing", "draining"}

\* engine.rs:66: an answer completes exactly its own request: a call that
\* returned ok was executed by the server, and one that returned NotLive or
\* found the table full never will be.
OwnAnswer ==
    \A i \in Ids :
        /\ returned[i] = "ok" => i \in executed
        /\ returned[i] \in {"NotLive", "Full"}
             => i \notin executed \cup inbox
                /\ \A k \in DOMAIN queue : queue[k].id # i

\* engine.rs:47: whoever sees the loss of a socket announced no longer sees
\* its identity or its lease.
IdentityFirst == ready # 0 => ready > announced

\* Every call returns, through any number of lost sockets.
CommandsReturn == \A c \in Callers : call[c].at # "idle" ~> call[c].at = "idle"

\* connection.rs:185: presence is not sent on a socket before replay completion.
PresenceAfterReplay == early = {}

==============================================================================
