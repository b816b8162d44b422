------------------------------- MODULE Facade -------------------------------
(***************************************************************************)
(* The high-level client (zephyrvox-sdk): connect, join_voice, leave_voice *)
(* and shutdown of client.rs, voice_api.rs and lifecycle.rs, called by     *)
(* several host tasks on clones of one Client; the close and leave of a    *)
(* voice handle (voice.rs); and one event relay per control connection     *)
(* (events.rs), which stops media when authority is lost and replays the   *)
(* remembered join after a reconnect.                                      *)
(*                                                                         *)
(* Each step runs from one await to the next.  The control connection is   *)
(* reduced to what the facade sees of it (status, id, events), a UDP       *)
(* session to whether it runs; their own modules are ControlConnection and *)
(* VoiceSession.  Connection n is the one of generation n.  Voice is       *)
(* encrypted; sid 0, id 0, handle 0 and connection 0 mean none.            *)
(***************************************************************************)
EXTENDS Naturals, Sequences

CONSTANTS
    Hosts,           \* host tasks
    Channels,        \* voice channels
    AutoRejoin,      \* ClientConfig::auto_rejoin_voice
    OldHandles,      \* whether hosts use a handle after it was replaced
    EventCapacity,   \* of the realtime event channel
    MaxConnections, MaxSockets, MaxSids, MaxHandles, MaxCalls

ASSUME FacadeAssumption ==
    /\ AutoRejoin \in BOOLEAN /\ OldHandles \in BOOLEAN
    /\ EventCapacity \in Nat \ {0} /\ MaxConnections \in Nat \ {0}
    /\ Hosts \cap (0..MaxConnections) = {}   \* a relay is named by its generation

VARIABLES
    \* ClientInner
    stopped, control, generation, state, voice, intent, keys,
    voiceGate, controlLock, shutdownGate,   \* holders of the async mutexes
    \* control connections, as the facade sees them
    conns, queue, sockets,
    \* voice handles: one record per VoiceSession ever started
    handles,
    \* the server's voice binding of this user, and the sids it has issued
    binding, sids,
    \* tasks
    pc, loc, calls,
    \* history
    shut, leftVoice

inner == <<stopped, control, generation, state, voice, intent, keys,
           voiceGate, controlLock, shutdownGate>>
connVars == <<conns, queue, sockets>>
serverVars == <<binding, sids>>
taskVars == <<pc, loc, calls>>
history == <<shut, leftVoice>>
vars == <<inner, connVars, handles, serverVars, taskVars, history>>

Connections == 1..MaxConnections
Relays == Connections                 \* the relay of generation n is task n
Tasks == Hosts \cup Relays
Nobody == 0
NoIntent == [sid |-> 0, channel |-> 0]
NoBinding == [id |-> 0, sid |-> 0]
Fresh == [status |-> "None", id |-> 0, stop |-> FALSE]
NoLocals == [channel |-> 0, conn |-> 0, id |-> 0, gen |-> 0, sid |-> 0,
             created |-> FALSE, handle |-> 0, saved |-> FALSE]

Init ==
    /\ stopped = FALSE /\ control = 0 /\ generation = 0 /\ state = 0
    /\ voice = 0 /\ intent = NoIntent /\ keys = {}
    /\ voiceGate = Nobody /\ controlLock = Nobody /\ shutdownGate = Nobody
    /\ conns = [c \in Connections |-> Fresh]
    /\ queue = [c \in Connections |-> <<>>]
    /\ sockets = 0 /\ handles = <<>>
    /\ binding = NoBinding /\ sids = 0
    /\ pc = [t \in Tasks |-> IF t \in Hosts THEN "idle" ELSE "unborn"]
    /\ loc = [t \in Tasks |-> NoLocals] /\ calls = 0
    /\ shut = FALSE /\ leftVoice = FALSE

------------------------------------------------------------------------------
(***************************************************************************)
(* Shared pieces.                                                          *)
(***************************************************************************)

Goto(t, point) == pc' = [pc EXCEPT ![t] = point]

\* A task's call is over: a host is idle again, a relay waits for events.
Return(t) ==
    /\ Goto(t, IF t \in Hosts THEN "idle" ELSE "recv")
    /\ loc' = [loc EXCEPT ![t] = NoLocals]

\* A host starts a call.
Call(h, point, locals) ==
    /\ pc[h] = "idle" /\ calls < MaxCalls
    /\ calls' = calls + 1
    /\ Goto(h, point) /\ loc' = [loc EXCEPT ![h] = locals]

\* The broadcast channel keeps the newest EventCapacity events for the relay
\* that subscribed when its generation was installed; a relay that lags goes on
\* with the oldest event kept.
Emit(c, e) ==
    LET all == Append(queue[c], e)
        kept == IF Len(all) > EventCapacity THEN Tail(all) ELSE all
    IN  queue' = IF c > generation THEN queue ELSE [queue EXCEPT ![c] = kept]

\* The worker's finish, which the close of a session waits for: the worker
\* has ended and dropped the key.
Halt(h) == [handles EXCEPT ![h].running = FALSE]

\* The close of a session may also never return: if the worker ends by itself
\* between the status check and the publication of Disconnecting
\* (VoiceSession, StopReturns), the caller waits for a terminal status that
\* was overwritten.  These are the points of such a caller: inside the voice
\* gate, inside it as a shutdown, or in a call on the handle.
Hanging == {"hungGate", "hungShut", "hungHandle"}
Hung == \E t \in Tasks : pc[t] \in Hanging

\* The tear-down lock of handle h is held by a leave of h that is at the
\* server, and for ever by a close of h that hangs.
TeardownFree(h) ==
    ~ \E t \in Tasks : /\ pc[t] \in {"leaveHttp", "handleHttp"} \cup Hanging
                       /\ loc[t].handle = h

\* Task t, which closes the running session of handle h, hangs at this point.
\* The worker's own end drops the key.
Hangs(t, h, point) ==
    /\ handles[h].running /\ TeardownFree(h)
    /\ handles' = Halt(h) /\ keys' = keys \ {handles[h].sid}
    /\ Goto(t, point) /\ loc' = [loc EXCEPT ![t] = [NoLocals EXCEPT !.handle = h]]

\* VoiceSession::clear_voice_intent
ClearOwnIntent(h) ==
    IF intent.sid = handles[h].sid THEN NoIntent ELSE intent

------------------------------------------------------------------------------
(***************************************************************************)
(* connect_with_optional_connector.                                        *)
(***************************************************************************)

Connect(h) ==
    /\ ~stopped /\ Call(h, "connectLock", NoLocals)
    /\ UNCHANGED <<inner, connVars, handles, serverVars, history>>

\* The control lock is taken and kept until the connection is installed.
ConnectLocked(h) ==
    /\ pc[h] = "connectLock" /\ controlLock = Nobody
    /\ IF control # 0 /\ conns[control].status # "Closed"
         THEN Return(h) /\ UNCHANGED <<control, controlLock>>
         ELSE /\ control' = 0 /\ controlLock' = h
              /\ Goto(h, "creating") /\ UNCHANGED loc
    /\ UNCHANGED <<stopped, generation, state, voice, intent, keys, voiceGate,
                   shutdownGate, connVars, handles, serverVars, calls, history>>

\* ControlConnection::connect: the first snapshot, then the engine task runs.
ConnectionCreated(h) ==
    /\ pc[h] = "creating"
    /\ \/ /\ generation < MaxConnections
          /\ conns' = [conns EXCEPT ![generation + 1] =
                         [Fresh EXCEPT !.status = "Syncing"]]
          /\ Goto(h, "created") /\ UNCHANGED <<controlLock, loc>>
       \/ controlLock' = Nobody /\ Return(h) /\ UNCHANGED conns
    /\ UNCHANGED <<stopped, control, generation, state, voice, intent, keys,
                   voiceGate, shutdownGate, queue, sockets, handles,
                   serverVars, calls, history>>

\* After the await: a client stopped meanwhile closes the connection again
\* (and waits for its end); otherwise the generation moves on, the relay is
\* spawned and the handle stored.
ConnectInstalled(h) ==
    /\ pc[h] = "created"
    /\ IF stopped
         THEN /\ conns' = [conns EXCEPT ![generation + 1].stop = TRUE]
              /\ Goto(h, "closing")
              /\ loc' = [loc EXCEPT ![h].conn = generation + 1]
              /\ UNCHANGED <<control, generation, state, controlLock>>
         ELSE /\ generation' = generation + 1
              /\ state' = generation + 1 /\ control' = generation + 1
              /\ controlLock' = Nobody
              /\ pc' = [pc EXCEPT ![h] = "idle", ![generation + 1] = "recv"]
              /\ UNCHANGED <<loc, conns>>
    /\ UNCHANGED <<stopped, voice, intent, keys, voiceGate, shutdownGate,
                   queue, sockets, handles, serverVars, calls, history>>

ConnectClosed(h) ==
    /\ pc[h] = "closing" /\ conns[loc[h].conn].status = "Closed"
    /\ controlLock' = Nobody /\ Return(h)
    /\ UNCHANGED <<stopped, control, generation, state, voice, intent, keys,
                   voiceGate, shutdownGate, connVars, handles, serverVars,
                   calls, history>>

------------------------------------------------------------------------------
(***************************************************************************)
(* join_voice, called by a host or by a relay (rejoin_voice_if_configured) *)
(***************************************************************************)

JoinVoice(h, ch) ==
    /\ ~stopped /\ Call(h, "joinGate", [NoLocals EXCEPT !.channel = ch])
    /\ leftVoice' = FALSE
    /\ UNCHANGED <<inner, connVars, handles, serverVars, shut>>

\* Mutant: an error path leaves the gate locked.
JoinFails_GateKept(t) ==
    /\ Return(t)
    /\ intent' = IF t \in Hosts THEN intent ELSE NoIntent
    /\ UNCHANGED voiceGate

\* The call fails: the gate is released, and a relay forgets the intent.
JoinFails(t) ==
    /\ Return(t)
    /\ voiceGate' = Nobody
    /\ intent' = IF t \in Hosts THEN intent ELSE NoIntent

JoinGated(t) ==
    /\ pc[t] = "joinGate" /\ voiceGate = Nobody
    /\ voiceGate' = t /\ Goto(t, "joinControl")
    /\ UNCHANGED <<stopped, control, generation, state, voice, intent, keys,
                   controlLock, shutdownGate, connVars, handles, serverVars,
                   loc, calls, history>>

\* current_control, the first look at its status, and the await of discover.
JoinControl(t) ==
    /\ pc[t] = "joinControl" /\ controlLock = Nobody
    /\ IF ~stopped /\ control # 0 /\ conns[control].status = "Live"
         THEN /\ Goto(t, "discover") /\ loc' = [loc EXCEPT ![t].conn = control]
              /\ UNCHANGED <<voiceGate, intent>>
         ELSE JoinFails(t)
    /\ UNCHANGED <<stopped, control, generation, state, voice, keys,
                   controlLock, shutdownGate, connVars, handles, serverVars,
                   calls, history>>

\* The metadata is there (or the call fails): the connection must still be
\* Live; its id and the generation are read and the join request is sent.
JoinRequested(t) ==
    /\ pc[t] = "discover"
    /\ LET c == conns[loc[t].conn]
       IN \/ /\ c.status = "Live" /\ c.id # 0
             /\ loc' = [loc EXCEPT ![t].id = c.id, ![t].gen = generation]
             /\ Goto(t, "joinHttp") /\ UNCHANGED <<voiceGate, intent>>
          \/ JoinFails(t)
    /\ UNCHANGED <<stopped, control, generation, state, voice, keys,
                   controlLock, shutdownGate, connVars, handles, serverVars,
                   calls, history>>

\* The server binds voice to the control connection named by the request, if
\* that connection still exists: it reuses the session of that connection or
\* creates one, which then replaces the previous one.
ServerJoin(t) ==
    /\ pc[t] = "joinHttp" /\ Len(handles) < MaxHandles
    /\ \E c \in Connections : conns[c].id = loc[t].id
    /\ \/ /\ binding.id = loc[t].id
          /\ loc' = [loc EXCEPT ![t].sid = binding.sid]
          /\ UNCHANGED serverVars
       \/ /\ sids < MaxSids /\ sids' = sids + 1
          /\ binding' = [id |-> loc[t].id, sid |-> sids + 1]
          /\ loc' = [loc EXCEPT ![t].sid = sids + 1, ![t].created = TRUE]
    /\ Goto(t, "joined")
    /\ UNCHANGED <<inner, connVars, handles, calls, history>>

\* The request fails or its answer is lost.
JoinRefused(t) ==
    /\ pc[t] = "joinHttp" /\ JoinFails(t)
    /\ UNCHANGED <<stopped, control, generation, state, voice, keys,
                   controlLock, shutdownGate, connVars, handles, serverVars,
                   calls, history>>

\* Decode the answer and start the UDP session: a new session brings its key
\* into the cache, a reused one must find it there (KeyUnavailable), and
\* join_voice keeps a copy of it.
StartTransport(t) ==
    /\ pc[t] = "joined"
    /\ LET l == loc[t]
       IN IF l.created \/ l.sid \in keys
            THEN /\ handles' = Append(handles, [sid |-> l.sid, gen |-> l.gen,
                      conn |-> l.conn, running |-> TRUE, left |-> FALSE])
                 /\ keys' = keys \cup {l.sid}
                 /\ loc' = [loc EXCEPT ![t].handle = Len(handles) + 1,
                                       ![t].saved = ~l.created]
                 /\ Goto(t, "started") /\ UNCHANGED <<voiceGate, intent>>
            ELSE JoinFails(t) /\ UNCHANGED <<handles, keys>>
    /\ UNCHANGED <<stopped, control, generation, state, voice, controlLock,
                   shutdownGate, connVars, serverVars, calls, history>>

\* The first heartbeat fails: the worker ends and drops the key.
StartFails(t) ==
    /\ pc[t] = "started" /\ JoinFails(t)
    /\ handles' = Halt(loc[t].handle) /\ keys' = keys \ {loc[t].sid}
    /\ UNCHANGED <<stopped, control, generation, state, voice, controlLock,
                   shutdownGate, connVars, serverVars, calls, history>>

\* Whether the world join_voice started in is gone.
JoinStale(t) ==
    \/ stopped \/ generation # loc[t].gen \/ conns[loc[t].conn].id # loc[t].id

\* After the last await: a stale session is closed again, otherwise it is
\* installed; the previous one is closed next.
JoinInstalled(t) ==
    /\ pc[t] = "started"
    /\ LET h == loc[t].handle
       IN IF JoinStale(t)
            THEN /\ handles' = Halt(h) /\ keys' = keys \ {loc[t].sid}
                 /\ JoinFails(t) /\ UNCHANGED voice
            ELSE /\ voice' = h /\ Goto(t, "replaced")
                 /\ loc' = [loc EXCEPT ![t].conn = voice]  \* previous
                 /\ UNCHANGED <<handles, keys, voiceGate, intent>>
    /\ UNCHANGED <<stopped, control, generation, state, controlLock,
                   shutdownGate, connVars, serverVars, calls, history>>

\* Mutant: the previous session is dropped without being closed.
JoinFinished_PreviousRuns(t) ==
    /\ pc[t] = "replaced"
    /\ intent' = IF AutoRejoin THEN [sid |-> loc[t].sid, channel |-> loc[t].channel]
                               ELSE NoIntent
    /\ voiceGate' = Nobody /\ Return(t)
    /\ UNCHANGED <<stopped, control, generation, state, voice, keys,
                   controlLock, shutdownGate, connVars, handles, serverVars,
                   calls, history>>

\* Mutant: the key of a reused session is not put back.
JoinFinished_KeyDropped(t) ==
    /\ pc[t] = "replaced"
    /\ LET previous == loc[t].conn
       IN IF previous = 0
            THEN UNCHANGED <<handles, keys>>
            ELSE /\ TeardownFree(previous)
                 /\ handles' = Halt(previous)
                 /\ keys' = keys \ {handles[previous].sid}
    /\ intent' = IF AutoRejoin THEN [sid |-> loc[t].sid, channel |-> loc[t].channel]
                               ELSE NoIntent
    /\ voiceGate' = Nobody /\ Return(t)
    /\ UNCHANGED <<stopped, control, generation, state, voice, controlLock,
                   shutdownGate, connVars, serverVars, calls, history>>

\* The previous session is closed and its key dropped, the saved key of a
\* reused session put back, the intent remembered, the gate released.
JoinFinished(t) ==
    /\ pc[t] = "replaced"
    /\ LET previous == loc[t].conn
           saved == IF loc[t].saved THEN {loc[t].sid} ELSE {}
       IN IF previous = 0
            THEN keys' = keys \cup saved /\ UNCHANGED handles
            ELSE /\ TeardownFree(previous)
                 /\ handles' = Halt(previous)
                 /\ keys' = (keys \ {handles[previous].sid}) \cup saved
    /\ intent' = IF AutoRejoin THEN [sid |-> loc[t].sid, channel |-> loc[t].channel]
                               ELSE NoIntent
    /\ voiceGate' = Nobody /\ Return(t)
    /\ UNCHANGED <<stopped, control, generation, state, voice, controlLock,
                   shutdownGate, connVars, serverVars, calls, history>>

\* The session a task inside the gate closes next.
Closes(t, v) ==
    \/ pc[t] = "started" /\ JoinStale(t) /\ v = loc[t].handle
    \/ pc[t] = "replaced" /\ v = loc[t].conn
    \/ pc[t] = "leave" /\ v = loc[t].handle /\ ~handles[v].left

\* The close hangs: the call never returns, and the gate is never released.
GateHangs(t) ==
    /\ \E v \in DOMAIN handles :
         /\ Closes(t, v) /\ Hangs(t, v, "hungGate")
         /\ intent' = IF pc[t] = "leave" THEN ClearOwnIntent(v) ELSE intent
    /\ UNCHANGED <<stopped, control, generation, state, voice, voiceGate,
                   controlLock, shutdownGate, connVars, serverVars, calls,
                   history>>

------------------------------------------------------------------------------
(***************************************************************************)
(* leave_voice, and close and leave of a voice handle.                     *)
(***************************************************************************)

\* The intent is cleared before the gate is awaited.
LeaveVoice(h) ==
    /\ ~stopped /\ Call(h, "leaveGate", NoLocals)
    /\ intent' = NoIntent
    /\ UNCHANGED <<stopped, control, generation, state, voice, keys, voiceGate,
                   controlLock, shutdownGate, connVars, handles, serverVars,
                   history>>

\* leave_voice has succeeded; no host has asked for voice since.
Left(h) ==
    leftVoice' = ~ \E k \in Hosts \ {h} :
                     pc[k] \in {"joinGate", "joinControl", "discover", "joinHttp", "joined",
                                "started", "replaced"}

LeaveGated(h) ==
    /\ pc[h] = "leaveGate" /\ voiceGate = Nobody
    /\ IF voice = 0
         THEN Return(h) /\ Left(h) /\ UNCHANGED <<voice, voiceGate>>
         ELSE /\ voice' = 0 /\ voiceGate' = h /\ Goto(h, "leave")
              /\ loc' = [loc EXCEPT ![h].handle = voice]
              /\ UNCHANGED leftVoice
    /\ UNCHANGED <<stopped, control, generation, state, intent, keys,
                   controlLock, shutdownGate, connVars, handles, serverVars,
                   calls, shut>>

\* leave failed: the closed handle is put back for a retry.
LeaveFails(h) ==
    /\ voice' = loc[h].handle /\ voiceGate' = Nobody /\ Return(h)
    /\ UNCHANGED leftVoice

LeaveSucceeds(h) ==
    /\ voiceGate' = Nobody /\ Return(h) /\ Left(h) /\ UNCHANGED voice

\* VoiceSession::leave up to its request: UDP stops, the key goes, the id of
\* the control connection is read.
LeaveClosed(h) ==
    /\ pc[h] = "leave" /\ TeardownFree(loc[h].handle)
    /\ LET v == loc[h].handle
           id == conns[handles[v].conn].id
       IN /\ intent' = ClearOwnIntent(v)
          /\ IF handles[v].left
               THEN LeaveSucceeds(h) /\ UNCHANGED <<handles, keys>>
               ELSE /\ handles' = Halt(v) /\ keys' = keys \ {handles[v].sid}
                    /\ IF id = 0
                         THEN LeaveFails(h)
                         ELSE /\ Goto(h, "leaveHttp")
                              /\ loc' = [loc EXCEPT ![h].id = id]
                              /\ UNCHANGED <<voice, voiceGate, leftVoice>>
    /\ UNCHANGED <<stopped, control, generation, state, controlLock,
                   shutdownGate, connVars, serverVars, calls, shut>>

\* The server ends the binding of the named session; the answer may be lost.
Unbind(h) ==
    binding' = IF binding.id = loc[h].id /\ binding.sid = handles[loc[h].handle].sid
                 THEN NoBinding ELSE binding

LeaveAnswered(h) ==
    /\ pc[h] = "leaveHttp"
    /\ \/ Unbind(h) /\ LeaveSucceeds(h)
          /\ handles' = [handles EXCEPT ![loc[h].handle].left = TRUE]
       \/ Unbind(h) /\ LeaveFails(h) /\ UNCHANGED handles
       \/ LeaveFails(h) /\ UNCHANGED <<binding, handles>>
    /\ UNCHANGED <<stopped, control, generation, state, intent, keys,
                   controlLock, shutdownGate, connVars, sids, calls, shut>>

\* A handle the host may hold: one that was installed.
Held(v) == v \in DOMAIN handles
           /\ ~ \E t \in Tasks : pc[t] = "started" /\ loc[t].handle = v
           /\ (OldHandles \/ v = voice)

\* VoiceSession::close
CloseHandle(h, v) ==
    /\ Held(v) /\ TeardownFree(v) /\ pc[h] = "idle" /\ calls < MaxCalls
    /\ calls' = calls + 1
    /\ intent' = ClearOwnIntent(v)
    /\ handles' = Halt(v) /\ keys' = keys \ {handles[v].sid}
    /\ UNCHANGED <<stopped, control, generation, state, voice, voiceGate,
                   controlLock, shutdownGate, connVars, serverVars, pc, loc,
                   history>>

\* VoiceSession::leave, called on the handle: no gate is taken.
LeaveHandle(h, v) ==
    /\ Held(v) /\ TeardownFree(v) /\ ~handles[v].left
    /\ LET id == conns[handles[v].conn].id
       IN Call(h, IF id = 0 THEN "idle" ELSE "handleHttp",
               IF id = 0 THEN NoLocals ELSE [NoLocals EXCEPT !.handle = v, !.id = id])
    /\ intent' = ClearOwnIntent(v)
    /\ handles' = Halt(v) /\ keys' = keys \ {handles[v].sid}
    /\ UNCHANGED <<stopped, control, generation, state, voice, voiceGate,
                   controlLock, shutdownGate, connVars, serverVars, history>>

LeaveHandleAnswered(h) ==
    /\ pc[h] = "handleHttp"
    /\ \/ Unbind(h) /\ handles' = [handles EXCEPT ![loc[h].handle].left = TRUE]
       \/ Unbind(h) /\ UNCHANGED handles
       \/ UNCHANGED <<binding, handles>>
    /\ Return(h)
    /\ UNCHANGED <<inner, connVars, sids, calls, history>>

\* The close inside a close or a leave of the handle hangs.
HandleHangs(h, v) ==
    /\ Held(v) /\ pc[h] = "idle" /\ calls < MaxCalls
    /\ calls' = calls + 1 /\ Hangs(h, v, "hungHandle")
    /\ intent' = ClearOwnIntent(v)
    /\ UNCHANGED <<stopped, control, generation, state, voice, voiceGate,
                   controlLock, shutdownGate, connVars, serverVars, history>>

------------------------------------------------------------------------------
(***************************************************************************)
(* relay_realtime_events.                                                  *)
(***************************************************************************)

\* Mutant: the terminal status does not stop media.
Stops_NotOnClose(e) == e \in {"VoiceLost", "Disconnected"}

\* The events that stop media (Disconnected stands for the pair Disconnected,
\* Reconnecting, which the engine sends together).
Stops(e) == e \in {"VoiceLost", "Disconnected", "Closed"}

\* The events that also make the relay forget the remembered join.
Forgets(e) == e \in {"VoiceLost", "Closed"}

\* One event is forwarded.  The relay of an older generation does nothing
\* more with it; otherwise the intent is cleared at once, and a stop or a
\* rejoin follows.
RelayEvent(g) ==
    /\ pc[g] = "recv" /\ queue[g] # <<>>
    /\ LET e == Head(queue[g])
       IN IF generation # g
            THEN Goto(g, "ended") /\ UNCHANGED intent
            ELSE /\ intent' = IF Forgets(e) THEN NoIntent ELSE intent
                 /\ Goto(g, IF Stops(e) THEN "stopVoice"
                            ELSE IF e = "Live" THEN "rejoin" ELSE "recv")
    /\ queue' = [queue EXCEPT ![g] = Tail(@)]
    /\ UNCHANGED <<stopped, control, generation, state, voice, keys, voiceGate,
                   controlLock, shutdownGate, conns, sockets, handles,
                   serverVars, loc, calls, history>>

\* The session a relay may stop: one of its own generation.
StopVoice(g) == voice # 0 /\ handles[voice].gen = g

\* stop_voice_transport_for, under the gate.
RelayStops(g) ==
    /\ pc[g] = "stopVoice" /\ voiceGate = Nobody
    /\ IF StopVoice(g)
         THEN /\ TeardownFree(voice)
              /\ voice' = 0 /\ handles' = Halt(voice)
              /\ keys' = keys \ {handles[voice].sid}
         ELSE UNCHANGED <<voice, handles, keys>>
    /\ Goto(g, "recv")
    /\ UNCHANGED <<stopped, control, generation, state, intent, voiceGate,
                   controlLock, shutdownGate, connVars, serverVars, loc, calls,
                   history>>

\* The session the stop of a relay or of a shutdown takes.
Stopped(t) ==
    \/ pc[t] = "stopVoice" /\ StopVoice(t)
    \/ pc[t] = "shutVoice" /\ voice # 0

\* The close hangs after the gate and the session have been taken.
StopHangs(t) ==
    /\ voiceGate = Nobody /\ Stopped(t)
    /\ voiceGate' = t /\ voice' = 0
    /\ Hangs(t, voice, IF t \in Hosts THEN "hungShut" ELSE "hungGate")
    /\ UNCHANGED <<stopped, control, generation, state, intent, controlLock,
                   shutdownGate, connVars, serverVars, calls, history>>

\* rejoin_voice_if_configured: the intent is read without the gate.
RelayRejoins(g) ==
    /\ pc[g] = "rejoin"
    /\ IF AutoRejoin /\ intent # NoIntent /\ ~stopped
         THEN /\ Goto(g, "joinGate")
              /\ loc' = [loc EXCEPT ![g].channel = intent.channel]
              /\ UNCHANGED intent
         ELSE /\ Goto(g, "recv") /\ UNCHANGED loc
              /\ intent' = IF stopped THEN NoIntent ELSE intent
    /\ UNCHANGED <<stopped, control, generation, state, voice, keys, voiceGate,
                   controlLock, shutdownGate, connVars, handles, serverVars,
                   calls, history>>

------------------------------------------------------------------------------
(***************************************************************************)
(* shutdown.                                                               *)
(***************************************************************************)

Shutdown(h) ==
    /\ Call(h, "shutdown", NoLocals)
    /\ UNCHANGED <<inner, connVars, handles, serverVars, history>>

ShutdownGated(h) ==
    /\ pc[h] = "shutdown" /\ shutdownGate = Nobody
    /\ IF stopped
         THEN Return(h) /\ UNCHANGED <<stopped, shutdownGate>>
         ELSE /\ stopped' = TRUE /\ shutdownGate' = h
              /\ Goto(h, "shutVoice") /\ UNCHANGED loc
    /\ UNCHANGED <<control, generation, state, voice, intent, keys, voiceGate,
                   controlLock, connVars, handles, serverVars, calls, history>>

\* Mutant: the installed session is stopped without taking the gate.
ShutdownVoice_NoGate(h) ==
    /\ pc[h] = "shutVoice"
    /\ IF voice = 0
         THEN UNCHANGED <<voice, handles, keys>>
         ELSE /\ voice' = 0 /\ handles' = Halt(voice)
              /\ keys' = keys \ {handles[voice].sid}
    /\ Goto(h, "shutControl")
    /\ UNCHANGED <<stopped, control, generation, state, intent, voiceGate,
                   controlLock, shutdownGate, connVars, serverVars, loc, calls,
                   history>>

\* Under the voice gate: UDP stops before the control socket.
ShutdownVoice(h) ==
    /\ pc[h] = "shutVoice" /\ voiceGate = Nobody
    /\ IF voice = 0
         THEN UNCHANGED <<voice, handles, keys>>
         ELSE /\ TeardownFree(voice)
              /\ voice' = 0 /\ handles' = Halt(voice)
              /\ keys' = keys \ {handles[voice].sid}
    /\ Goto(h, "shutControl")
    /\ UNCHANGED <<stopped, control, generation, state, intent, voiceGate,
                   controlLock, shutdownGate, connVars, serverVars, loc, calls,
                   history>>

\* The control lock is held while the connection closes.
ShutdownControl(h) ==
    /\ pc[h] = "shutControl" /\ controlLock = Nobody
    /\ IF control = 0
         THEN UNCHANGED <<control, conns, controlLock, loc>>
         ELSE /\ control' = 0 /\ controlLock' = h
              /\ conns' = [conns EXCEPT ![control].stop = TRUE]
              /\ loc' = [loc EXCEPT ![h].conn = control]
    /\ Goto(h, "shutClosing")
    /\ UNCHANGED <<stopped, generation, state, voice, intent, keys, voiceGate,
                   shutdownGate, queue, sockets, handles, serverVars,
                   calls, history>>

\* Keys, intent and state go, and every relay is aborted where it stands.
ShutdownFinished(h) ==
    /\ pc[h] = "shutClosing"
    /\ loc[h].conn # 0 => conns[loc[h].conn].status = "Closed"
    /\ keys' = {} /\ intent' = NoIntent /\ state' = 0
    /\ pc' = [t \in Tasks |-> IF t = h THEN "idle"
                              ELSE IF t \in Relays THEN "ended" ELSE pc[t]]
    /\ loc' = [t \in Tasks |-> IF t = h \/ t \in Relays THEN NoLocals ELSE loc[t]]
    /\ voiceGate' = IF voiceGate \in Relays THEN Nobody ELSE voiceGate
    /\ controlLock' = IF controlLock = h THEN Nobody ELSE controlLock
    /\ shutdownGate' = Nobody /\ shut' = TRUE
    /\ UNCHANGED <<stopped, control, generation, voice, connVars, handles,
                   serverVars, calls, leftVoice>>

------------------------------------------------------------------------------
(***************************************************************************)
(* The control connections and the server, as the facade sees them.        *)
(***************************************************************************)

\* A socket completes connection.ready: it has an id of its own.
SocketReady(c) ==
    /\ conns[c].status \in {"Syncing", "Reconnecting"} /\ conns[c].id = 0
    /\ ~conns[c].stop /\ sockets < MaxSockets
    /\ sockets' = sockets + 1
    /\ conns' = [conns EXCEPT ![c].id = sockets + 1, ![c].status = "Syncing"]
    /\ UNCHANGED <<inner, queue, handles, serverVars, taskVars, history>>

GoLive(c) ==
    /\ conns[c].status = "Syncing" /\ conns[c].id # 0
    /\ conns' = [conns EXCEPT ![c].status = "Live"] /\ Emit(c, "Live")
    /\ UNCHANGED <<inner, sockets, handles, serverVars, taskVars, history>>

\* The binding of a control connection goes with its socket.
DropBinding(id) == binding' = IF binding.id = id /\ id # 0 THEN NoBinding ELSE binding

\* A socket is lost: the id goes first, then Disconnected and Reconnecting.
SocketLost(c) ==
    /\ conns[c].id # 0
    /\ conns' = [conns EXCEPT ![c].status = "Reconnecting", ![c].id = 0]
    /\ DropBinding(conns[c].id) /\ Emit(c, "Disconnected")
    /\ UNCHANGED <<inner, sockets, handles, sids, taskVars, history>>

\* close, revocation, or retries exhausted.
ConnectionEnds(c) ==
    /\ conns[c].status \notin {"None", "Closed"}
    /\ conns' = [conns EXCEPT ![c].status = "Closed", ![c].id = 0]
    /\ DropBinding(conns[c].id) /\ Emit(c, "Closed")
    /\ UNCHANGED <<inner, sockets, handles, sids, taskVars, history>>

\* A snapshot replaces the projection in place.  If it no longer holds the
\* voice authority (a kick, a ban), VoiceLost is reported.
Resync(c) ==
    /\ conns[c].status = "Live"
    /\ conns' = [conns EXCEPT ![c].status = "Syncing"]
    /\ \/ UNCHANGED <<queue, binding>>
       \/ /\ binding.id = conns[c].id
          /\ binding' = NoBinding /\ Emit(c, "VoiceLost")
    /\ UNCHANGED <<inner, sockets, handles, sids, taskVars, history>>

\* A UDP worker ends by itself (revoked, expired, socket error).
WorkerEnds(v) ==
    /\ handles[v].running
    /\ handles' = Halt(v) /\ keys' = keys \ {handles[v].sid}
    /\ UNCHANGED <<stopped, control, generation, state, voice, intent,
                   voiceGate, controlLock, shutdownGate, connVars, serverVars,
                   taskVars, history>>

------------------------------------------------------------------------------
ConnectSteps(h) == \/ ConnectLocked(h) \/ ConnectionCreated(h)
                   \/ ConnectInstalled(h) \/ ConnectClosed(h)
JoinSteps(t) == \/ JoinGated(t) \/ JoinControl(t) \/ JoinRequested(t)
                \/ ServerJoin(t) \/ JoinRefused(t) \/ StartTransport(t)
                \/ StartFails(t) \/ JoinInstalled(t) \/ JoinFinished(t)
CloseHangs(t) == GateHangs(t) \/ StopHangs(t)
LeaveSteps(h) == \/ LeaveGated(h) \/ LeaveClosed(h) \/ LeaveAnswered(h)
                 \/ LeaveHandleAnswered(h)
ShutdownSteps(h) == \/ ShutdownGated(h) \/ ShutdownVoice(h)
                    \/ ShutdownControl(h) \/ ShutdownFinished(h)
RelaySteps(g) == RelayEvent(g) \/ RelayStops(g) \/ RelayRejoins(g)

HostCalls(h) ==
    \/ Connect(h) \/ LeaveVoice(h) \/ Shutdown(h)
    \/ \E ch \in Channels : JoinVoice(h, ch)
    \/ \E v \in DOMAIN handles : CloseHandle(h, v) \/ LeaveHandle(h, v)
                                 \/ HandleHangs(h, v)

Next ==
    \/ \E h \in Hosts : HostCalls(h) \/ ConnectSteps(h) \/ LeaveSteps(h)
                        \/ ShutdownSteps(h)
    \/ \E t \in Tasks : JoinSteps(t) \/ CloseHangs(t)
    \/ \E g \in Relays : RelaySteps(g)
    \/ \E c \in Connections : \/ SocketReady(c) \/ GoLive(c) \/ SocketLost(c)
                             \/ ConnectionEnds(c) \/ Resync(c)
    \/ \E v \in DOMAIN handles : WorkerEnds(v)

\* Tokio runs every task that can run; HTTP requests end by their timeout; a
\* connection that is told to stop ends (ControlConnection, CloseTerminates).
\* The close of a UDP session returns unless it hangs as CloseHangs and
\* HandleHangs have it (VoiceSession, WorkerStops and StopReturns).
Fairness ==
    /\ \A h \in Hosts : /\ WF_vars(ConnectSteps(h)) /\ WF_vars(LeaveSteps(h))
                        /\ WF_vars(ShutdownSteps(h))
    /\ \A t \in Tasks : WF_vars(JoinSteps(t))
    /\ \A g \in Relays : WF_vars(RelaySteps(g))
    /\ \A c \in Connections : WF_vars(conns[c].stop /\ ConnectionEnds(c))

Spec == Init /\ [][Next]_vars /\ Fairness

------------------------------------------------------------------------------
(***************************************************************************)
(* Properties.                                                             *)
(***************************************************************************)

\* The slots of the client refer to connections and handles that exist, and
\* every mutex is held by one task.
TypeOK ==
    /\ stopped \in BOOLEAN /\ control \in 0..generation
    /\ generation \in 0..MaxConnections /\ state \in 0..generation
    /\ voice \in 0..Len(handles) /\ keys \subseteq 1..sids
    /\ intent.sid \in 0..sids
    /\ {voiceGate, controlLock, shutdownGate} \subseteq Tasks \cup {Nobody}
    /\ \A c \in Connections : conns[c].id \in 0..sockets
    /\ \A v \in DOMAIN handles : handles[v].sid \in 1..sids
    /\ binding.id \in 0..sockets /\ binding.sid \in 0..sids

\* lifecycle.rs: when shutdown has returned, nothing of the client is left
\* running or remembered, and nothing comes back: whatever join, leave,
\* connect or rejoin was under way when it began.  Hosts let their calls
\* finish: a join_voice dropped at voice_api.rs:134 or 136 leaves a worker that
\* nobody closes.
ShutdownIsFinal ==
    shut => /\ control = 0 /\ voice = 0 /\ state = 0
            /\ intent = NoIntent /\ keys = {}
            /\ \A v \in DOMAIN handles : ~handles[v].running
            /\ \A g \in Relays : pc[g] = "ended"
            /\ \A c \in 1..generation : conns[c].status = "Closed"

\* A UDP session that runs can be reached: it is the installed one, or the
\* task inside the voice gate is about to install or to close it (as long as
\* hosts let their calls finish).
NoOrphanSession ==
    \A v \in DOMAIN handles :
        handles[v].running =>
          \/ voice = v
          \/ /\ voiceGate # Nobody
             /\ \/ pc[voiceGate] \in {"started", "leave"} /\ loc[voiceGate].handle = v
                \/ pc[voiceGate] = "replaced" /\ loc[voiceGate].conn = v

\* voice_api.rs:85: a join that succeeds leaves the key of the session it
\* installed in the cache, for the next join that is answered without a key,
\* although the previous transport of the same server session drops that key
\* when it is closed, or has dropped it by ending in the middle of the join.
JoinKeepsKey ==
    [][\A t \in Tasks : pc[t] = "replaced" /\ pc'[t] \in {"idle", "recv"}
                         /\ handles'[voice'].running
         => handles[voice].sid \in keys']_vars

\* events.rs:130: media whose control connection has ended is torn down by the
\* relay of that connection, whatever events it lost to a lag, unless a newer
\* connection has taken over or a close hangs.
MediaStops ==
    \A g \in Relays :
        (voice # 0 /\ handles[voice].gen = g /\ conns[g].status = "Closed")
          ~> (\/ voice = 0 \/ handles[voice].gen # g \/ ~handles[voice].running
              \/ generation # g \/ Hung)

\* Every call of a host returns unless the close of some UDP session hangs: no
\* combination of the voice gate, the control lock, the shutdown gate and the
\* tear-down locks leaves a task waiting for ever by itself.
CallsReturn == \A h \in Hosts : pc[h] # "idle" ~> (pc[h] = "idle" \/ Hung)

\* events.rs:130 without the conditions of MediaStops: when the relay of a
\* connection has nothing more to do and the connection has ended, the media
\* that the connection owned is torn down.
MediaFollowsAuthority ==
    \A g \in Relays :
        (/\ conns[g].status = "Closed" /\ queue[g] = <<>> /\ pc[g] \in {"recv", "ended"}
         /\ voice # 0 /\ handles[voice].gen = g)
        => ~handles[voice].running

\* config.rs:32: explicit leave clears the remembered join, so that the client
\* is not back in voice until a host asks for it.
LeaveIsFinal == leftVoice => intent = NoIntent /\ voice = 0

\* event.rs: VoiceLost stops the session that lost its authority, never the
\* one the server has bound meanwhile.
AuthorizedMediaRuns ==
    [][\A g \in Relays : RelayStops(g) =>
         (voice' # voice => ~(handles[voice].sid = binding.sid
                              /\ binding.id = conns[g].id))]_vars

==============================================================================
