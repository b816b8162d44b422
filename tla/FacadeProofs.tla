---------------------------- MODULE FacadeProofs ----------------------------
(***************************************************************************)
(* The high-level client, for any number of host tasks, channels, control  *)
(* connections, sockets, sessions and calls, with and without rejoin:      *)
(* shutdown is final, a running session is always within reach, and a join *)
(* keeps the key of the session it installed.                              *)
(***************************************************************************)
EXTENDS Facade, TLAPS

------------------------------------------------------------------------------
(***************************************************************************)
(* The inductive invariant.                                                *)
(***************************************************************************)

\* The awaits of a task inside the voice gate, and those of a shutdown.
Joining == {"joinControl", "discover", "joinHttp", "joined", "started", "replaced"}
Gated == Joining \cup {"leave", "leaveHttp", "hungGate"}
Stopping == {"shutVoice", "hungShut", "shutControl", "shutClosing"}

HostPoints == Gated \cup Stopping \cup
    {"idle", "connectLock", "creating", "created", "closing", "joinGate",
     "leaveGate", "handleHttp", "hungHandle", "shutdown"}
RelayPoints == Joining \cup
    {"hungGate", "unborn", "recv", "stopVoice", "rejoin", "joinGate", "ended"}

Statuses == {"None", "Syncing", "Live", "Reconnecting", "Closed"}
Conns == [status : Statuses, id : Nat, stop : BOOLEAN]
Sessions == [sid : Nat, gen : Nat, conn : Connections,
             running : BOOLEAN, left : BOOLEAN]
Locals == [channel : Channels \cup {0}, conn : Nat, id : Nat, gen : Nat, sid : Nat,
           created : BOOLEAN, handle : Nat, saved : BOOLEAN]

Slots ==
    /\ stopped \in BOOLEAN /\ generation \in 0..MaxConnections
    /\ control \in 0..generation /\ state \in 0..generation
    /\ voiceGate \in Tasks \cup {Nobody}
    /\ controlLock \in Hosts \cup {Nobody} /\ shutdownGate \in Hosts \cup {Nobody}
    /\ shut \in BOOLEAN

Network ==
    /\ sockets \in Nat /\ conns \in [Connections -> Conns]
    /\ \A c \in Connections : conns[c].id <= sockets
    /\ binding \in [id : Nat, sid : Nat] /\ binding.id <= sockets

Voices ==
    /\ sids \in Nat /\ handles \in Seq(Sessions)
    /\ voice \in 0..Len(handles) /\ keys \subseteq 1..sids
    /\ intent \in [sid : 0..sids, channel : Channels \cup {0}]
    /\ \A v \in 1..Len(handles) : handles[v].sid \in 1..sids
    /\ binding.sid <= sids /\ (binding.id # 0 => binding.sid # 0)

Points ==
    /\ pc \in [Tasks -> HostPoints \cup RelayPoints] /\ loc \in [Tasks -> Locals]
    /\ \A h \in Hosts : pc[h] \in HostPoints
    /\ \A g \in Relays : pc[g] \in RelayPoints

Typed == Slots /\ Network /\ Voices /\ Points

\* Who holds a mutex is where the code says it is held, and stands there.
Locking(t) == \/ pc[t] \in {"creating", "created", "closing"}
              \/ pc[t] = "shutClosing" /\ loc[t].conn # 0

Mutexes ==
    /\ \A t \in Tasks : pc[t] \in Gated \cup {"hungShut"} <=> voiceGate = t
    /\ \A t \in Tasks : Locking(t) <=> controlLock = t
    /\ \A t \in Tasks : pc[t] \in Stopping <=> shutdownGate = t

\* What task t knows inside the voice gate.  A session that the server has just
\* created is of no other handle, and while it runs its key is in the cache.
OfNoOther(sid, h) == \A v \in 1..Len(handles) : v # h => handles[v].sid # sid

InGate(t) ==
    LET p == pc[t]
        l == loc[t]
    IN  /\ p \in {"discover", "joinHttp", "joined", "started"} => l.conn \in Connections
        /\ p = "joinHttp" => l.id # 0
        /\ p \in {"joined", "started", "replaced"} => l.sid \in 1..sids
        /\ p = "joined" /\ l.created => OfNoOther(l.sid, 0)
        /\ p \in {"started", "replaced"} =>
             /\ l.handle \in 1..Len(handles) /\ handles[l.handle].sid = l.sid
             /\ l.saved = ~l.created
             /\ l.created => /\ OfNoOther(l.sid, l.handle)
                             /\ handles[l.handle].running => l.sid \in keys
        /\ p = "started" => l.handle # voice
        /\ p = "replaced" => /\ voice = l.handle
                             /\ l.conn \in 0..Len(handles) /\ l.conn # l.handle
        /\ p \in {"leave", "leaveHttp"} => voice = 0 /\ l.handle \in 1..Len(handles)
        /\ p = "leaveHttp" => ~handles[l.handle].running

\* Under the control lock a connection is made only where there is none.
InLock(t) ==
    /\ pc[t] \in {"creating", "created"} => control = 0
    /\ pc[t] = "created" => generation < MaxConnections

InShutdown(t) ==
    /\ stopped
    /\ pc[t] \in {"shutVoice", "shutControl"} => loc[t].conn = 0
    /\ pc[t] = "shutClosing" => control = 0

Holders ==
    /\ voiceGate # Nobody => InGate(voiceGate)
    /\ controlLock # Nobody => InLock(controlLock)
    /\ shutdownGate # Nobody => InShutdown(shutdownGate)

\* What a task knows outside of them.
Outside ==
    /\ \A t \in Tasks : loc[t].created => pc[t] \in {"joined", "started", "replaced"}
    /\ \A t \in Tasks : pc[t] = "shutdown" => loc[t].conn = 0
    /\ \A t \in Tasks : pc[t] = "handleHttp" =>
         loc[t].handle \in 1..Len(handles) /\ ~handles[loc[t].handle].running
    /\ \A v \in 1..Len(handles) : handles[v].left => ~handles[v].running
    /\ \A g \in Relays : g > generation => pc[g] \in {"unborn", "ended"}

\* A connection that the client no longer has is closed or being closed.
Discarded ==
    /\ \A c \in Connections : conns[c].status = "Closed" => conns[c].id = 0
    /\ \A c \in 1..generation :
         \/ conns[c].status = "Closed" \/ c = control
         \/ /\ shutdownGate # Nobody /\ pc[shutdownGate] = "shutClosing"
            /\ loc[shutdownGate].conn = c

\* Once shutdown has stopped voice, nobody gets beyond the voice gate.
VoiceDown ==
    \/ shut
    \/ shutdownGate # Nobody /\ pc[shutdownGate] \in {"shutControl", "shutClosing"}

Down ==
    /\ shut => stopped
    /\ VoiceDown => /\ voice = 0
                    /\ voiceGate # Nobody => pc[voiceGate] = "joinControl"
                    /\ \A v \in 1..Len(handles) : ~handles[v].running

\* A running session is installed, or in the hands of the task in the gate.
Reached ==
    \A v \in 1..Len(handles) : handles[v].running =>
        \/ voice = v
        \/ /\ voiceGate # Nobody
           /\ \/ pc[voiceGate] \in {"started", "leave"} /\ loc[voiceGate].handle = v
              \/ pc[voiceGate] = "replaced" /\ loc[voiceGate].conn = v

\* What shutdown has taken away does not come back.
Gone ==
    shut => /\ control = 0 /\ state = 0 /\ intent = NoIntent /\ keys = {}
            /\ shutdownGate = Nobody /\ \A g \in Relays : pc[g] = "ended"

IndInv == /\ Typed /\ Mutexes /\ Holders /\ Outside /\ Discarded /\ Down
          /\ Reached /\ Gone

------------------------------------------------------------------------------
(***************************************************************************)
(* Facts about the names, the tasks and the handles.                       *)
(***************************************************************************)

\* A task is a host or a relay, and "nobody" is neither.
LEMMA Names ==
    /\ Nobody \notin Tasks /\ Nobody = 0 /\ MaxConnections \in Nat \ {0}
    /\ Hosts \cap Relays = {} /\ Tasks = Hosts \cup Relays
    /\ Connections = 1..MaxConnections /\ Relays = Connections
BY FacadeAssumption DEF FacadeAssumption, Nobody, Tasks, Relays, Connections

\* The points at which a task holds none of the mutexes.
Open == {"idle", "connectLock", "joinGate", "leaveGate", "shutdown", "handleHttp",
         "hungHandle", "unborn", "recv", "stopVoice", "rejoin", "ended"}

\* A step of task t to point p with locals l.
Moves(t, p, l) ==
    /\ pc' = [pc EXCEPT ![t] = p] /\ loc' = [loc EXCEPT ![t] = l]

\* A step of one task leaves the others where they are.
LEMMA OneMoves ==
    ASSUME Points, NEW t \in Tasks, NEW p, NEW l \in Locals, Moves(t, p, l),
           t \in Hosts => p \in HostPoints, t \in Relays => p \in RelayPoints
    PROVE  /\ Points' /\ pc'[t] = p /\ loc'[t] = l
           /\ \A u \in Tasks : u # t => pc'[u] = pc[u] /\ loc'[u] = loc[u]
<1>1. p \in HostPoints \cup RelayPoints
  BY Names
<1>2. /\ pc' \in [Tasks -> HostPoints \cup RelayPoints] /\ loc' \in [Tasks -> Locals]
      /\ pc'[t] = p /\ loc'[t] = l
      /\ \A u \in Tasks : u # t => pc'[u] = pc[u] /\ loc'[u] = loc[u]
  BY <1>1 DEF Moves, Points
<1>3. QED
  BY <1>2, Names DEF Points

\* Updating an element of a sequence.
LEMMA Updating ==
    ASSUME NEW S, NEW s \in Seq(S), NEW i \in 1..Len(s), NEW e \in S
    PROVE  LET r == [s EXCEPT ![i] = e]
           IN  /\ r \in Seq(S) /\ Len(r) = Len(s) /\ r[i] = e
               /\ \A j \in 1..Len(s) : j # i => r[j] = s[j]
OBVIOUS

\* A session record keeps everything but the field that is updated.
LEMMA Halting ==
    ASSUME Voices, NEW v \in 1..Len(handles), handles' = Halt(v)
    PROVE  /\ handles' \in Seq(Sessions) /\ Len(handles') = Len(handles)
           /\ \A w \in 1..Len(handles) :
                /\ handles'[w].sid = handles[w].sid /\ handles'[w].left = handles[w].left
                /\ w # v => handles'[w].running = handles[w].running
           /\ handles'[v].running = FALSE
<1>1. handles[v] \in Sessions /\ handles \in Seq(Sessions)
  BY DEF Voices
<1> DEFINE e == [handles[v] EXCEPT !.running = FALSE]
<1>2. e \in Sessions
  BY <1>1 DEF Sessions
<1>3. handles' = [handles EXCEPT ![v] = e]
  BY DEF Halt
<1> HIDE DEF e
<1>4. /\ handles' \in Seq(Sessions) /\ Len(handles') = Len(handles) /\ handles'[v] = e
      /\ \A w \in 1..Len(handles) : w # v => handles'[w] = handles[w]
  BY <1>1, <1>2, <1>3, Updating
<1>5. QED
  BY <1>1, <1>4 DEF Sessions, e

\* The mark of a session that has left.
Mark(v) == [handles EXCEPT ![v].left = TRUE]

\* The same for the mark.
LEMMA Marking ==
    ASSUME Voices, NEW v \in 1..Len(handles), handles' = Mark(v)
    PROVE  /\ handles' \in Seq(Sessions) /\ Len(handles') = Len(handles)
           /\ \A w \in 1..Len(handles) :
                /\ handles'[w].sid = handles[w].sid /\ handles'[w].running = handles[w].running
                /\ w # v => handles'[w].left = handles[w].left
<1>1. handles[v] \in Sessions /\ handles \in Seq(Sessions)
  BY DEF Voices
<1> DEFINE e == [handles[v] EXCEPT !.left = TRUE]
<1>2. e \in Sessions
  BY <1>1 DEF Sessions
<1>3. handles' = [handles EXCEPT ![v] = e]
  BY DEF Mark
<1> HIDE DEF e
<1>4. /\ handles' \in Seq(Sessions) /\ Len(handles') = Len(handles) /\ handles'[v] = e
      /\ \A w \in 1..Len(handles) : w # v => handles'[w] = handles[w]
  BY <1>1, <1>2, <1>3, Updating
<1>5. QED
  BY ZenonT(60), <1>1, <1>4 DEF Sessions, e

\* The locals of a task that has none.
LEMMA Empty == NoLocals \in Locals /\ ~NoLocals.created /\ NoLocals.conn = 0
BY DEF NoLocals, Locals

\* The client starts with nothing.
LEMMA Initially == Init => IndInv
<1> SUFFICES ASSUME Init PROVE IndInv
  OBVIOUS
<1> USE DEF Init
<1>1. Slots
  <2>1. stopped \in BOOLEAN /\ shut \in BOOLEAN
    OBVIOUS
  <2>2. QED
    BY <2>1, Names DEF Slots
<1>2. Network
  BY DEF Network, Conns, Statuses, Fresh, NoBinding
<1>3. Voices
  BY DEF Voices, NoBinding, NoIntent
<1>4. Points
  BY Names, Empty DEF Points, HostPoints, RelayPoints
<1>5. Mutexes
  BY Names DEF Mutexes, Locking, Gated, Joining, Stopping
<1>6. Outside
  <2>1. \A t \in Tasks : loc[t] = NoLocals /\ pc[t] \in {"idle", "unborn"}
    OBVIOUS
  <2>2. \A g \in Relays : pc[g] = "unborn"
    BY Names
  <2>3. 1..Len(handles) = {}
    OBVIOUS
  <2>4. QED
    BY ONLY <2>1, <2>2, <2>3, Empty DEF Outside
<1>7. Holders /\ Reached
  BY DEF Holders, Reached
<1>8. Discarded
  BY DEF Discarded, Fresh
<1>9. Down /\ Gone
  BY DEF Down, VoiceDown, Gone
<1>10. QED
  BY <1>1, <1>2, <1>3, <1>4, <1>5, <1>6, <1>7, <1>8, <1>9 DEF IndInv, Typed

------------------------------------------------------------------------------
(***************************************************************************)
(* Steps that take or release no mutex.                                    *)
(***************************************************************************)

\* What the invariant says of everything but tasks.
Rest == <<stopped, control, generation, state, voice, keys, voiceGate, controlLock,
          shutdownGate, conns, sockets, handles, binding, sids, shut>>

\* A task goes from one open point to another; the intent may be forgotten.
LEMMA OpenStep ==
    ASSUME IndInv, NEW t \in Tasks, NEW p, NEW l \in Locals, Moves(t, p, l),
           t \in Hosts => p \in HostPoints, t \in Relays => p \in RelayPoints,
           pc[t] \in Open \ {"unborn", "ended"}, p \in Open \ {"handleHttp"},
           ~l.created, p = "shutdown" => l.conn = 0,
           UNCHANGED Rest, intent' \in {intent, NoIntent}
    PROVE  IndInv'
<1> USE DEF Rest
<1>1. /\ Points' /\ pc'[t] = p /\ loc'[t] = l
      /\ \A u \in Tasks : u # t => pc'[u] = pc[u] /\ loc'[u] = loc[u]
  BY OneMoves DEF IndInv, Typed
<1>2. Slots' /\ Network'
  BY DEF IndInv, Typed, Slots, Network
<1>3. Voices'
  BY DEF IndInv, Typed, Voices, NoIntent
<1>4. Mutexes' /\ voiceGate # t /\ controlLock # t /\ shutdownGate # t
  BY <1>1, Names DEF IndInv, Mutexes, Locking, Open, Gated, Joining, Stopping
<1>5. /\ voiceGate # Nobody => pc'[voiceGate] = pc[voiceGate] /\ loc'[voiceGate] = loc[voiceGate]
      /\ controlLock # Nobody => pc'[controlLock] = pc[controlLock]
      /\ shutdownGate # Nobody => /\ pc'[shutdownGate] = pc[shutdownGate]
                                  /\ loc'[shutdownGate] = loc[shutdownGate]
  BY <1>1, <1>4, Names DEF IndInv, Typed, Slots
<1>6. Holders'
  BY SMTT(40), <1>5 DEF IndInv, Holders, InGate, InLock, InShutdown, OfNoOther
<1>7. Outside'
  BY <1>1, Names DEF IndInv, Outside, Open
<1>8. Discarded' /\ Down' /\ Reached'
  BY <1>5 DEF IndInv, Discarded, Down, VoiceDown, Reached
<1>9. Gone'
  BY <1>1, Names DEF IndInv, Gone
<1>10. QED
  BY <1>1, <1>2, <1>3, <1>4, <1>6, <1>7, <1>8, <1>9 DEF IndInv, Typed


\* A call that a host begins outside of every mutex.
LEMMA CallOpens ==
    ASSUME IndInv, NEW h \in Hosts, NEW p \in Open \cap HostPoints, NEW l \in Locals,
           p # "handleHttp", Call(h, p, l), ~l.created, p = "shutdown" => l.conn = 0,
           UNCHANGED Rest, intent' \in {intent, NoIntent}
    PROVE  IndInv'
<1>1. /\ h \in Tasks /\ h \notin Relays /\ pc[h] \in Open \ {"unborn", "ended"}
      /\ Moves(h, p, l)
  BY Names DEF Call, Goto, Moves, Open
<1>2. QED
  BY <1>1, OpenStep

\* connect, join_voice, leave_voice and shutdown are called.
LEMMA CallsKeep ==
    ASSUME IndInv, NEW h \in Hosts,
           \/ Connect(h) \/ LeaveVoice(h) \/ Shutdown(h)
           \/ \E ch \in Channels : JoinVoice(h, ch)
    PROVE  IndInv'
<1> USE Empty DEF Rest, inner, connVars, serverVars, history, Open, HostPoints
<1>1. CASE Connect(h)
  BY <1>1, CallOpens DEF Connect
<1>2. CASE LeaveVoice(h)
  BY <1>2, CallOpens DEF LeaveVoice
<1>3. CASE Shutdown(h)
  BY <1>3, CallOpens DEF Shutdown
<1>4. ASSUME NEW ch \in Channels, JoinVoice(h, ch) PROVE IndInv'
  <2> DEFINE l == [NoLocals EXCEPT !.channel = ch]
  <2>1. l \in Locals /\ ~l.created
    BY DEF NoLocals, Locals
  <2>2. Call(h, "joinGate", l) /\ UNCHANGED Rest /\ intent' = intent
    BY <1>4 DEF JoinVoice
  <2> HIDE DEF l
  <2>3. QED
    BY <2>1, <2>2, CallOpens
<1>5. QED
  BY <1>1, <1>2, <1>3, <1>4

\* A relay takes an event, or reads the remembered join.
LEMMA RelayKeeps ==
    ASSUME IndInv, NEW g \in Relays, RelayEvent(g) \/ RelayRejoins(g)
    PROVE  IndInv'
<1> USE DEF Rest, inner, connVars, serverVars, history
<1>1. g \in Tasks /\ g \notin Hosts /\ loc[g] \in Locals /\ loc = [loc EXCEPT ![g] = loc[g]]
  BY Names DEF IndInv, Typed, Points
<1>2. pc[g] \in {"recv", "rejoin"} => ~loc[g].created
  BY <1>1 DEF IndInv, Outside
<1>3. ASSUME RelayEvent(g) PROVE IndInv'
  <2>1. PICK p \in {"ended", "stopVoice", "rejoin", "recv"} : Moves(g, p, loc[g])
    BY <1>3, <1>1 DEF RelayEvent, Goto, Moves
  <2>2. UNCHANGED Rest /\ intent' \in {intent, NoIntent} /\ pc[g] = "recv"
    BY <1>3 DEF RelayEvent
  <2>3. p \in RelayPoints /\ p \in Open /\ p \notin {"handleHttp", "shutdown"}
    BY DEF RelayPoints, Open
  <2>4. pc[g] \in Open \ {"unborn", "ended"}
    BY <2>2 DEF Open
  <2>5. QED
    BY <1>1, <1>2, <2>1, <2>2, <2>3, <2>4, OpenStep
<1>4. ASSUME RelayRejoins(g) PROVE IndInv'
  <2> DEFINE l == [loc[g] EXCEPT !.channel = intent.channel]
  <2>1. l \in Locals /\ l.created = loc[g].created
    BY <1>1 DEF Locals, IndInv, Typed, Voices
  <2>2. UNCHANGED Rest /\ intent' \in {intent, NoIntent} /\ pc[g] = "rejoin"
    BY <1>4 DEF RelayRejoins
  <2>3. Moves(g, "joinGate", l) \/ Moves(g, "recv", loc[g])
    BY <1>4, <1>1 DEF RelayRejoins, Goto, Moves
  <2>4. /\ {"joinGate", "recv"} \subseteq RelayPoints \cap (Open \ {"handleHttp", "shutdown"})
        /\ pc[g] \in Open \ {"unborn", "ended"}
    BY <2>2 DEF RelayPoints, Open
  <2> HIDE DEF l
  <2>5. QED
    BY <1>1, <1>2, <2>1, <2>2, <2>3, <2>4, OpenStep
<1>5. QED
  BY <1>3, <1>4

------------------------------------------------------------------------------
(***************************************************************************)
(* The connections and the server.                                         *)
(***************************************************************************)

\* A connection moves: one that is closed stays closed, and has no id.
LEMMA WorldMoves ==
    ASSUME IndInv, UNCHANGED <<inner, handles, sids, taskVars, history>>,
           sockets' \in Nat, sockets <= sockets', binding' \in {binding, NoBinding},
           NEW c \in Connections, NEW d \in Conns, conns' = [conns EXCEPT ![c] = d],
           d.id <= sockets', d.status = "Closed" => d.id = 0,
           conns[c].status = "Closed" => d.status = "Closed"
    PROVE  IndInv'
<1> USE DEF inner, taskVars, history
<1>1. /\ conns' \in [Connections -> Conns] /\ conns'[c] = d
      /\ \A e \in Connections : e # c => conns'[e] = conns[e]
  BY DEF IndInv, Typed, Network
<1>2. binding' \in [id : Nat, sid : Nat] /\ binding'.id <= sockets'
      /\ binding'.sid <= sids /\ (binding'.id # 0 => binding'.sid # 0)
  <2>1. CASE binding' = binding
    BY <2>1 DEF IndInv, Typed, Network, Voices
  <2>2. CASE binding' = NoBinding
    BY <2>2 DEF IndInv, Typed, Voices, NoBinding
  <2>3. QED
    BY <2>1, <2>2
<1>3. Network'
  <2>1. \A e \in Connections : conns'[e].id <= sockets'
    BY <1>1 DEF IndInv, Typed, Network, Conns
  <2>2. QED
    BY <1>1, <1>2, <2>1 DEF Network
<1>4. Slots' /\ Voices' /\ Points'
  BY <1>2 DEF IndInv, Typed, Slots, Voices, Points
<1>5. Mutexes' /\ Holders' /\ Outside' /\ Down' /\ Reached' /\ Gone'
  BY DEF IndInv, Mutexes, Locking, Holders, InGate, InLock, InShutdown, OfNoOther,
     Outside, Down, VoiceDown, Reached, Gone
<1>6. Discarded'
  <2>1. 1..generation \subseteq Connections
    BY Names DEF IndInv, Typed, Slots
  <2>2. QED
    BY <1>1, <2>1 DEF IndInv, Discarded
<1>7. QED
  BY <1>3, <1>4, <1>5, <1>6 DEF IndInv, Typed

\* Every step of a connection or of its server does no more than that.
LEMMA WorldKeeps ==
    ASSUME IndInv, NEW c \in Connections,
           SocketReady(c) \/ GoLive(c) \/ SocketLost(c) \/ ConnectionEnds(c) \/ Resync(c)
    PROVE  IndInv'
<1>1. conns[c] \in Conns /\ conns[c].id <= sockets /\ sockets \in Nat
  BY DEF IndInv, Typed, Network
<1>2. conns[c].status = "Closed" => conns[c].id = 0
  BY DEF IndInv, Discarded
<1> USE DEF Conns, Statuses
<1>3. CASE SocketReady(c)
  <2> DEFINE d == [conns[c] EXCEPT !.id = sockets + 1, !.status = "Syncing"]
  <2>0. sockets' = sockets + 1 /\ conns[c].status # "Closed"
    BY <1>3 DEF SocketReady
  <2>a. sockets + 1 \in Nat /\ sockets <= sockets + 1
    BY <1>1
  <2>b. d \in Conns /\ d.id = sockets + 1 /\ d.status # "Closed"
    BY <1>1, <2>a
  <2>1. /\ d \in Conns /\ d.id <= sockets' /\ d.status # "Closed"
        /\ sockets' \in Nat /\ sockets <= sockets' /\ conns[c].status # "Closed"
    BY <2>0, <2>a, <2>b
  <2>2. /\ conns' = [conns EXCEPT ![c] = d] /\ binding' = binding
        /\ UNCHANGED <<inner, handles, sids, taskVars, history>>
    BY <1>3 DEF SocketReady, serverVars
  <2> HIDE DEF d, Conns, Statuses
  <2>3. QED
    BY <2>1, <2>2, WorldMoves
<1>4. CASE GoLive(c) \/ Resync(c)
  <2> DEFINE d == [conns[c] EXCEPT !.status = IF GoLive(c) THEN "Live" ELSE "Syncing"]
  <2>1. /\ d \in Conns /\ d.id = conns[c].id /\ d.status # "Closed"
        /\ sockets' = sockets /\ conns[c].status # "Closed"
    BY <1>1, <1>4 DEF GoLive, Resync
  <2>2. /\ conns' = [conns EXCEPT ![c] = d] /\ binding' \in {binding, NoBinding}
        /\ UNCHANGED <<inner, handles, sids, taskVars, history>>
    BY <1>4 DEF GoLive, Resync, serverVars
  <2>3. d.id <= sockets' /\ sockets' \in Nat /\ sockets <= sockets'
    BY <1>1, <2>1
  <2> HIDE DEF d, Conns, Statuses
  <2>4. QED
    BY <2>1, <2>2, <2>3, WorldMoves
<1>5. CASE SocketLost(c) \/ ConnectionEnds(c)
  <2> DEFINE d == [conns[c] EXCEPT !.status = IF SocketLost(c) THEN "Reconnecting" ELSE "Closed",
                                   !.id = 0]
  <2>1. /\ d \in Conns /\ d.id = 0 /\ sockets' = sockets /\ conns[c].status # "Closed"
    BY <1>1, <1>2, <1>5 DEF SocketLost, ConnectionEnds
  <2>2. /\ conns' = [conns EXCEPT ![c] = d] /\ binding' \in {binding, NoBinding}
        /\ UNCHANGED <<inner, handles, sids, taskVars, history>>
    BY <1>5 DEF SocketLost, ConnectionEnds, DropBinding
  <2>3. d.id <= sockets' /\ sockets' \in Nat /\ sockets <= sockets'
    BY <1>1, <2>1
  <2> HIDE DEF d, Conns, Statuses
  <2>4. QED
    BY <2>1, <2>2, <2>3, WorldMoves
<1>6. QED
  BY <1>3, <1>4, <1>5


------------------------------------------------------------------------------
(***************************************************************************)
(* A session ends without the voice gate: by itself, or by its handle.     *)
(***************************************************************************)

\* A host at rest may begin a leave of the session that is halted, or hang.
Rests(u, v) ==
    \/ pc'[u] = pc[u] /\ loc'[u] = loc[u]
    \/ /\ u \in Hosts /\ pc[u] = "idle" /\ pc'[u] \in {"idle", "handleHttp", "hungHandle"}
       /\ ~loc'[u].created /\ (pc'[u] = "handleHttp" => loc'[u].handle = v)

\* Halting a session takes only its own key, which no join under way needs.
LEMMA SessionStops ==
    ASSUME IndInv, NEW v \in 1..Len(handles), handles' = Halt(v),
           keys' = keys \ {handles[v].sid}, intent' \in {intent, NoIntent},
           UNCHANGED <<stopped, control, generation, state, voice, voiceGate, controlLock,
                       shutdownGate, conns, sockets, binding, sids, shut>>,
           Points', \A u \in Tasks : Rests(u, v)
    PROVE  IndInv'
<1>1. /\ handles' \in Seq(Sessions) /\ Len(handles') = Len(handles)
      /\ \A w \in 1..Len(handles) :
           /\ handles'[w].sid = handles[w].sid /\ handles'[w].left = handles[w].left
           /\ w # v => handles'[w].running = handles[w].running
      /\ handles'[v].running = FALSE
  BY Halting DEF IndInv, Typed
<1>2. Slots' /\ Network'
  BY DEF IndInv, Typed, Slots, Network
<1>3. Voices'
  <2>1. intent' \in [sid : 0..sids, channel : Channels \cup {0}]
    BY DEF IndInv, Typed, Voices, NoIntent
  <2>2. QED
    BY <1>1, <2>1 DEF IndInv, Typed, Voices
<1>4. \A u \in Tasks : u \in {voiceGate, controlLock, shutdownGate} =>
        pc'[u] = pc[u] /\ loc'[u] = loc[u]
  BY DEF IndInv, Mutexes, Locking, Rests, Gated, Joining, Stopping
<1>5. /\ voiceGate # Nobody => pc'[voiceGate] = pc[voiceGate] /\ loc'[voiceGate] = loc[voiceGate]
      /\ controlLock # Nobody => pc'[controlLock] = pc[controlLock]
      /\ shutdownGate # Nobody => /\ pc'[shutdownGate] = pc[shutdownGate]
                                  /\ loc'[shutdownGate] = loc[shutdownGate]
  BY <1>4, Names DEF IndInv, Typed, Slots
<1>6. Mutexes'
  BY DEF IndInv, Mutexes, Locking, Rests, Gated, Joining, Stopping
<1>7. voiceGate # Nobody => InGate(voiceGate)'
  <2> SUFFICES ASSUME voiceGate # Nobody PROVE InGate(voiceGate)'
    OBVIOUS
  <2> DEFINE l == loc[voiceGate]
  <2>1. InGate(voiceGate) /\ pc'[voiceGate] = pc[voiceGate] /\ loc'[voiceGate] = l
    BY <1>5 DEF IndInv, Holders
  <2>2. \A s, h : OfNoOther(s, h) => OfNoOther(s, h)'
    BY <1>1 DEF OfNoOther
  <2>3. ASSUME pc[voiceGate] \in {"started", "replaced"}, l.created, handles'[l.handle].running
        PROVE  l.sid \in keys'
    <3>1. l.handle \in 1..Len(handles) /\ l.handle # v
      BY <1>1, <2>1, <2>3 DEF InGate
    <3>2. handles[v].sid # l.sid /\ l.sid \in keys
      BY <1>1, <2>1, <2>3, <3>1 DEF InGate, OfNoOther
    <3>3. QED
      BY <3>2
  <2>4. QED
    BY <1>1, <2>1, <2>2, <2>3 DEF InGate
<1>8. Holders'
  BY <1>5, <1>7 DEF IndInv, Holders, InLock, InShutdown
<1>9. Outside'
  <2>1. \A u \in Tasks : /\ loc'[u].created => pc'[u] \in {"joined", "started", "replaced"}
                         /\ pc'[u] = "shutdown" => loc'[u].conn = 0
    BY DEF IndInv, Outside, Rests
  <2>2. ASSUME NEW u \in Tasks, pc'[u] = "handleHttp"
        PROVE  loc'[u].handle \in 1..Len(handles') /\ ~handles'[loc'[u].handle].running
    <3>1. \/ loc'[u].handle = v
          \/ loc'[u].handle \in 1..Len(handles) /\ ~handles[loc'[u].handle].running
      BY <2>2 DEF IndInv, Outside, Rests
    <3>2. QED
      BY <1>1, <3>1
  <2>3. \A w \in 1..Len(handles') : handles'[w].left => ~handles'[w].running
    BY <1>1 DEF IndInv, Outside
  <2>4. \A g \in Relays : g > generation' => pc'[g] \in {"unborn", "ended"}
    BY Names DEF IndInv, Outside, Rests
  <2>5. QED
    BY ONLY <2>1, <2>2, <2>3, <2>4 DEF Outside
<1>10. Discarded' /\ Down' /\ Reached'
  BY <1>1, <1>5 DEF IndInv, Discarded, Down, VoiceDown, Reached
<1>11. Gone'
  BY Names DEF IndInv, Gone, Rests
<1>12. QED
  BY <1>2, <1>3, <1>6, <1>8, <1>9, <1>10, <1>11 DEF IndInv, Typed

\* A worker that ends, close and leave of a handle.
LEMMA HandlesKeep ==
    ASSUME IndInv, NEW v \in DOMAIN handles,
           \/ WorkerEnds(v)
           \/ \E h \in Hosts : CloseHandle(h, v) \/ LeaveHandle(h, v) \/ HandleHangs(h, v)
    PROVE  IndInv'
<1> USE DEF inner, connVars, serverVars, taskVars, history
<1>1. v \in 1..Len(handles)
  BY DEF IndInv, Typed, Voices
<1>2. CASE WorkerEnds(v)
  BY <1>1, <1>2, SessionStops DEF WorkerEnds, Rests, IndInv, Typed, Points
<1>3. ASSUME NEW h \in Hosts, CloseHandle(h, v) PROVE IndInv'
  BY <1>1, <1>3, SessionStops DEF CloseHandle, ClearOwnIntent, Rests, IndInv, Typed, Points
<1>4. ASSUME NEW h \in Hosts, LeaveHandle(h, v) PROVE IndInv'
  <2> DEFINE id == conns[handles[v].conn].id
             p == IF id = 0 THEN "idle" ELSE "handleHttp"
             l == IF id = 0 THEN NoLocals ELSE [NoLocals EXCEPT !.handle = v, !.id = id]
  <2>1. Call(h, p, l)
    BY <1>4 DEF LeaveHandle
  <2>2. id \in Nat /\ v \in Nat
    <3>1. handles[v] \in Sessions
      BY <1>1 DEF IndInv, Typed, Voices
    <3>2. conns[handles[v].conn] \in Conns
      BY <3>1 DEF Sessions, IndInv, Typed, Network
    <3>3. QED
      BY <1>1, <3>2 DEF Conns, IndInv, Typed, Voices
  <2>3. l \in Locals /\ ~l.created /\ (p = "handleHttp" => l.handle = v)
    BY <2>2 DEF NoLocals, Locals
  <2>4. p \in {"idle", "handleHttp"} /\ p \in HostPoints
    BY DEF HostPoints
  <2>5. handles' = Halt(v) /\ keys' = keys \ {handles[v].sid} /\ intent' \in {intent, NoIntent}
    BY <1>4 DEF LeaveHandle, ClearOwnIntent
  <2>6. UNCHANGED <<stopped, control, generation, state, voice, voiceGate, controlLock,
                    shutdownGate, conns, sockets, binding, sids, shut>>
    BY <1>4 DEF LeaveHandle
  <2> HIDE DEF p, l
  <2>7. pc[h] = "idle" /\ Moves(h, p, l) /\ h \in Tasks /\ h \notin Relays
    BY <2>1, Names DEF Call, Goto, Moves
  <2>8. /\ Points' /\ pc'[h] = p /\ loc'[h] = l
        /\ \A u \in Tasks : u # h => pc'[u] = pc[u] /\ loc'[u] = loc[u]
    BY <2>3, <2>4, <2>7, OneMoves DEF IndInv, Typed
  <2>9. \A u \in Tasks : Rests(u, v)
    BY <2>3, <2>4, <2>7, <2>8 DEF Rests
  <2>10. QED
    BY <1>1, <2>5, <2>6, <2>8, <2>9, SessionStops
<1>5. ASSUME NEW h \in Hosts, HandleHangs(h, v) PROVE IndInv'
  <2> DEFINE l == [NoLocals EXCEPT !.handle = v]
  <2>0. v \in Nat
    BY <1>1 DEF IndInv, Typed, Voices
  <2>1. l \in Locals /\ ~l.created
    BY <2>0 DEF NoLocals, Locals
  <2>2. pc[h] = "idle" /\ Moves(h, "hungHandle", l) /\ h \in Tasks /\ h \notin Relays
    BY <1>5, Names DEF HandleHangs, Hangs, Goto, Moves
  <2>3. handles' = Halt(v) /\ keys' = keys \ {handles[v].sid} /\ intent' \in {intent, NoIntent}
    BY <1>5 DEF HandleHangs, Hangs, ClearOwnIntent
  <2>4. UNCHANGED <<stopped, control, generation, state, voice, voiceGate, controlLock,
                    shutdownGate, conns, sockets, binding, sids, shut>>
    BY <1>5 DEF HandleHangs
  <2> HIDE DEF l
  <2>5. /\ Points' /\ pc'[h] = "hungHandle" /\ loc'[h] = l
        /\ \A u \in Tasks : u # h => pc'[u] = pc[u] /\ loc'[u] = loc[u]
    BY <2>1, <2>2, OneMoves DEF IndInv, Typed, HostPoints
  <2>6. \A u \in Tasks : Rests(u, v)
    BY <2>1, <2>2, <2>5 DEF Rests
  <2>7. QED
    BY <1>1, <2>3, <2>4, <2>5, <2>6, SessionStops
<1>6. QED
  BY <1>2, <1>3, <1>4, <1>5

\* leave of a handle is answered.
LEMMA HandleAnswered ==
    ASSUME IndInv, NEW h \in Hosts, LeaveHandleAnswered(h)
    PROVE  IndInv'
<1> DEFINE v == loc[h].handle
<1> USE DEF inner, connVars, history
<1>1. /\ h \in Tasks /\ h \notin Relays /\ pc[h] = "handleHttp"
      /\ Moves(h, "idle", NoLocals)
  BY Names DEF LeaveHandleAnswered, Return, Goto, Moves
<1>2. v \in 1..Len(handles) /\ ~handles[v].running
  BY <1>1 DEF IndInv, Outside
<1>3. UNCHANGED <<stopped, control, generation, state, voice, keys, voiceGate, controlLock,
                  shutdownGate, conns, sockets, sids, shut, intent>>
  BY DEF LeaveHandleAnswered
<1>4. CASE UNCHANGED <<binding, handles>>
  BY <1>1, <1>3, <1>4, Empty, OpenStep DEF Open, HostPoints, Rest
<1>5. CASE Unbind(h) /\ (handles' = Mark(v) \/ handles' = handles)
  <2>1. /\ handles' \in Seq(Sessions) /\ Len(handles') = Len(handles)
        /\ \A w \in 1..Len(handles) :
             /\ handles'[w].sid = handles[w].sid /\ handles'[w].running = handles[w].running
             /\ w # v => handles'[w].left = handles[w].left
    BY <1>2, <1>5, Marking DEF IndInv, Typed, Voices
  <2>2. binding' \in {binding, NoBinding}
    BY <1>5 DEF Unbind
  <2>3. /\ Points' /\ pc'[h] = "idle" /\ loc'[h] = NoLocals
        /\ \A u \in Tasks : u # h => pc'[u] = pc[u] /\ loc'[u] = loc[u]
    BY <1>1, Empty, OneMoves DEF IndInv, Typed, HostPoints
  <2>4. Slots' /\ Network'
    BY <1>3, <2>2 DEF IndInv, Typed, Slots, Network, NoBinding
  <2>5. Voices'
    BY <1>3, <2>1, <2>2 DEF IndInv, Typed, Voices, NoBinding
  <2>6. Mutexes' /\ voiceGate # h /\ controlLock # h /\ shutdownGate # h
    BY <1>1, <1>3, <2>3, Names DEF IndInv, Mutexes, Locking, Gated, Joining, Stopping
  <2>7. /\ voiceGate # Nobody => pc'[voiceGate] = pc[voiceGate] /\ loc'[voiceGate] = loc[voiceGate]
        /\ controlLock # Nobody => pc'[controlLock] = pc[controlLock]
        /\ shutdownGate # Nobody => /\ pc'[shutdownGate] = pc[shutdownGate]
                                    /\ loc'[shutdownGate] = loc[shutdownGate]
    BY <2>3, <2>6, Names DEF IndInv, Typed, Slots
  <2>8. Holders'
    BY SMTT(40), <1>3, <2>1, <2>7 DEF IndInv, Holders, InGate, InLock, InShutdown, OfNoOther
  <2>9. Outside'
    <3>1. \A u \in Tasks : /\ loc'[u].created => pc'[u] \in {"joined", "started", "replaced"}
                           /\ pc'[u] = "shutdown" => loc'[u].conn = 0
                           /\ pc'[u] = "handleHttp" =>
                                /\ loc'[u].handle \in 1..Len(handles')
                                /\ ~handles'[loc'[u].handle].running
      BY <2>1, <2>3, Empty DEF IndInv, Outside
    <3>2. \A w \in 1..Len(handles') : handles'[w].left => ~handles'[w].running
      BY <1>2, <2>1 DEF IndInv, Outside
    <3>3. \A g \in Relays : g > generation' => pc'[g] \in {"unborn", "ended"}
      BY <1>1, <1>3, <2>3, Names DEF IndInv, Outside
    <3>4. QED
      BY ONLY <3>1, <3>2, <3>3 DEF Outside
  <2>10. Discarded' /\ Down' /\ Reached'
    BY SMTT(40), <1>3, <2>1, <2>7 DEF IndInv, Discarded, Down, VoiceDown, Reached
  <2>11. Gone'
    BY <1>1, <1>3, <2>3, Names DEF IndInv, Gone
  <2>12. QED
    BY <2>3, <2>4, <2>5, <2>6, <2>8, <2>9, <2>10, <2>11 DEF IndInv, Typed
<1>6. QED
  BY <1>4, <1>5 DEF LeaveHandleAnswered, Mark


------------------------------------------------------------------------------
(***************************************************************************)
(* Steps under the voice gate: join_voice.                                 *)
(***************************************************************************)

\* Where a call of task t ends.
Home(t) == IF t \in Hosts THEN "idle" ELSE "recv"

\* What a step of t into, inside or out of the gate says of the other parts.
GateMoves(t, p, l) ==
    /\ Moves(t, p, l)
    /\ t \in Hosts => p \in HostPoints
    /\ t \in Relays => p \in RelayPoints
    /\ pc[t] \in Gated \cup {"joinGate", "leaveGate"}
    /\ p \in Gated \cup {Home(t)}
    /\ voiceGate \in {Nobody, t}
    /\ voiceGate' = IF p \in Gated THEN t ELSE Nobody
    /\ UNCHANGED <<stopped, control, generation, state, controlLock, shutdownGate,
                   conns, sockets, shut>>

\* Such a step disturbs neither the other mutexes nor the connections.
LEMMA GateStep ==
    ASSUME IndInv, NEW t \in Tasks, NEW p, NEW l \in Locals, GateMoves(t, p, l)
    PROVE  /\ Slots' /\ Points' /\ Mutexes' /\ Discarded'
           /\ pc'[t] = p /\ loc'[t] = l
           /\ \A u \in Tasks : u # t => pc'[u] = pc[u] /\ loc'[u] = loc[u]
           /\ controlLock # Nobody => InLock(controlLock)'
           /\ shutdownGate # Nobody => InShutdown(shutdownGate)'
           /\ VoiceDown' <=> VoiceDown
           /\ \A g \in Relays : g > generation' => pc'[g] \in {"unborn", "ended"}
           /\ p \in Gated => voiceGate' = t /\ t # Nobody
           /\ p \notin Gated => voiceGate' = Nobody
           /\ shut => t \notin Relays /\ Gone
<1> USE DEF GateMoves
<1>1. /\ Points' /\ pc'[t] = p /\ loc'[t] = l
      /\ \A u \in Tasks : u # t => pc'[u] = pc[u] /\ loc'[u] = loc[u]
  BY OneMoves DEF IndInv, Typed
<1>2. t # Nobody /\ Home(t) \in {"idle", "recv"}
  BY Names DEF Home
<1>3. Slots'
  BY DEF IndInv, Typed, Slots
<1>4. ~Locking(t) /\ ~Locking(t)' /\ pc[t] \notin Stopping /\ p \notin Stopping
  BY <1>1, <1>2 DEF Locking, Gated, Joining, Stopping
<1>5. \A u \in Tasks : u # t => Locking(u)' = Locking(u)
  BY <1>1 DEF Locking
<1>6. Mutexes' /\ controlLock # t /\ shutdownGate # t
  <2>1. \A u \in Tasks : pc'[u] \in Gated \cup {"hungShut"} <=> voiceGate' = u
    BY <1>1, <1>2, Names DEF IndInv, Mutexes, Gated, Joining
  <2>2. \A u \in Tasks : Locking(u)' <=> controlLock' = u
    BY <1>4, <1>5 DEF IndInv, Mutexes
  <2>3. \A u \in Tasks : pc'[u] \in Stopping <=> shutdownGate' = u
    BY <1>1, <1>4 DEF IndInv, Mutexes
  <2>4. QED
    BY <1>4, <2>1, <2>2, <2>3 DEF IndInv, Mutexes
<1>7. /\ controlLock # Nobody => pc'[controlLock] = pc[controlLock]
      /\ shutdownGate # Nobody => /\ pc'[shutdownGate] = pc[shutdownGate]
                                  /\ loc'[shutdownGate] = loc[shutdownGate]
  BY <1>1, <1>6, Names DEF IndInv, Typed, Slots
<1>8. /\ controlLock # Nobody => InLock(controlLock)'
      /\ shutdownGate # Nobody => InShutdown(shutdownGate)'
      /\ VoiceDown' <=> VoiceDown
  BY <1>7 DEF IndInv, Holders, InLock, InShutdown, VoiceDown
<1>9. Discarded'
  BY <1>7 DEF IndInv, Discarded
<1>10. \A g \in Relays : g > generation' => pc'[g] \in {"unborn", "ended"}
  BY <1>1, Names DEF IndInv, Outside, Gated, Joining
<1>11. shut => t \notin Relays /\ Gone
  BY <1>2 DEF IndInv, Gone, Gated, Joining
<1>12. QED
  BY <1>1, <1>2, <1>3, <1>6, <1>8, <1>9, <1>10, <1>11

\* A step of a join that has no session yet, or gives up before it has one.
LEMMA JoinMoves ==
    ASSUME IndInv, NEW t \in Tasks, NEW p, NEW l \in Locals, GateMoves(t, p, l),
           pc[t] \in {"joinGate", "joinControl", "discover", "joinHttp", "joined"},
           p \in {"joinControl", "discover", "joinHttp", "joined", Home(t)},
           UNCHANGED <<voice, handles, keys>>, intent' \in {intent, NoIntent},
           Network', Voices',
           l.created => p = "joined", voiceGate' # Nobody => InGate(t)',
           stopped /\ pc[t] \in {"joinGate", "joinControl"} => p \in {"joinControl", Home(t)}
    PROVE  IndInv'
<1> USE DEF Home
<1>1. /\ Slots' /\ Points' /\ Mutexes' /\ Discarded'
      /\ pc'[t] = p /\ loc'[t] = l
      /\ \A u \in Tasks : u # t => pc'[u] = pc[u] /\ loc'[u] = loc[u]
      /\ controlLock # Nobody => InLock(controlLock)'
      /\ shutdownGate # Nobody => InShutdown(shutdownGate)'
      /\ VoiceDown' <=> VoiceDown
      /\ \A g \in Relays : g > generation' => pc'[g] \in {"unborn", "ended"}
      /\ p \in Gated => voiceGate' = t /\ t # Nobody
      /\ p \notin Gated => voiceGate' = Nobody
      /\ shut => t \notin Relays /\ Gone
  BY GateStep
<1>2. UNCHANGED <<stopped, control, generation, state, controlLock, shutdownGate,
                  conns, sockets, shut>> /\ voiceGate \in {Nobody, t}
  BY DEF GateMoves
<1>3. Holders'
  BY <1>1, <1>2 DEF Holders, Gated, Joining
<1>4. Outside'
  BY <1>1, <1>2 DEF IndInv, Outside
<1>5. Down'
  BY <1>1, <1>2 DEF IndInv, Down, VoiceDown, Mutexes, Holders, InShutdown, Gated, Joining
<1>6. Reached'
  BY <1>1, <1>2 DEF IndInv, Reached
<1>7. Gone'
  BY <1>1, <1>2, Names DEF IndInv, Gone
<1>8. QED
  BY <1>1, <1>3, <1>4, <1>5, <1>6, <1>7 DEF IndInv, Typed


\* A failed join gives the gate back.
LEMMA Fails ==
    ASSUME IndInv, NEW t \in Tasks, pc[t] \in Joining, JoinFails(t),
           UNCHANGED <<stopped, control, generation, state, controlLock, shutdownGate,
                       conns, sockets, shut>>
    PROVE  /\ GateMoves(t, Home(t), NoLocals) /\ Home(t) \notin Gated
           /\ voiceGate = t /\ voiceGate' = Nobody /\ intent' \in {intent, NoIntent}
<1>1. Home(t) \notin Gated /\ (t \in Hosts => Home(t) \in HostPoints)
      /\ (t \in Relays => Home(t) \in RelayPoints)
  BY Names DEF Home, Gated, Joining, HostPoints, RelayPoints
<1>2. voiceGate = t
  BY DEF IndInv, Mutexes, Gated
<1>3. Moves(t, Home(t), NoLocals) /\ voiceGate' = Nobody /\ intent' \in {intent, NoIntent}
  BY DEF JoinFails, Return, Goto, Moves, Home
<1>4. QED
  BY <1>1, <1>2, <1>3 DEF GateMoves, Gated

\* The same before there is a session: nothing but the gate is given back.
LEMMA FailsEarly ==
    ASSUME IndInv, NEW t \in Tasks, JoinFails(t),
           pc[t] \in {"joinControl", "discover", "joinHttp", "joined"},
           UNCHANGED <<stopped, control, generation, state, voice, keys, controlLock,
                       shutdownGate, conns, sockets, handles, serverVars, shut>>
    PROVE  IndInv'
<1>1. /\ GateMoves(t, Home(t), NoLocals) /\ Home(t) \notin Gated
      /\ voiceGate' = Nobody /\ intent' \in {intent, NoIntent}
  BY Fails DEF Joining
<1>2. Network' /\ Voices'
  BY <1>1 DEF serverVars, IndInv, Typed, Network, Voices, NoIntent
<1>3. QED
  BY <1>1, <1>2, Empty, JoinMoves

\* The points of a join are points of hosts and of relays.
LEMMA JoinPoints == Joining \subseteq HostPoints /\ Joining \subseteq RelayPoints /\ Joining \subseteq Gated
BY DEF HostPoints, RelayPoints, Gated

\* The gate is entered.
LEMMA JoinGatedKeeps ==
    ASSUME IndInv, NEW t \in Tasks, JoinGated(t)
    PROVE  IndInv'
<1> USE DEF connVars, serverVars, history
<1>1. /\ Moves(t, "joinControl", loc[t]) /\ loc[t] \in Locals
      /\ pc[t] = "joinGate" /\ voiceGate = Nobody /\ voiceGate' = t
  BY DEF JoinGated, Goto, Moves, IndInv, Typed, Points
<1>2. GateMoves(t, "joinControl", loc[t])
  BY <1>1, JoinPoints DEF JoinGated, GateMoves, Joining, Gated
<1>3. ~loc[t].created
  BY <1>1 DEF IndInv, Outside
<1>4. Network' /\ Voices' /\ UNCHANGED <<voice, handles, keys, intent>>
  BY DEF JoinGated, IndInv, Typed, Network, Voices
<1>5. InGate(t)'
  BY <1>1, <1>2, GateStep DEF InGate
<1>6. QED
  BY <1>1, <1>2, <1>3, <1>4, <1>5, JoinMoves

\* The connection is looked up.
LEMMA JoinControlKeeps ==
    ASSUME IndInv, NEW t \in Tasks, JoinControl(t)
    PROVE  IndInv'
<1> USE DEF connVars, history
<1>1. CASE JoinFails(t)
  BY <1>1, FailsEarly DEF JoinControl
<1>2. CASE ~stopped /\ Goto(t, "discover") /\ loc' = [loc EXCEPT ![t].conn = control]
           /\ control # 0 /\ UNCHANGED <<voiceGate, intent>>
  <2> DEFINE l == [loc[t] EXCEPT !.conn = control]
  <2>1. loc[t] \in Locals /\ control \in Connections /\ pc[t] = "joinControl" /\ ~loc[t].created
    BY <1>2, Names DEF JoinControl, IndInv, Typed, Points, Slots, Outside
  <2>2. l \in Locals /\ l.conn = control /\ ~l.created
    BY SMTT(40), <2>1, Names DEF Locals
  <2>3. Moves(t, "discover", l) /\ voiceGate = t
    BY <1>2, <2>1 DEF Goto, Moves, IndInv, Mutexes, Gated, Joining
  <2> HIDE DEF l
  <2>4. GateMoves(t, "discover", l)
    BY <1>2, <2>1, <2>3, JoinPoints DEF JoinControl, GateMoves, Joining, Gated
  <2>5. Network' /\ Voices' /\ UNCHANGED <<voice, handles, keys, intent>>
    BY <1>2 DEF JoinControl, serverVars, IndInv, Typed, Network, Voices
  <2>6. InGate(t)'
    BY <2>1, <2>2, <2>4, GateStep DEF InGate
  <2>7. QED
    BY <1>2, <2>1, <2>2, <2>4, <2>5, <2>6, JoinMoves
<1>3. QED
  BY <1>1, <1>2 DEF JoinControl

\* The join request is sent, or the metadata does not come.
LEMMA JoinRequestedKeeps ==
    ASSUME IndInv, NEW t \in Tasks, JoinRequested(t)
    PROVE  IndInv'
<1> USE DEF connVars, history
<1> DEFINE c == conns[loc[t].conn]
           l == [loc[t] EXCEPT !.id = c.id, !.gen = generation]
<1>1. CASE JoinFails(t)
  BY <1>1, FailsEarly DEF JoinRequested
<1>2. CASE /\ c.id # 0 /\ loc' = [loc EXCEPT ![t].id = c.id, ![t].gen = generation]
           /\ Goto(t, "joinHttp") /\ UNCHANGED <<voiceGate, intent>>
  <2>1. loc[t] \in Locals /\ pc[t] = "discover" /\ ~loc[t].created /\ voiceGate = t
    BY DEF JoinRequested, IndInv, Typed, Points, Outside, Mutexes, Gated, Joining
  <2>2. loc[t].conn \in Connections
    BY <2>1, Names DEF IndInv, Holders, InGate
  <2>3. c \in Conns /\ generation \in Nat
    BY <2>2, Names DEF IndInv, Typed, Network, Slots
  <2>4. l \in Locals /\ l.conn = loc[t].conn /\ l.id # 0 /\ ~l.created
    BY <1>2, <2>1, <2>3 DEF Locals, Conns
  <2>5. loc' = [loc EXCEPT ![t] = l]
    BY <1>2
  <2>6. Moves(t, "joinHttp", l)
    BY <1>2, <2>5 DEF Goto, Moves
  <2> HIDE DEF l, c
  <2>7. GateMoves(t, "joinHttp", l)
    BY <1>2, <2>1, <2>6, JoinPoints DEF JoinRequested, GateMoves, Joining, Gated
  <2>8. Network' /\ Voices' /\ UNCHANGED <<voice, handles, keys, intent>>
    BY <1>2 DEF JoinRequested, serverVars, IndInv, Typed, Network, Voices
  <2>9. InGate(t)'
    BY <2>2, <2>4, <2>7, GateStep DEF InGate
  <2>10. QED
    BY <2>1, <2>4, <2>7, <2>8, <2>9, JoinMoves
<1>3. QED
  BY <1>1, <1>2 DEF JoinRequested

\* The server answers, with its session or with a new one of no other handle.
LEMMA ServerJoinKeeps ==
    ASSUME IndInv, NEW t \in Tasks, ServerJoin(t)
    PROVE  IndInv'
<1> USE DEF inner, connVars, serverVars, history
<1>1. loc[t] \in Locals /\ pc[t] = "joinHttp" /\ ~loc[t].created /\ voiceGate = t
  BY DEF ServerJoin, IndInv, Typed, Points, Outside, Mutexes, Gated, Joining
<1>2. loc[t].conn \in Connections /\ loc[t].id # 0 /\ loc[t].id \in Nat /\ loc[t].id <= sockets
  <2>1. loc[t].conn \in Connections /\ loc[t].id # 0
    BY <1>1, Names DEF IndInv, Holders, InGate
  <2>2. PICK c \in Connections : conns[c].id = loc[t].id
    BY DEF ServerJoin
  <2>3. QED
    BY <1>1, <2>1, <2>2 DEF Locals, IndInv, Typed, Network
<1>3. UNCHANGED <<stopped, control, generation, state, controlLock, shutdownGate, conns,
                  sockets, shut, voiceGate, voice, handles, keys, intent>>
  BY DEF ServerJoin
<1>4. ASSUME NEW l \in Locals, Moves(t, "joined", l), l.conn = loc[t].conn,
             l.sid \in 1..sids', l.created => OfNoOther(l.sid, 0), Network', Voices'
      PROVE  IndInv'
  <2>1. GateMoves(t, "joined", l)
    BY <1>1, <1>3, <1>4, JoinPoints DEF GateMoves, Joining, Gated
  <2>2. (l.created => OfNoOther(l.sid, 0)) => (l.created => OfNoOther(l.sid, 0)')
    BY <1>3 DEF OfNoOther
  <2>3. InGate(t)'
    BY <1>2, <1>4, <2>1, <2>2, GateStep DEF InGate
  <2>4. QED
    BY <1>1, <1>3, <1>4, <2>1, <2>3, JoinMoves
<1>5. CASE /\ binding.id = loc[t].id /\ loc' = [loc EXCEPT ![t].sid = binding.sid]
           /\ UNCHANGED <<binding, sids>>
  <2> DEFINE l == [loc[t] EXCEPT !.sid = binding.sid]
  <2>1. binding.sid \in 1..sids
    BY <1>2, <1>5 DEF IndInv, Typed, Network, Voices
  <2>2. l \in Locals /\ l.conn = loc[t].conn /\ l.sid = binding.sid /\ ~l.created
    BY <1>1, <2>1 DEF Locals, IndInv, Typed, Network
  <2>3. Moves(t, "joined", l)
    BY <1>5 DEF ServerJoin, Goto, Moves
  <2> HIDE DEF l
  <2>4. Network' /\ Voices'
    BY <1>3, <1>5 DEF IndInv, Typed, Network, Voices
  <2>5. QED
    BY <1>4, <1>5, <2>1, <2>2, <2>3, <2>4
<1>6. CASE /\ sids' = sids + 1 /\ binding' = [id |-> loc[t].id, sid |-> sids + 1]
           /\ loc' = [loc EXCEPT ![t].sid = sids + 1, ![t].created = TRUE]
  <2> DEFINE l == [loc[t] EXCEPT !.sid = sids + 1, !.created = TRUE]
  <2>1. sids \in Nat /\ sids + 1 \in 1..sids' /\ 1..sids \subseteq 1..sids' /\ sids + 1 \in Nat
    BY <1>6 DEF IndInv, Typed, Voices
  <2>2. l \in Locals /\ l.conn = loc[t].conn /\ l.sid = sids + 1
    BY <1>1, <2>1 DEF Locals
  <2>3. loc' = [loc EXCEPT ![t] = l]
    BY <1>6
  <2>4. Moves(t, "joined", l)
    BY <2>3 DEF ServerJoin, Goto, Moves
  <2> HIDE DEF l
  <2>5. OfNoOther(sids + 1, 0)
    BY <2>1 DEF IndInv, Typed, Voices, OfNoOther
  <2>6. Network'
    BY <1>2, <1>3, <1>6, <2>1 DEF IndInv, Typed, Network
  <2>7. Voices'
    <3>1. /\ intent' \in [sid : 0..sids', channel : Channels \cup {0}]
          /\ keys' \subseteq 1..sids' /\ sids' \in Nat
      BY <1>3, <1>6, <2>1 DEF IndInv, Typed, Voices
    <3>2. \A v \in 1..Len(handles) : handles[v].sid \in 1..sids'
      BY <2>1 DEF IndInv, Typed, Voices
    <3>3. binding'.sid <= sids' /\ binding'.sid # 0
      BY <1>6, <2>1
    <3>4. handles' \in Seq(Sessions) /\ voice' \in 0..Len(handles')
      BY <1>3 DEF IndInv, Typed, Voices
    <3>5. QED
      BY <1>3, <3>1, <3>2, <3>3, <3>4 DEF Voices
  <2>8. QED
    BY <1>4, <2>1, <2>2, <2>4, <2>5, <2>6, <2>7
<1>7. QED
  BY <1>5, <1>6 DEF ServerJoin

\* The request is refused.
LEMMA JoinRefusedKeeps ==
    ASSUME IndInv, NEW t \in Tasks, JoinRefused(t)
    PROVE  IndInv'
BY FailsEarly DEF JoinRefused, connVars, history


\* The UDP session is started, or its key is missing.
LEMMA StartTransportKeeps ==
    ASSUME IndInv, NEW t \in Tasks, StartTransport(t)
    PROVE  IndInv'
<1> USE DEF connVars, history
<1>1. CASE JoinFails(t) /\ UNCHANGED <<handles, keys>>
  BY <1>1, FailsEarly DEF StartTransport
<1>2. CASE /\ handles' = Append(handles, [sid |-> loc[t].sid, gen |-> loc[t].gen,
                    conn |-> loc[t].conn, running |-> TRUE, left |-> FALSE])
           /\ keys' = keys \cup {loc[t].sid}
           /\ loc' = [loc EXCEPT ![t].handle = Len(handles) + 1, ![t].saved = ~loc[t].created]
           /\ Goto(t, "started") /\ UNCHANGED <<voiceGate, intent>>
  <2> DEFINE k == loc[t]
             n == Len(handles) + 1
             s == [sid |-> k.sid, gen |-> k.gen, conn |-> k.conn, running |-> TRUE,
                   left |-> FALSE]
             l == [k EXCEPT !.handle = n, !.saved = ~k.created]
  <2>1. k \in Locals /\ pc[t] = "joined" /\ voiceGate = t
    BY DEF StartTransport, IndInv, Typed, Points, Mutexes, Gated, Joining
  <2>2. k.conn \in Connections /\ k.sid \in 1..sids /\ (k.created => OfNoOther(k.sid, 0))
    BY <2>1, Names DEF IndInv, Holders, InGate
  <2>3. s \in Sessions /\ s.sid = k.sid /\ s.running = TRUE /\ s.left = FALSE
    BY <2>1, <2>2 DEF Locals, Sessions
  <2>4. handles \in Seq(Sessions) /\ n \in Nat /\ voice \in 0..Len(handles)
    BY DEF IndInv, Typed, Voices
  <2>5. /\ l \in Locals /\ l.conn = k.conn /\ l.sid = k.sid /\ l.handle = n
        /\ l.created = k.created /\ l.saved = ~k.created
    BY <2>1, <2>4 DEF Locals
  <2>6. handles' = Append(handles, s) /\ loc' = [loc EXCEPT ![t] = l]
    BY <1>2
  <2>7. Moves(t, "started", l)
    BY <1>2, <2>6 DEF Goto, Moves
  <2> HIDE DEF l, s, k
  <2>8. /\ handles' \in Seq(Sessions) /\ Len(handles') = n /\ handles'[n] = s
        /\ \A v \in 1..Len(handles) : handles'[v] = handles[v]
    BY <2>3, <2>4, <2>6
  <2> HIDE DEF n
  <2>n. n = Len(handles) + 1 /\ Len(handles) \in Nat /\ keys' = keys \cup {k.sid}
    BY <1>2, <2>4 DEF n, k
  <2>9. GateMoves(t, "started", l)
    BY <1>2, <2>1, <2>7, JoinPoints DEF StartTransport, GateMoves, Joining, Gated
  <2>10. UNCHANGED <<stopped, control, generation, state, controlLock, shutdownGate, conns,
                     sockets, shut, voice, binding, sids, intent>>
    BY <1>2 DEF StartTransport, serverVars
  <2>11. Network'
    BY <2>10 DEF IndInv, Typed, Network
  <2>12. Voices'
    <3>1. \A v \in 1..Len(handles') : handles'[v].sid \in 1..sids'
      BY SMTT(40), <2>2, <2>3, <2>8, <2>10, <2>n DEF IndInv, Typed, Voices
    <3>2. voice' \in 0..Len(handles')
      BY <2>4, <2>8, <2>10, <2>n
    <3>k. keys' \subseteq 1..sids'
      BY <2>2, <2>10, <2>n DEF IndInv, Typed, Voices
    <3>3. QED
      BY <2>8, <2>10, <3>1, <3>2, <3>k DEF IndInv, Typed, Voices
  <2>13. /\ Slots' /\ Points' /\ Mutexes' /\ Discarded'
         /\ pc'[t] = "started" /\ loc'[t] = l
         /\ \A u \in Tasks : u # t => pc'[u] = pc[u] /\ loc'[u] = loc[u]
         /\ controlLock # Nobody => InLock(controlLock)'
         /\ shutdownGate # Nobody => InShutdown(shutdownGate)'
         /\ VoiceDown' <=> VoiceDown
         /\ \A g \in Relays : g > generation' => pc'[g] \in {"unborn", "ended"}
         /\ voiceGate' = t /\ t # Nobody /\ (shut => Gone)
    BY <2>5, <2>9, JoinPoints, GateStep DEF Joining
  <2>14. ~VoiceDown /\ ~shut
    BY <2>1, Names DEF IndInv, Down, VoiceDown
  <2>15. InGate(t)'
    <3>1. ASSUME l.created, NEW v \in 1..Len(handles'), v # n PROVE handles'[v].sid # l.sid
      <4>1. v \in 1..Len(handles) /\ v # 0
        BY <2>8, <2>n, <3>1
      <4>2. QED
        BY <2>2, <2>5, <2>8, <3>1, <4>1 DEF OfNoOther
    <3>2. n \in 1..Len(handles') /\ n # voice'
      BY <2>4, <2>8, <2>10, <2>n
    <3>3. l.sid \in 1..sids' /\ l.sid \in keys' /\ handles'[n].sid = l.sid
      BY <2>2, <2>3, <2>5, <2>8, <2>10, <2>n
    <3>4. QED
      BY <2>2, <2>5, <2>13, <3>1, <3>2, <3>3 DEF InGate, OfNoOther
  <2>16. Holders'
    BY <2>10, <2>13, <2>15 DEF Holders
  <2>17. Outside'
    <3>1. \A v \in 1..Len(handles') : handles'[v].left => ~handles'[v].running
      BY <2>3, <2>8, <2>n DEF IndInv, Outside
    <3>2. \A u \in Tasks : pc'[u] = "handleHttp" =>
            loc'[u].handle \in 1..Len(handles') /\ ~handles'[loc'[u].handle].running
      BY <2>8, <2>13, <2>n DEF IndInv, Outside
    <3>3. \A u \in Tasks : loc'[u].created => pc'[u] \in {"joined", "started", "replaced"}
      BY <2>13 DEF IndInv, Outside
    <3>4. \A u \in Tasks : pc'[u] = "shutdown" => loc'[u].conn = 0
      BY <2>13 DEF IndInv, Outside
    <3>5. QED
      BY <2>13, <3>1, <3>2, <3>3, <3>4 DEF Outside
  <2>18. Down' /\ Gone'
    BY <2>10, <2>13, <2>14 DEF Down, Gone
  <2>19. Reached'
    BY <2>1, <2>5, <2>8, <2>10, <2>13, <2>n DEF IndInv, Reached
  <2>20. QED
    BY <2>11, <2>12, <2>13, <2>16, <2>17, <2>18, <2>19 DEF IndInv, Typed
<1>3. QED
  BY <1>1, <1>2 DEF StartTransport

\* Sessions may have been halted or marked, and none was added.
Quieter ==
    /\ handles' \in Seq(Sessions) /\ Len(handles') = Len(handles)
    /\ \A w \in 1..Len(handles) : /\ handles'[w].sid = handles[w].sid
                                  /\ handles'[w].running => handles[w].running
                                  /\ handles'[w].left => ~handles'[w].running

\* Halting a session, marking a halted one, or leaving all as they are.
LEMMA Quiets ==
    ASSUME IndInv,
           \/ handles' = handles
           \/ \E v \in 1..Len(handles) : \/ handles' = Halt(v)
                                         \/ handles' = Mark(v) /\ ~handles[v].running
    PROVE  Quieter
<1>1. CASE handles' = handles
  BY <1>1 DEF Quieter, IndInv, Typed, Voices, Outside
<1>2. ASSUME NEW v \in 1..Len(handles), handles' = Halt(v) PROVE Quieter
  BY <1>2, Halting DEF Quieter, IndInv, Typed, Outside
<1>3. ASSUME NEW v \in 1..Len(handles), handles' = Mark(v), ~handles[v].running PROVE Quieter
  BY <1>3, Marking DEF Quieter, IndInv, Typed, Outside
<1>4. QED
  BY <1>1, <1>2, <1>3

\* A step under the gate that may install, halt or give up a session.
LEMMA GateQuiets ==
    ASSUME IndInv, NEW t \in Tasks, NEW p, NEW l \in Locals, GateMoves(t, p, l),
           Quieter, keys' \subseteq 1..sids, voice' \in 0..Len(handles),
           intent' \in [sid : 0..sids, channel : Channels \cup {0}],
           binding' \in {binding, NoBinding}, sids' = sids,
           pc[t] \in Gated \ {"joinControl"} \/ voice # 0, l.created => p = "replaced",
           voiceGate' # Nobody => InGate(t)', Reached'
    PROVE  IndInv'
<1>1. /\ Slots' /\ Points' /\ Mutexes' /\ Discarded'
      /\ pc'[t] = p /\ loc'[t] = l
      /\ \A u \in Tasks : u # t => pc'[u] = pc[u] /\ loc'[u] = loc[u]
      /\ controlLock # Nobody => InLock(controlLock)'
      /\ shutdownGate # Nobody => InShutdown(shutdownGate)'
      /\ VoiceDown' <=> VoiceDown
      /\ \A g \in Relays : g > generation' => pc'[g] \in {"unborn", "ended"}
      /\ p \in Gated => voiceGate' = t
      /\ p \notin Gated => voiceGate' = Nobody
  BY GateStep
<1>2. /\ UNCHANGED <<stopped, control, generation, state, controlLock, shutdownGate,
                     conns, sockets, shut>>
      /\ p \in Gated \cup {"idle", "recv"}
  BY DEF GateMoves, Home
<1>3. ~VoiceDown /\ ~shut
  BY Names DEF IndInv, Down, VoiceDown, Mutexes
<1>4. Network'
  BY <1>2 DEF IndInv, Typed, Network, NoBinding
<1>5. Voices'
  <2>1. binding'.sid <= sids /\ (binding'.id # 0 => binding'.sid # 0)
    BY DEF IndInv, Typed, Voices, NoBinding
  <2>2. QED
    BY <2>1 DEF IndInv, Typed, Voices, Quieter
<1>6. Holders'
  BY <1>1, <1>2 DEF Holders
<1>7. Outside'
  <2>1. \A w \in 1..Len(handles') : handles'[w].left => ~handles'[w].running
    BY DEF Quieter
  <2>2. \A u \in Tasks : pc'[u] = "handleHttp" =>
          loc'[u].handle \in 1..Len(handles') /\ ~handles'[loc'[u].handle].running
    BY <1>1, <1>2 DEF IndInv, Outside, Quieter, Gated, Joining
  <2>3. \A u \in Tasks : /\ loc'[u].created => pc'[u] \in {"joined", "started", "replaced"}
                         /\ pc'[u] = "shutdown" => loc'[u].conn = 0
    BY <1>1, <1>2 DEF IndInv, Outside, Gated, Joining
  <2>4. QED
    BY <1>1, <2>1, <2>2, <2>3 DEF Outside
<1>8. Down' /\ Gone'
  BY <1>1, <1>2, <1>3 DEF Down, Gone
<1>9. QED
  BY <1>1, <1>4, <1>5, <1>6, <1>7, <1>8 DEF IndInv, Typed

\* A join gives its own session up: the first heartbeat failed, or the world it
\* started in is gone.
LEMMA GivesUp ==
    ASSUME IndInv, NEW t \in Tasks, pc[t] = "started", JoinFails(t),
           handles' = Halt(loc[t].handle), keys' = keys \ {loc[t].sid},
           UNCHANGED <<stopped, control, generation, state, voice, controlLock,
                       shutdownGate, conns, sockets, serverVars, shut>>
    PROVE  IndInv'
<1> DEFINE v == loc[t].handle
<1>1. /\ GateMoves(t, Home(t), NoLocals) /\ Home(t) \notin Gated
      /\ voiceGate = t /\ voiceGate' = Nobody /\ intent' \in {intent, NoIntent}
  BY Fails DEF Joining
<1>2. v \in 1..Len(handles)
  BY <1>1, Names DEF IndInv, Holders, InGate
<1>3. Quieter
  BY <1>2, Quiets
<1>4. /\ keys' \subseteq 1..sids /\ voice' \in 0..Len(handles)
      /\ intent' \in [sid : 0..sids, channel : Channels \cup {0}]
      /\ binding' = binding /\ sids' = sids
  <2>1. intent' \in [sid : 0..sids, channel : Channels \cup {0}]
    BY <1>1 DEF IndInv, Typed, Voices, NoIntent
  <2>2. QED
    BY <2>1 DEF IndInv, Typed, Voices, serverVars
<1>5. Reached'
  <2>1. /\ Len(handles') = Len(handles) /\ handles'[v].running = FALSE
        /\ \A w \in 1..Len(handles) : w # v => handles'[w].running = handles[w].running
    BY <1>2, Halting DEF IndInv, Typed
  <2>2. \A w \in 1..Len(handles) : handles[w].running => voice = w \/ v = w
    BY <1>1 DEF IndInv, Reached
  <2>3. QED
    BY <2>1, <2>2 DEF Reached
<1>6. pc[t] \in Gated \ {"joinControl"}
  BY DEF Gated, Joining
<1>7. QED
  BY <1>1, <1>3, <1>4, <1>5, <1>6, Empty, GateQuiets

LEMMA StartFailsKeeps ==
    ASSUME IndInv, NEW t \in Tasks, StartFails(t)
    PROVE  IndInv'
BY GivesUp DEF StartFails, connVars, history

\* The session is installed; the previous one is still to be closed.
LEMMA JoinInstalledKeeps ==
    ASSUME IndInv, NEW t \in Tasks, JoinInstalled(t)
    PROVE  IndInv'
<1> USE DEF connVars, history
<1> DEFINE k == loc[t]
           l == [k EXCEPT !.conn = voice]
<1>1. CASE JoinStale(t)
  BY <1>1, GivesUp DEF JoinInstalled
<1>2. CASE ~JoinStale(t)
  <2>1. k \in Locals /\ pc[t] = "started" /\ voiceGate = t /\ t # Nobody
    BY Names DEF JoinInstalled, IndInv, Typed, Points, Mutexes, Gated, Joining
  <2>2. InGate(t)
    BY <2>1 DEF IndInv, Holders
  <2>3. /\ k.sid \in 1..sids /\ k.handle \in 1..Len(handles) /\ handles[k.handle].sid = k.sid
        /\ k.saved = ~k.created /\ k.handle # voice
        /\ k.created => /\ OfNoOther(k.sid, k.handle)
                        /\ handles[k.handle].running => k.sid \in keys
    BY <2>1, <2>2 DEF InGate
  <2>4. voice \in 0..Len(handles) /\ voice \in Nat
    BY DEF IndInv, Typed, Voices
  <2>5. /\ l \in Locals /\ l.conn = voice /\ l.sid = k.sid /\ l.handle = k.handle
        /\ l.created = k.created /\ l.saved = k.saved
    BY <2>1, <2>4 DEF Locals
  <2>6. voice' = k.handle /\ Moves(t, "replaced", l) /\ UNCHANGED <<handles, keys, voiceGate, intent>>
    BY <1>2 DEF JoinInstalled, Goto, Moves
  <2>7. UNCHANGED <<stopped, control, generation, state, controlLock, shutdownGate, conns,
                    sockets, shut, binding, sids>>
    BY DEF JoinInstalled, serverVars
  <2> HIDE DEF l, k
  <2>8. GateMoves(t, "replaced", l)
    BY <2>1, <2>6, <2>7, JoinPoints DEF GateMoves, Joining, Gated
  <2>9. pc'[t] = "replaced" /\ loc'[t] = l /\ voiceGate' = t
    BY <2>5, <2>6, <2>1, <2>8, GateStep
  <2>10. Quieter
    BY <2>6, Quiets
  <2>11. /\ keys' \subseteq 1..sids /\ voice' \in 0..Len(handles)
         /\ intent' \in [sid : 0..sids, channel : Channels \cup {0}]
    BY <2>3, <2>6 DEF IndInv, Typed, Voices
  <2>12. InGate(t)'
    <3>1. l.created => \A v \in 1..Len(handles') : v # l.handle => handles'[v].sid # l.sid
      BY <2>3, <2>5, <2>6 DEF OfNoOther
    <3>2. l.created /\ handles'[l.handle].running => l.sid \in keys'
      BY <2>3, <2>5, <2>6
    <3>3. /\ l.sid \in 1..sids' /\ l.handle \in 1..Len(handles') /\ handles'[l.handle].sid = l.sid
          /\ voice' = l.handle /\ l.conn \in 0..Len(handles') /\ l.conn # l.handle
      BY <2>3, <2>4, <2>5, <2>6, <2>7
    <3>4. l.saved = ~l.created
      BY <2>3, <2>5
    <3>5. QED
      BY <2>9, <3>1, <3>2, <3>3, <3>4 DEF InGate, OfNoOther
  <2>13. Reached'
    <3>1. \A w \in 1..Len(handles) : handles[w].running => voice = w \/ k.handle = w
      BY <2>1 DEF IndInv, Reached, k
    <3>2. QED
      BY <2>1, <2>5, <2>6, <2>9, <3>1 DEF Reached
  <2>14. pc[t] \in Gated \ {"joinControl"}
    BY <2>1 DEF Gated, Joining
  <2>15. QED
    BY <2>5, <2>7, <2>8, <2>10, <2>11, <2>12, <2>13, <2>14, GateQuiets
<1>3. QED
  BY <1>1, <1>2

\* The previous session is closed, the key put back and the gate released.
LEMMA JoinFinishedKeeps ==
    ASSUME IndInv, NEW t \in Tasks, JoinFinished(t)
    PROVE  IndInv'
<1> USE DEF connVars, history
<1> DEFINE k == loc[t]
<1>1. k \in Locals /\ pc[t] = "replaced" /\ voiceGate = t /\ t # Nobody
  BY Names DEF JoinFinished, IndInv, Typed, Points, Mutexes, Gated, Joining
<1>2. k.sid \in 1..sids /\ voice = k.handle /\ k.conn \in 0..Len(handles) /\ k.conn # k.handle
  BY <1>1 DEF IndInv, Holders, InGate
<1>3. UNCHANGED <<stopped, control, generation, state, voice, controlLock, shutdownGate, conns,
                  sockets, shut, binding, sids>>
  BY DEF JoinFinished, serverVars
<1>4. Moves(t, Home(t), NoLocals) /\ voiceGate' = Nobody
  BY DEF JoinFinished, Return, Goto, Moves, Home
<1>5. Home(t) \notin Gated /\ (t \in Hosts => Home(t) \in HostPoints)
      /\ (t \in Relays => Home(t) \in RelayPoints)
  BY Names DEF Home, Gated, Joining, HostPoints, RelayPoints
<1>6. GateMoves(t, Home(t), NoLocals)
  BY <1>1, <1>3, <1>4, <1>5 DEF GateMoves, Gated, Joining
<1>7. intent' \in [sid : 0..sids, channel : Channels \cup {0}]
  <2>1. intent' \in {[sid |-> k.sid, channel |-> k.channel], NoIntent}
    BY DEF JoinFinished
  <2>2. k.channel \in Channels \cup {0} /\ k.sid \in 0..sids /\ 0 \in 0..sids
    BY <1>1, <1>2 DEF Locals, IndInv, Typed, Voices
  <2>3. QED
    BY <2>1, <2>2 DEF NoIntent
<1>8. keys' \subseteq 1..sids /\ voice' \in 0..Len(handles)
  BY <1>2, <1>3 DEF JoinFinished, IndInv, Typed, Voices
<1>9. \A w \in 1..Len(handles) : handles[w].running => voice = w \/ k.conn = w
  BY <1>1 DEF IndInv, Reached
<1>10. Quieter /\ Reached'
  <2>1. CASE k.conn = 0
    <3>1. handles' = handles
      BY <2>1 DEF JoinFinished
    <3>2. QED
      BY <1>3, <1>9, <2>1, <3>1, Quiets DEF Reached
  <2>2. CASE k.conn # 0
    <3>1. handles' = Halt(k.conn) /\ k.conn \in 1..Len(handles)
      BY <1>2, <2>2 DEF JoinFinished, IndInv, Typed, Voices
    <3>2. /\ Len(handles') = Len(handles) /\ handles'[k.conn].running = FALSE
          /\ \A w \in 1..Len(handles) : w # k.conn => handles'[w].running = handles[w].running
      BY <3>1, Halting DEF IndInv, Typed
    <3>3. Reached'
      BY <1>3, <1>9, <3>2 DEF Reached
    <3>4. QED
      BY <3>1, <3>3, Quiets
  <2>3. QED
    BY <2>1, <2>2
<1>11. pc[t] \in Gated \ {"joinControl"}
  BY <1>1 DEF Gated, Joining
<1>12. QED
  BY <1>3, <1>4, <1>6, <1>7, <1>8, <1>10, <1>11, Empty, GateQuiets


------------------------------------------------------------------------------
(***************************************************************************)
(* Steps under the voice gate: leave_voice.                                *)
(***************************************************************************)

\* The installed session is taken out of its slot; without one there is nothing
\* to leave.
LEMMA LeaveGatedKeeps ==
    ASSUME IndInv, NEW h \in Hosts, LeaveGated(h)
    PROVE  IndInv'
<1> USE DEF connVars, serverVars
<1> DEFINE l == [loc[h] EXCEPT !.handle = voice]
<1>1. /\ h \in Tasks /\ h \notin Relays /\ loc[h] \in Locals /\ pc[h] = "leaveGate"
      /\ voiceGate = Nobody /\ h # Nobody /\ ~loc[h].created
  BY Names DEF LeaveGated, IndInv, Typed, Points, Outside
<1>2. UNCHANGED <<stopped, control, generation, state, intent, keys, controlLock, shutdownGate,
                  conns, sockets, handles, binding, sids, shut>>
  BY DEF LeaveGated
<1>3. CASE voice = 0
  <2>1. Moves(h, "idle", NoLocals) /\ UNCHANGED <<voice, voiceGate>>
    BY <1>3 DEF LeaveGated, Return, Goto, Moves
  <2>2. QED
    BY <1>1, <1>2, <2>1, Empty, OpenStep DEF Open, HostPoints, Rest
<1>4. CASE voice # 0
  <2>1. voice \in 1..Len(handles) /\ voice \in Nat
    BY <1>4 DEF IndInv, Typed, Voices
  <2>2. l \in Locals /\ l.handle = voice /\ ~l.created
    BY <1>1, <2>1 DEF Locals
  <2>3. Moves(h, "leave", l) /\ voice' = 0 /\ voiceGate' = h
    BY <1>4 DEF LeaveGated, Goto, Moves
  <2> HIDE DEF l
  <2>4. GateMoves(h, "leave", l)
    BY <1>1, <1>2, <2>3 DEF GateMoves, HostPoints, Gated
  <2>5. pc'[h] = "leave" /\ loc'[h] = l
    BY <1>1, <2>2, <2>4, GateStep
  <2>6. Quieter
    BY <1>2, Quiets
  <2>7. InGate(h)'
    BY <1>2, <2>1, <2>2, <2>3, <2>5 DEF InGate
  <2>8. Reached'
    BY <1>1, <1>2, <2>2, <2>3, <2>5 DEF IndInv, Reached
  <2>9. /\ keys' \subseteq 1..sids /\ voice' \in 0..Len(handles)
        /\ intent' \in [sid : 0..sids, channel : Channels \cup {0}]
    BY <1>2, <2>3 DEF IndInv, Typed, Voices
  <2>10. QED
    BY <1>1, <1>2, <1>4, <2>2, <2>4, <2>6, <2>7, <2>8, <2>9, GateQuiets
<1>5. QED
  BY <1>3, <1>4

\* A leave ends, with nothing running: the handle is put back, or it is gone.
LEMMA LeaveEnds ==
    ASSUME IndInv, NEW h \in Hosts, pc[h] \in {"leave", "leaveHttp"},
           LeaveSucceeds(h) \/ LeaveFails(h), Quieter, keys' \subseteq keys,
           \A w \in 1..Len(handles) : ~handles'[w].running,
           intent' \in {intent, NoIntent}, binding' \in {binding, NoBinding}, sids' = sids,
           UNCHANGED <<stopped, control, generation, state, controlLock, shutdownGate,
                       conns, sockets, shut>>
    PROVE  IndInv'
<1>1. h \in Tasks /\ h \notin Relays /\ h # Nobody /\ voiceGate = h
  BY Names DEF IndInv, Mutexes, Gated
<1>2. loc[h].handle \in 1..Len(handles)
  BY <1>1 DEF IndInv, Holders, InGate
<1>3. Moves(h, Home(h), NoLocals) /\ voiceGate' = Nobody
  BY DEF LeaveSucceeds, LeaveFails, Return, Goto, Moves, Home
<1>4. Home(h) = "idle"
  BY DEF Home
<1>5. GateMoves(h, "idle", NoLocals)
  BY <1>1, <1>3, <1>4 DEF GateMoves, HostPoints, Gated, Joining
<1>6. voice' \in 0..Len(handles)
  BY <1>2 DEF LeaveSucceeds, LeaveFails, IndInv, Typed, Voices
<1>7. keys' \subseteq 1..sids /\ intent' \in [sid : 0..sids, channel : Channels \cup {0}]
  BY DEF IndInv, Typed, Voices, NoIntent
<1>8. Reached' /\ pc[h] \in Gated \ {"joinControl"}
  BY DEF Reached, Quieter, Gated
<1>9. QED
  BY <1>1, <1>3, <1>5, <1>6, <1>7, <1>8, Empty, GateQuiets

\* UDP is stopped and the request to the server prepared.
LEMMA LeaveClosedKeeps ==
    ASSUME IndInv, NEW h \in Hosts, LeaveClosed(h)
    PROVE  IndInv'
<1> USE DEF connVars, serverVars
<1> DEFINE v == loc[h].handle
           id == conns[handles[v].conn].id
           l == [loc[h] EXCEPT !.id = id]
<1>1. /\ h \in Tasks /\ h \notin Relays /\ h # Nobody /\ voiceGate = h /\ pc[h] = "leave"
      /\ loc[h] \in Locals /\ ~loc[h].created
  BY Names DEF LeaveClosed, IndInv, Typed, Points, Mutexes, Outside, Gated
<1>2. v \in 1..Len(handles) /\ voice = 0
  BY <1>1 DEF IndInv, Holders, InGate
<1>3. \A w \in 1..Len(handles) : handles[w].running => w = v
  BY <1>1, <1>2 DEF IndInv, Reached
<1>4. /\ UNCHANGED <<stopped, control, generation, state, controlLock, shutdownGate, conns,
                     sockets, binding, sids, shut>>
      /\ intent' \in {intent, NoIntent}
  BY DEF LeaveClosed, ClearOwnIntent
<1>5. CASE handles[v].left
  <2>1. LeaveSucceeds(h) /\ UNCHANGED <<handles, keys>>
    BY <1>5 DEF LeaveClosed
  <2>2. \A w \in 1..Len(handles) : ~handles'[w].running
    BY <1>2, <1>3, <1>5, <2>1 DEF IndInv, Outside
  <2>3. QED
    BY <1>1, <1>4, <2>1, <2>2, Quiets, LeaveEnds
<1>6. CASE ~handles[v].left
  <2>1. handles' = Halt(v) /\ keys' = keys \ {handles[v].sid}
    BY <1>6 DEF LeaveClosed
  <2>2. Quieter
    BY <1>2, <2>1, Quiets
  <2>3. /\ Len(handles') = Len(handles)
        /\ \A w \in 1..Len(handles) : ~handles'[w].running
    <3>1. /\ Len(handles') = Len(handles) /\ handles'[v].running = FALSE
          /\ \A w \in 1..Len(handles) : w # v => handles'[w].running = handles[w].running
      BY <1>2, <2>1, Halting DEF IndInv, Typed
    <3>2. QED
      BY <1>3, <3>1
  <2>4. CASE id = 0
    <3>1. LeaveFails(h)
      BY <1>6, <2>4 DEF LeaveClosed
    <3>2. QED
      BY <1>1, <1>4, <2>1, <2>2, <2>3, <3>1, LeaveEnds
  <2>5. CASE id # 0
    <3>1. Moves(h, "leaveHttp", l) /\ UNCHANGED <<voice, voiceGate>>
      BY <1>6, <2>5 DEF LeaveClosed, Goto, Moves
    <3>2. id \in Nat
      <4>1. handles[v] \in Sessions
        BY <1>2 DEF IndInv, Typed, Voices
      <4>2. conns[handles[v].conn] \in Conns
        BY <4>1 DEF Sessions, IndInv, Typed, Network
      <4>3. QED
        BY <4>2 DEF Conns
    <3>3. l \in Locals /\ l.handle = v /\ ~l.created
      BY <1>1, <3>2 DEF Locals
    <3> HIDE DEF l
    <3>4. GateMoves(h, "leaveHttp", l)
      BY <1>1, <1>4, <3>1 DEF GateMoves, HostPoints, Gated
    <3>5. pc'[h] = "leaveHttp" /\ loc'[h] = l
      BY <1>1, <3>3, <3>4, GateStep
    <3>6. InGate(h)'
      BY <1>2, <2>3, <3>1, <3>3, <3>5 DEF InGate
    <3>7. Reached' /\ pc[h] \in Gated \ {"joinControl"}
      BY <1>1, <2>3 DEF Reached, Gated
    <3>8. /\ keys' \subseteq 1..sids /\ voice' \in 0..Len(handles)
          /\ intent' \in [sid : 0..sids, channel : Channels \cup {0}]
      <4>1. intent' \in [sid : 0..sids, channel : Channels \cup {0}]
        BY <1>4 DEF IndInv, Typed, Voices, NoIntent
      <4>2. QED
        BY <2>1, <3>1, <4>1 DEF IndInv, Typed, Voices
    <3>9. QED
      BY <1>1, <1>4, <2>2, <3>3, <3>4, <3>6, <3>7, <3>8, GateQuiets
  <2>6. QED
    BY <2>4, <2>5
<1>7. QED
  BY <1>5, <1>6

\* The server has answered, or its answer is lost.
LEMMA LeaveAnsweredKeeps ==
    ASSUME IndInv, NEW h \in Hosts, LeaveAnswered(h)
    PROVE  IndInv'
<1> USE DEF connVars
<1> DEFINE v == loc[h].handle
<1>1. h \in Tasks /\ h # Nobody /\ voiceGate = h /\ pc[h] = "leaveHttp"
  BY Names DEF LeaveAnswered, IndInv, Mutexes, Gated
<1>2. v \in 1..Len(handles) /\ voice = 0 /\ ~handles[v].running
  BY <1>1 DEF IndInv, Holders, InGate
<1>3. \A w \in 1..Len(handles) : ~handles[w].running
  BY <1>1, <1>2 DEF IndInv, Reached
<1>4. /\ UNCHANGED <<stopped, control, generation, state, controlLock, shutdownGate, conns,
                     sockets, sids, shut, intent, keys>>
      /\ binding' \in {binding, NoBinding} /\ handles' \in {handles, Mark(v)}
      /\ LeaveSucceeds(h) \/ LeaveFails(h)
  BY DEF LeaveAnswered, Unbind, Mark
<1>5. Quieter
  BY <1>2, <1>4, Quiets
<1>6. \A w \in 1..Len(handles) : ~handles'[w].running
  BY <1>3, <1>5 DEF Quieter
<1>7. QED
  BY <1>1, <1>4, <1>5, <1>6, LeaveEnds


------------------------------------------------------------------------------
(***************************************************************************)
(* The installed session is stopped by a relay or by shutdown.             *)
(***************************************************************************)

\* Whoever finds the gate free and stops the installed session silences all.
LEMMA AllSilent ==
    ASSUME IndInv, voiceGate = Nobody,
           \/ voice = 0 /\ UNCHANGED <<voice, handles, keys>>
           \/ /\ voice # 0 /\ voice' = 0 /\ handles' = Halt(voice)
              /\ keys' = keys \ {handles[voice].sid},
           UNCHANGED <<intent, binding, sids, conns, sockets>>
    PROVE  /\ Network' /\ Voices' /\ Quieter /\ voice' = 0
           /\ \A w \in 1..Len(handles) : ~handles'[w].running
<1>1. \A w \in 1..Len(handles) : handles[w].running => voice = w
  BY DEF IndInv, Reached
<1>2. Network'
  BY DEF IndInv, Typed, Network
<1>3. CASE voice = 0 /\ UNCHANGED <<voice, handles, keys>>
  <2>1. Voices' /\ Quieter
    BY <1>3, Quiets DEF IndInv, Typed, Voices
  <2>2. QED
    BY <1>1, <1>2, <1>3, <2>1
<1>4. CASE /\ voice # 0 /\ voice' = 0 /\ handles' = Halt(voice)
           /\ keys' = keys \ {handles[voice].sid}
  <2>1. voice \in 1..Len(handles)
    BY <1>4 DEF IndInv, Typed, Voices
  <2>2. /\ handles' \in Seq(Sessions) /\ Len(handles') = Len(handles)
        /\ \A w \in 1..Len(handles) :
             /\ handles'[w].sid = handles[w].sid
             /\ w # voice => handles'[w].running = handles[w].running
        /\ handles'[voice].running = FALSE
    BY <1>4, <2>1, Halting DEF IndInv, Typed
  <2>3. Quieter
    BY <1>4, <2>1, Quiets
  <2>4. Voices'
    <3>0. keys' \subseteq 1..sids
      BY <1>4 DEF IndInv, Typed, Voices
    <3>1. voice' \in 0..Len(handles')
      BY <1>4, <2>2
    <3>2. \A w \in 1..Len(handles') : handles'[w].sid \in 1..sids
      BY <2>2 DEF IndInv, Typed, Voices
    <3>3. QED
      BY <2>2, <3>0, <3>1, <3>2 DEF IndInv, Typed, Voices
  <2>5. QED
    BY <1>1, <1>2, <1>4, <2>2, <2>3, <2>4
<1>5. QED
  BY <1>3, <1>4

\* What a task that only waits for an answer about its handle knows of it.
LEMMA OutsideKept ==
    ASSUME IndInv, Quieter, Points', UNCHANGED generation,
           \A u \in Tasks :
             /\ \/ pc'[u] = pc[u] /\ loc'[u] = loc[u]
                \/ pc'[u] # "handleHttp" /\ pc'[u] # "shutdown" /\ ~loc'[u].created
             /\ u \in Relays /\ pc[u] \in {"unborn", "ended"} => pc'[u] = pc[u]
    PROVE  Outside'
<1>1. \A w \in 1..Len(handles') : handles'[w].left => ~handles'[w].running
  BY DEF Quieter
<1>2. \A u \in Tasks : pc'[u] = "handleHttp" =>
        loc'[u].handle \in 1..Len(handles') /\ ~handles'[loc'[u].handle].running
  BY DEF IndInv, Outside, Quieter
<1>3. \A u \in Tasks : /\ loc'[u].created => pc'[u] \in {"joined", "started", "replaced"}
                       /\ pc'[u] = "shutdown" => loc'[u].conn = 0
  BY DEF IndInv, Outside
<1>4. \A g \in Relays : g > generation' => pc'[g] \in {"unborn", "ended"}
  BY Names DEF IndInv, Outside
<1>5. QED
  BY <1>1, <1>2, <1>3, <1>4 DEF Outside

\* The relay stops the session of its generation.
LEMMA RelayStopsKeeps ==
    ASSUME IndInv, NEW g \in Relays, RelayStops(g)
    PROVE  IndInv'
<1> USE DEF connVars, serverVars, history
<1>1. /\ g \in Tasks /\ g \notin Hosts /\ loc[g] \in Locals /\ pc[g] = "stopVoice"
      /\ voiceGate = Nobody /\ ~loc[g].created /\ Moves(g, "recv", loc[g])
  BY Names DEF RelayStops, Goto, Moves, IndInv, Typed, Points, Outside
<1>2. UNCHANGED <<stopped, control, generation, state, intent, voiceGate, controlLock,
                  shutdownGate, conns, sockets, binding, sids, shut>>
  BY DEF RelayStops
<1>3. CASE ~StopVoice(g)
  <2>1. UNCHANGED Rest
    BY <1>2, <1>3 DEF RelayStops, Rest
  <2>2. QED
    BY <1>1, <1>2, <2>1, OpenStep DEF Open, RelayPoints
<1>4. CASE StopVoice(g)
  <2>1. /\ Network' /\ Voices' /\ Quieter /\ voice' = 0
        /\ \A w \in 1..Len(handles) : ~handles'[w].running
    BY <1>1, <1>2, <1>4, AllSilent DEF RelayStops, StopVoice
  <2>2. /\ Points' /\ pc'[g] = "recv" /\ loc'[g] = loc[g]
        /\ \A u \in Tasks : u # g => pc'[u] = pc[u] /\ loc'[u] = loc[u]
    BY <1>1, OneMoves DEF IndInv, Typed, RelayPoints
  <2>3. Slots' /\ ~shut
    BY <1>1, <1>2 DEF IndInv, Typed, Slots, Gone
  <2>4. Mutexes' /\ controlLock # g /\ shutdownGate # g
    <3>1. /\ pc[g] \notin Gated \cup Stopping /\ pc'[g] \notin Gated \cup Stopping
          /\ ~Locking(g) /\ ~Locking(g)'
      BY <1>1, <2>2 DEF Locking, Gated, Joining, Stopping
    <3>2. \A u \in Tasks : u # g => Locking(u)' = Locking(u)
      BY <2>2 DEF Locking
    <3>3. QED
      BY <1>1, <1>2, <2>2, <3>1, <3>2 DEF IndInv, Mutexes
  <2>5. /\ controlLock # Nobody => pc'[controlLock] = pc[controlLock]
        /\ shutdownGate # Nobody => /\ pc'[shutdownGate] = pc[shutdownGate]
                                    /\ loc'[shutdownGate] = loc[shutdownGate]
    BY <2>2, <2>4, Names DEF IndInv, Typed, Slots
  <2>6. Holders' /\ Discarded'
    BY <1>1, <1>2, <2>5 DEF IndInv, Holders, InLock, InShutdown, Discarded
  <2>7. Outside'
    BY <1>1, <1>2, <2>1, <2>2, OutsideKept
  <2>8. Down' /\ Reached' /\ Gone'
    BY <1>1, <1>2, <2>1, <2>3 DEF Down, VoiceDown, Reached, Gone, Quieter
  <2>9. QED
    BY <2>1, <2>2, <2>3, <2>4, <2>6, <2>7, <2>8 DEF IndInv, Typed
<1>5. QED
  BY <1>3, <1>4

\* Shutdown stops it, and from here on voice is down.
LEMMA ShutdownVoiceKeeps ==
    ASSUME IndInv, NEW h \in Hosts, ShutdownVoice(h)
    PROVE  IndInv'
<1> USE DEF connVars, serverVars, history
<1>1. /\ h \in Tasks /\ h \notin Relays /\ loc[h] \in Locals /\ pc[h] = "shutVoice"
      /\ voiceGate = Nobody /\ ~loc[h].created /\ Moves(h, "shutControl", loc[h])
      /\ shutdownGate = h /\ h # Nobody
  BY Names DEF ShutdownVoice, Goto, Moves, IndInv, Typed, Points, Outside, Mutexes, Stopping
<1>2. UNCHANGED <<stopped, control, generation, state, intent, voiceGate, controlLock,
                  shutdownGate, conns, sockets, binding, sids, shut>>
  BY DEF ShutdownVoice
<1>3. /\ Network' /\ Voices' /\ Quieter /\ voice' = 0
      /\ \A w \in 1..Len(handles) : ~handles'[w].running
  BY <1>1, <1>2, AllSilent DEF ShutdownVoice
<1>4. /\ Points' /\ pc'[h] = "shutControl" /\ loc'[h] = loc[h]
      /\ \A u \in Tasks : u # h => pc'[u] = pc[u] /\ loc'[u] = loc[u]
  BY <1>1, OneMoves DEF IndInv, Typed, HostPoints, Stopping
<1>5. Slots' /\ ~shut
  BY <1>1, <1>2 DEF IndInv, Typed, Slots, Gone
<1>6. Mutexes' /\ controlLock # h
  BY <1>1, <1>2, <1>4, Names DEF IndInv, Mutexes, Locking, Gated, Joining, Stopping
<1>7. controlLock # Nobody => pc'[controlLock] = pc[controlLock]
  BY <1>4, <1>6, Names DEF IndInv, Typed, Slots
<1>8. InShutdown(h) /\ loc[h].conn = 0
  BY <1>1 DEF IndInv, Holders, InShutdown
<1>9. Holders' /\ Discarded'
  BY <1>1, <1>2, <1>4, <1>7, <1>8 DEF IndInv, Holders, InLock, InShutdown, Discarded
<1>10. Outside'
  BY <1>1, <1>2, <1>3, <1>4, OutsideKept
<1>11. Down' /\ Reached' /\ Gone'
  BY <1>1, <1>2, <1>3, <1>5 DEF Down, VoiceDown, Reached, Gone, Quieter
<1>12. QED
  BY <1>3, <1>4, <1>5, <1>6, <1>9, <1>10, <1>11 DEF IndInv, Typed

------------------------------------------------------------------------------
(***************************************************************************)
(* A close that hangs.                                                     *)
(***************************************************************************)

\* The locals of a task that hangs in the close of handle v.
LEMMA HungLocals ==
    ASSUME IndInv, NEW v \in 1..Len(handles)
    PROVE  /\ [NoLocals EXCEPT !.handle = v] \in Locals
           /\ ~[NoLocals EXCEPT !.handle = v].created
           /\ [NoLocals EXCEPT !.handle = v].conn = 0
<1>1. v \in Nat
  BY DEF IndInv, Typed, Voices
<1>2. QED
  BY <1>1 DEF NoLocals, Locals

\* Inside the gate: the gate is kept, the session has ended by itself.
LEMMA GateHangsKeeps ==
    ASSUME IndInv, NEW t \in Tasks, GateHangs(t)
    PROVE  IndInv'
<1> USE DEF connVars, serverVars, history
<1>1. PICK v \in DOMAIN handles : /\ Closes(t, v) /\ Hangs(t, v, "hungGate")
                                  /\ intent' \in {intent, NoIntent}
  BY DEF GateHangs, ClearOwnIntent
<1>2. v \in 1..Len(handles) /\ DOMAIN handles = 1..Len(handles)
  BY DEF IndInv, Typed, Voices
<1> DEFINE l == [NoLocals EXCEPT !.handle = v]
<1>3. l \in Locals /\ ~l.created
  BY <1>2, HungLocals
<1>4. /\ pc[t] \in {"started", "replaced", "leave"} /\ Moves(t, "hungGate", l)
      /\ handles' = Halt(v) /\ keys' = keys \ {handles[v].sid}
  BY <1>1 DEF Closes, Hangs, Goto, Moves
<1> HIDE DEF l
<1>5. voiceGate = t /\ t # Nobody
  BY <1>4, Names DEF IndInv, Mutexes, Gated, Joining
<1>6. UNCHANGED <<stopped, control, generation, state, voice, voiceGate, controlLock,
                  shutdownGate, conns, sockets, binding, sids, shut>>
  BY DEF GateHangs
<1>7. GateMoves(t, "hungGate", l)
  BY <1>4, <1>5, <1>6 DEF GateMoves, Gated, Joining, HostPoints, RelayPoints
<1>8. Quieter
  BY <1>2, <1>4, Quiets
<1>9. /\ keys' \subseteq 1..sids /\ voice' \in 0..Len(handles)
      /\ intent' \in [sid : 0..sids, channel : Channels \cup {0}]
  <2>1. NoIntent \in [sid : 0..sids, channel : Channels \cup {0}]
    BY DEF IndInv, Typed, Voices, NoIntent
  <2>2. intent \in [sid : 0..sids, channel : Channels \cup {0}] /\ keys \subseteq 1..sids
    BY DEF IndInv, Typed, Voices
  <2>3. voice' \in 0..Len(handles)
    BY <1>6 DEF IndInv, Typed, Voices
  <2>4. QED
    BY <1>1, <1>4, <2>1, <2>2, <2>3
<1>10. InGate(t)'
  BY <1>3, <1>7, GateStep DEF InGate
<1>11. \A w \in 1..Len(handles) : handles[w].running /\ w # v => voice = w
  BY <1>1, <1>5 DEF IndInv, Reached, Closes
<1>12. Reached'
  BY <1>2, <1>4, <1>6, <1>11, Halting DEF IndInv, Typed, Reached
<1>13. QED
  BY <1>3, <1>4, <1>6, <1>7, <1>8, <1>9, <1>10, <1>12, GateQuiets DEF Gated, Joining

\* In a relay or a shutdown: the gate and the session have been taken.
LEMMA StopHangsKeeps ==
    ASSUME IndInv, NEW t \in Tasks, StopHangs(t)
    PROVE  IndInv'
<1> USE DEF connVars, serverVars, history
<1> DEFINE q == IF t \in Hosts THEN "hungShut" ELSE "hungGate"
           l == [NoLocals EXCEPT !.handle = voice]
<1>1. /\ voiceGate = Nobody /\ voiceGate' = t /\ voice # 0 /\ voice' = 0
      /\ pc[t] = IF t \in Hosts THEN "shutVoice" ELSE "stopVoice"
      /\ t # Nobody
  <2>1. pc[t] \in {"stopVoice", "shutVoice"} /\ voice # 0
    BY DEF StopHangs, Stopped, StopVoice
  <2>2. pc[t] = IF t \in Hosts THEN "shutVoice" ELSE "stopVoice"
    BY <2>1, Names DEF IndInv, Typed, Points, HostPoints, RelayPoints, Gated, Joining, Stopping
  <2>3. QED
    BY <2>1, <2>2, Names DEF StopHangs
<1>2. voice \in 1..Len(handles)
  BY <1>1 DEF IndInv, Typed, Voices
<1>3. l \in Locals /\ ~l.created /\ l.conn = 0
  BY <1>2, HungLocals
<1>4. /\ Moves(t, q, l) /\ handles' = Halt(voice) /\ keys' = keys \ {handles[voice].sid}
  BY DEF StopHangs, Hangs, Goto, Moves
<1>5. UNCHANGED <<stopped, control, generation, state, intent, controlLock,
                  shutdownGate, conns, sockets, binding, sids, shut>>
  BY DEF StopHangs
<1>6. /\ Network' /\ Voices' /\ Quieter /\ voice' = 0
      /\ \A w \in 1..Len(handles) : ~handles'[w].running
  BY <1>1, <1>4, <1>5, AllSilent
<1>7. /\ q \in {"hungShut", "hungGate"} /\ (t \in Hosts <=> q = "hungShut")
      /\ (t \in Hosts => q \in HostPoints) /\ (t \in Relays => q \in RelayPoints)
  BY Names DEF HostPoints, RelayPoints, Stopping
<1> HIDE DEF q, l
<1>8. /\ Points' /\ pc'[t] = q /\ loc'[t] = l
      /\ \A u \in Tasks : u # t => pc'[u] = pc[u] /\ loc'[u] = loc[u]
  BY <1>3, <1>4, <1>7, OneMoves DEF IndInv, Typed
<1>9. Slots' /\ ~shut
  <2>1. ~shut
    BY <1>1, Names DEF IndInv, Gone, Mutexes, Stopping
  <2>2. Slots'
    BY <1>1, <1>5 DEF IndInv, Typed, Slots
  <2>3. QED
    BY <2>1, <2>2
<1>10. Mutexes' /\ controlLock # t
  <2>1. \A u \in Tasks : pc'[u] \in Gated \cup {"hungShut"} <=> voiceGate' = u
    BY <1>1, <1>7, <1>8, Names DEF IndInv, Mutexes, Gated
  <2>2. \A u \in Tasks : Locking(u)' <=> controlLock' = u
    BY <1>1, <1>5, <1>7, <1>8 DEF IndInv, Mutexes, Locking
  <2>3. \A u \in Tasks : pc'[u] \in Stopping <=> shutdownGate' = u
    BY <1>1, <1>5, <1>7, <1>8 DEF IndInv, Mutexes, Stopping
  <2>4. controlLock # t
    BY <1>1 DEF IndInv, Mutexes, Locking
  <2>5. QED
    BY <2>1, <2>2, <2>3, <2>4 DEF Mutexes
<1>11. /\ controlLock # Nobody => pc'[controlLock] = pc[controlLock]
       /\ shutdownGate # Nobody /\ shutdownGate # t =>
            pc'[shutdownGate] = pc[shutdownGate] /\ loc'[shutdownGate] = loc[shutdownGate]
  BY <1>8, <1>10, Names DEF IndInv, Typed, Slots
<1>12. InGate(t)'
  BY <1>7, <1>8 DEF InGate
<1>13. shutdownGate = t => q = "hungShut" /\ pc[t] = "shutVoice" /\ InShutdown(t)
  BY <1>1, <1>7 DEF IndInv, Mutexes, Stopping, Holders
<1>14. Holders'
  <2>1. controlLock # Nobody => InLock(controlLock)'
    BY <1>5, <1>11 DEF IndInv, Holders, InLock
  <2>2. shutdownGate # Nobody => InShutdown(shutdownGate)'
    BY <1>5, <1>8, <1>11, <1>13 DEF IndInv, Holders, InShutdown
  <2>3. QED
    BY <1>1, <1>5, <1>12, <2>1, <2>2 DEF Holders
<1>15. Discarded'
  BY <1>5, <1>11, <1>13 DEF IndInv, Discarded
<1>16. Outside'
  BY <1>1, <1>3, <1>5, <1>6, <1>7, <1>8, OutsideKept
<1>17. ~VoiceDown'
  <2>1. ~VoiceDown
    BY <1>1 DEF IndInv, Down
  <2>2. QED
    BY <1>5, <1>8, <1>9, <1>11, <1>13, <2>1 DEF VoiceDown
<1>18. Down' /\ Reached' /\ Gone'
  BY <1>5, <1>6, <1>9, <1>17 DEF Down, VoiceDown, Reached, Gone, Quieter
<1>19. QED
  BY <1>6, <1>8, <1>9, <1>10, <1>14, <1>15, <1>16, <1>18 DEF IndInv, Typed

------------------------------------------------------------------------------
(***************************************************************************)
(* Steps under the control lock: connect.                                  *)
(***************************************************************************)

Locked == {"creating", "created", "closing"}

\* A step of connect up to the installation touches nothing of voice.
LEMMA LockStep ==
    ASSUME IndInv, NEW h \in Hosts, NEW p, NEW l \in Locals, Moves(h, p, l), ~l.created,
           pc[h] \in Locked \cup {"connectLock"}, p \in Locked \cup {"idle"},
           controlLock \in {Nobody, h},
           controlLock' = IF p \in Locked THEN h ELSE Nobody,
           UNCHANGED <<stopped, generation, state, voice, intent, keys, voiceGate,
                       shutdownGate, sockets, handles, binding, sids, shut>>,
           control' \in {control, 0}, Network', Discarded', p \in Locked => InLock(h)'
    PROVE  IndInv'
<1>1. h \in Tasks /\ h \notin Relays /\ h # Nobody
  BY Names
<1>2. /\ Points' /\ pc'[h] = p /\ loc'[h] = l
      /\ \A u \in Tasks : u # h => pc'[u] = pc[u] /\ loc'[u] = loc[u]
  BY <1>1, OneMoves DEF IndInv, Typed, HostPoints, Locked
<1>3. Slots'
  BY DEF IndInv, Typed, Slots
<1>4. Voices'
  BY DEF IndInv, Typed, Voices
<1>5. Mutexes' /\ voiceGate # h /\ shutdownGate # h
  BY <1>1, <1>2, Names DEF IndInv, Mutexes, Locking, Locked, Gated, Joining, Stopping
<1>6. /\ voiceGate # Nobody => pc'[voiceGate] = pc[voiceGate] /\ loc'[voiceGate] = loc[voiceGate]
      /\ shutdownGate # Nobody => /\ pc'[shutdownGate] = pc[shutdownGate]
                                  /\ loc'[shutdownGate] = loc[shutdownGate]
  BY <1>2, <1>5, Names DEF IndInv, Typed, Slots
<1>7. Holders'
  BY SMTT(40), <1>6 DEF IndInv, Holders, InGate, InShutdown, OfNoOther
<1>8. Outside'
  <2>1. Quieter
    BY Quiets
  <2>2. QED
    BY <1>1, <1>2, <2>1, OutsideKept DEF Locked
<1>9. Down' /\ Reached'
  BY <1>6 DEF IndInv, Down, VoiceDown, Reached
<1>10. Gone'
  BY <1>1, <1>2, Names DEF IndInv, Gone
<1>11. QED
  BY <1>2, <1>3, <1>4, <1>5, <1>7, <1>8, <1>9, <1>10 DEF IndInv, Typed


\* The lock is taken when there is no connection that lives.
LEMMA ConnectLockedKeeps ==
    ASSUME IndInv, NEW h \in Hosts, ConnectLocked(h)
    PROVE  IndInv'
<1> USE DEF connVars, serverVars, history
<1>1. /\ h \in Tasks /\ h \notin Relays /\ loc[h] \in Locals /\ pc[h] = "connectLock"
      /\ controlLock = Nobody /\ ~loc[h].created
  BY Names DEF ConnectLocked, IndInv, Typed, Points, Outside
<1>2. UNCHANGED <<stopped, generation, state, voice, intent, keys, voiceGate,
                  shutdownGate, conns, sockets, handles, binding, sids, shut>>
  BY DEF ConnectLocked
<1>3. CASE control # 0 /\ conns[control].status # "Closed"
  <2>1. Moves(h, "idle", NoLocals) /\ UNCHANGED <<control, controlLock>>
    BY <1>3 DEF ConnectLocked, Return, Goto, Moves
  <2>2. QED
    BY <1>1, <1>2, <2>1, Empty, OpenStep DEF Open, HostPoints, Rest
<1>4. CASE ~(control # 0 /\ conns[control].status # "Closed")
  <2>1. control' = 0 /\ controlLock' = h /\ Moves(h, "creating", loc[h])
    BY <1>1, <1>4 DEF ConnectLocked, Goto, Moves, IndInv, Typed, Points
  <2>2. /\ pc'[h] = "creating"
        /\ \A u \in Tasks : u # h => pc'[u] = pc[u] /\ loc'[u] = loc[u]
    BY <1>1, <2>1, OneMoves DEF IndInv, Typed, HostPoints
  <2>3. shutdownGate # Nobody => /\ pc'[shutdownGate] = pc[shutdownGate]
                                 /\ loc'[shutdownGate] = loc[shutdownGate]
    BY <1>1, <2>2, Names DEF IndInv, Typed, Slots, Mutexes, Stopping
  <2>4. Discarded'
    BY <1>2, <1>4, <2>1, <2>3 DEF IndInv, Discarded
  <2>5. Network' /\ InLock(h)'
    BY <1>2, <2>1, <2>2 DEF IndInv, Typed, Network, InLock
  <2>6. QED
    BY <1>1, <1>2, <2>1, <2>4, <2>5, LockStep DEF Locked
<1>5. QED
  BY <1>3, <1>4

\* A task that is inside the control lock, and where shutdown is meanwhile.
LEMMA LockHeld ==
    ASSUME IndInv, NEW h \in Hosts, pc[h] \in Locked
    PROVE  /\ h \in Tasks /\ h \notin Relays /\ loc[h] \in Locals /\ ~loc[h].created
           /\ controlLock = h /\ h # Nobody /\ shutdownGate # h /\ InLock(h)
BY Names DEF IndInv, Typed, Points, Outside, Mutexes, Locking, Locked, Stopping, Holders

\* One that leaves the lock alone leaves the discarded connections alone.
LEMMA DiscardedKept ==
    ASSUME IndInv, NEW h \in Hosts, NEW p \in Locked \cup {"idle"}, NEW l \in Locals,
           Moves(h, p, l), pc[h] \in Locked, UNCHANGED <<control, generation, shutdownGate>>,
           \A c \in Connections : conns'[c].status = "Closed" => conns'[c].id = 0,
           \A c \in 1..generation : conns[c].status = "Closed" => conns'[c].status = "Closed"
    PROVE  Discarded'
<1>1. h \in Tasks /\ h \notin Relays /\ shutdownGate # h
  BY LockHeld
<1>2. \A u \in Tasks : u # h => pc'[u] = pc[u] /\ loc'[u] = loc[u]
  BY <1>1, OneMoves DEF IndInv, Typed, HostPoints, Locked
<1>3. shutdownGate # Nobody => /\ pc'[shutdownGate] = pc[shutdownGate]
                               /\ loc'[shutdownGate] = loc[shutdownGate]
  BY <1>1, <1>2, Names DEF IndInv, Typed, Slots
<1>4. QED
  BY <1>3 DEF IndInv, Discarded

\* A connection is created, or its first snapshot fails.
LEMMA ConnectionCreatedKeeps ==
    ASSUME IndInv, NEW h \in Hosts, ConnectionCreated(h)
    PROVE  IndInv'
<1> USE DEF serverVars, history
<1>1. /\ h \in Tasks /\ h \notin Relays /\ loc[h] \in Locals /\ ~loc[h].created
      /\ controlLock = h /\ h # Nobody /\ InLock(h) /\ pc[h] = "creating" /\ control = 0
  BY LockHeld DEF ConnectionCreated, Locked, InLock
<1>2. UNCHANGED <<stopped, control, generation, state, voice, intent, keys, voiceGate,
                  shutdownGate, sockets, handles, binding, sids, shut>>
  BY DEF ConnectionCreated
<1>3. CASE controlLock' = Nobody /\ Return(h) /\ UNCHANGED conns
  <2>1. Moves(h, "idle", NoLocals)
    BY <1>3 DEF Return, Goto, Moves
  <2>2. Discarded'
    BY <1>1, <1>2, <1>3, <2>1, Empty, DiscardedKept DEF Locked, IndInv, Discarded
  <2>3. Network'
    BY <1>2, <1>3 DEF IndInv, Typed, Network
  <2>4. QED
    BY <1>1, <1>2, <1>3, <2>1, <2>2, <2>3, Empty, LockStep DEF Locked
<1>4. CASE /\ generation < MaxConnections
           /\ conns' = [conns EXCEPT ![generation + 1] = [Fresh EXCEPT !.status = "Syncing"]]
           /\ Goto(h, "created") /\ UNCHANGED <<controlLock, loc>>
  <2> DEFINE n == generation + 1
             d == [Fresh EXCEPT !.status = "Syncing"]
  <2>1. Moves(h, "created", loc[h])
    BY <1>1, <1>4 DEF Goto, Moves, IndInv, Typed, Points
  <2>2. d \in Conns /\ d.id = 0 /\ d.status = "Syncing"
    BY DEF Fresh, Conns, Statuses
  <2>3. generation \in Nat /\ n \in Connections /\ n \notin 1..generation
    BY <1>4, Names DEF IndInv, Typed, Slots
  <2>4. conns' = [conns EXCEPT ![n] = d]
    BY <1>4
  <2> HIDE DEF d, n
  <2>5. /\ conns' \in [Connections -> Conns] /\ conns'[n] = d
        /\ \A e \in Connections : e # n => conns'[e] = conns[e]
    BY <2>2, <2>3, <2>4 DEF IndInv, Typed, Network
  <2>6. Network'
    BY <1>2, <2>2, <2>5 DEF IndInv, Typed, Network
  <2>7. 1..generation \subseteq Connections
    BY Names DEF IndInv, Typed, Slots
  <2>8. Discarded'
    <3>1. \A c \in Connections : conns'[c].status = "Closed" => conns'[c].id = 0
      BY <2>2, <2>5 DEF IndInv, Discarded
    <3>2. \A c \in 1..generation : conns[c].status = "Closed" => conns'[c].status = "Closed"
      BY <2>3, <2>5, <2>7
    <3>3. QED
      BY <1>1, <1>2, <2>1, <3>1, <3>2, DiscardedKept DEF Locked
  <2>9. InLock(h)'
    BY <1>1, <1>2, <1>4 DEF InLock
  <2>10. QED
    BY <1>1, <1>2, <1>4, <2>1, <2>6, <2>8, <2>9, LockStep DEF Locked
<1>5. QED
  BY <1>3, <1>4 DEF ConnectionCreated

\* A connection of a client stopped meanwhile has ended.
LEMMA ConnectClosedKeeps ==
    ASSUME IndInv, NEW h \in Hosts, ConnectClosed(h)
    PROVE  IndInv'
<1> USE DEF connVars, serverVars, history
<1>1. h \in Tasks /\ h \notin Relays /\ controlLock = h /\ pc[h] = "closing"
  BY LockHeld DEF ConnectClosed, Locked
<1>2. /\ UNCHANGED <<stopped, control, generation, state, voice, intent, keys, voiceGate,
                     shutdownGate, conns, sockets, handles, binding, sids, shut>>
      /\ controlLock' = Nobody /\ Moves(h, "idle", NoLocals)
  BY DEF ConnectClosed, Return, Goto, Moves
<1>3. Discarded'
  BY <1>1, <1>2, Empty, DiscardedKept DEF Locked, IndInv, Discarded
<1>4. Network'
  BY <1>2 DEF IndInv, Typed, Network
<1>5. QED
  BY <1>1, <1>2, <1>3, <1>4, Empty, LockStep DEF Locked


\* The connection is installed and its relay spawned, unless the client has been
\* stopped: then it is told to stop.
LEMMA ConnectInstalledKeeps ==
    ASSUME IndInv, NEW h \in Hosts, ConnectInstalled(h)
    PROVE  IndInv'
<1> USE DEF serverVars, history
<1>0. PICK n : n = generation + 1
  OBVIOUS
<1>1. /\ h \in Tasks /\ h \notin Relays /\ loc[h] \in Locals /\ ~loc[h].created
      /\ controlLock = h /\ h # Nobody /\ shutdownGate # h /\ pc[h] = "created"
      /\ control = 0 /\ generation < MaxConnections
  BY LockHeld DEF ConnectInstalled, Locked, InLock
<1>2. generation \in Nat /\ n \in Connections /\ n \in Nat /\ n # 0 /\ n \notin 1..generation
      /\ n > generation /\ n <= MaxConnections /\ 1..n = (1..generation) \cup {n}
      /\ 1..generation \subseteq Connections
  BY <1>0, <1>1, Names DEF IndInv, Typed, Slots
<1>3. UNCHANGED <<stopped, voice, intent, keys, voiceGate, shutdownGate, sockets, handles,
                  binding, sids, shut>>
  BY DEF ConnectInstalled
<1>4. CASE stopped
  <2> DEFINE l == [loc[h] EXCEPT !.conn = n]
             d == [conns[n] EXCEPT !.stop = TRUE]
  <2>1. conns' = [conns EXCEPT ![n] = d] /\ UNCHANGED <<control, generation, state, controlLock>>
    BY <1>0, <1>4 DEF ConnectInstalled
  <2>2. Moves(h, "closing", l) /\ l \in Locals /\ ~l.created
    BY <1>0, <1>1, <1>2, <1>4 DEF ConnectInstalled, Goto, Moves, Locals
  <2>3. d \in Conns /\ d.id = conns[n].id /\ d.status = conns[n].status
    BY <1>2 DEF IndInv, Typed, Network, Conns
  <2> HIDE DEF d, l
  <2>4. /\ conns' \in [Connections -> Conns] /\ conns'[n] = d
        /\ \A e \in Connections : e # n => conns'[e] = conns[e]
    BY <1>2, <2>1, <2>3 DEF IndInv, Typed, Network
  <2>5. \A e \in Connections : conns'[e].id = conns[e].id /\ conns'[e].status = conns[e].status
    BY <2>3, <2>4
  <2>6. Network'
    BY <1>3, <2>4, <2>5 DEF IndInv, Typed, Network
  <2>7. Discarded'
    BY <1>1, <1>2, <1>3, <2>1, <2>2, <2>5, DiscardedKept DEF Locked, IndInv, Discarded
  <2>8. /\ pc'[h] = "closing"
    BY <1>1, <2>2, OneMoves DEF IndInv, Typed, HostPoints
  <2>9. InLock(h)'
    BY <2>8 DEF InLock
  <2>10. QED
    BY <1>1, <1>3, <2>1, <2>2, <2>6, <2>7, <2>9, LockStep DEF Locked
<1>5. CASE ~stopped
  <2>1. /\ generation' = n /\ state' = n /\ control' = n /\ controlLock' = Nobody
        /\ pc' = [pc EXCEPT ![h] = "idle", ![n] = "recv"] /\ UNCHANGED <<loc, conns>>
    BY <1>0, <1>5 DEF ConnectInstalled
  <2>2. n \in Relays /\ n \in Tasks /\ n \notin Hosts /\ n # h /\ pc[n] \in {"unborn", "ended"}
    BY <1>1, <1>2, Names DEF IndInv, Outside
  <2>3. ~shut /\ shutdownGate = Nobody /\ ~VoiceDown
    BY <1>5 DEF IndInv, Down, Holders, InShutdown, VoiceDown
  <2>4. /\ pc' \in [Tasks -> HostPoints \cup RelayPoints]
        /\ pc'[h] = "idle" /\ pc'[n] = "recv"
        /\ \A u \in Tasks : u # h /\ u # n => pc'[u] = pc[u]
    BY <1>1, <2>1, <2>2 DEF IndInv, Typed, Points, HostPoints, RelayPoints
  <2>5. Points'
    BY ZenonT(60), <1>1, <2>1, <2>2, <2>4, Names DEF IndInv, Typed, Points, HostPoints, RelayPoints
  <2>6. Slots'
    BY <1>1, <1>2, <1>3, <2>1 DEF IndInv, Typed, Slots
  <2>7. Network' /\ Voices'
    BY <1>3, <2>1 DEF IndInv, Typed, Network, Voices
  <2>8. Mutexes' /\ voiceGate # h /\ voiceGate # n
    <3>1. /\ pc[h] \notin Gated /\ pc[n] \notin Gated /\ pc'[h] \notin Gated /\ pc'[n] \notin Gated
          /\ "hungShut" \notin {pc[h], pc[n], pc'[h], pc'[n]}
      BY <1>1, <2>2, <2>4 DEF Gated, Joining
    <3>2. /\ pc[h] \notin Stopping /\ pc[n] \notin Stopping
          /\ pc'[h] \notin Stopping /\ pc'[n] \notin Stopping
      BY <1>1, <2>2, <2>4 DEF Stopping
    <3>3. ~Locking(n) /\ ~Locking(n)' /\ ~Locking(h)'
      BY <1>1, <2>2, <2>4 DEF Locking
    <3>4. \A u \in Tasks : u # h /\ u # n => (Locking(u)' <=> Locking(u))
      BY <2>1, <2>4 DEF Locking
    <3>5. \A u \in Tasks : pc'[u] \in Gated \cup {"hungShut"} <=> voiceGate' = u
      BY <1>1, <1>3, <2>2, <2>4, <3>1 DEF IndInv, Mutexes
    <3>6. ASSUME NEW u \in Tasks PROVE Locking(u)' <=> controlLock' = u
      <4>1. controlLock' # u
        BY <2>1, <3>6, Names
      <4>2. u # h => ~Locking(u)
        BY <1>1, <3>6 DEF IndInv, Mutexes
      <4>3. QED
        BY <3>3, <3>4, <3>6, <4>1, <4>2
    <3>7. \A u \in Tasks : pc'[u] \in Stopping <=> shutdownGate' = u
      BY <1>1, <1>3, <2>2, <2>4, <3>2 DEF IndInv, Mutexes
    <3>8. QED
      BY <1>1, <2>2, <3>1, <3>5, <3>6, <3>7 DEF IndInv, Mutexes
  <2>9. voiceGate # Nobody => pc'[voiceGate] = pc[voiceGate] /\ loc'[voiceGate] = loc[voiceGate]
    BY <2>1, <2>4, <2>8 DEF IndInv, Typed, Slots
  <2>10. Holders'
    BY <1>3, <2>1, <2>3, <2>9 DEF IndInv, Holders, InGate, OfNoOther
  <2>11. Outside'
    <3>1. \A u \in Tasks : /\ loc'[u].created => pc'[u] \in {"joined", "started", "replaced"}
                           /\ pc'[u] = "shutdown" => loc'[u].conn = 0
      BY <1>1, <2>1, <2>2, <2>4 DEF IndInv, Outside
    <3>2. \A u \in Tasks : pc'[u] = "handleHttp" =>
            loc'[u].handle \in 1..Len(handles') /\ ~handles'[loc'[u].handle].running
      BY <1>3, <2>1, <2>4 DEF IndInv, Outside
    <3>3. \A w \in 1..Len(handles') : handles'[w].left => ~handles'[w].running
      BY <1>3 DEF IndInv, Outside
    <3>4. ASSUME NEW g \in Relays, g > generation' PROVE pc'[g] \in {"unborn", "ended"}
      <4>1. g \in Tasks /\ g # n /\ g # h /\ g > generation
        BY <1>1, <1>2, <2>1, <3>4, Names
      <4>2. QED
        BY <2>4, <4>1 DEF IndInv, Outside
    <3>5. QED
      BY <3>1, <3>2, <3>3, <3>4 DEF Outside
  <2>12. Discarded'
    <3>1. \A c \in 1..generation' : c \in 1..generation \/ c = n
      BY <1>2, <2>1
    <3>2. \A c \in 1..generation : conns[c].status = "Closed"
      BY <1>1, <2>3 DEF IndInv, Discarded
    <3>3. QED
      BY <2>1, <3>1, <3>2 DEF IndInv, Discarded
  <2>13. Down' /\ Gone'
    BY <1>3, <2>3 DEF Down, Gone, VoiceDown
  <2>14. Reached'
    BY <1>3, <2>9 DEF IndInv, Reached
  <2>15. QED
    BY <2>5, <2>6, <2>7, <2>8, <2>10, <2>11, <2>12, <2>13, <2>14 DEF IndInv, Typed
<1>6. QED
  BY <1>4, <1>5

------------------------------------------------------------------------------
(***************************************************************************)
(* Shutdown.                                                               *)
(***************************************************************************)

\* The first shutdown stops the client; a later one returns.
LEMMA ShutdownGatedKeeps ==
    ASSUME IndInv, NEW h \in Hosts, ShutdownGated(h)
    PROVE  IndInv'
<1> USE DEF connVars, serverVars, history
<1>1. /\ h \in Tasks /\ h \notin Relays /\ h # Nobody /\ loc[h] \in Locals /\ pc[h] = "shutdown"
      /\ shutdownGate = Nobody /\ ~loc[h].created /\ loc[h].conn = 0
  BY Names DEF ShutdownGated, IndInv, Typed, Points, Outside
<1>2. UNCHANGED <<control, generation, state, voice, intent, keys, voiceGate, controlLock,
                  conns, sockets, handles, binding, sids, shut>>
  BY DEF ShutdownGated
<1>3. CASE stopped
  <2>1. Moves(h, "idle", NoLocals) /\ UNCHANGED <<stopped, shutdownGate>>
    BY <1>3 DEF ShutdownGated, Return, Goto, Moves
  <2>2. QED
    BY <1>1, <1>2, <2>1, Empty, OpenStep DEF Open, HostPoints, Rest
<1>4. CASE ~stopped
  <2>1. stopped' = TRUE /\ shutdownGate' = h /\ Moves(h, "shutVoice", loc[h])
    BY <1>1, <1>4 DEF ShutdownGated, Goto, Moves, IndInv, Typed, Points
  <2>2. /\ Points' /\ pc'[h] = "shutVoice" /\ loc'[h] = loc[h]
        /\ \A u \in Tasks : u # h => pc'[u] = pc[u] /\ loc'[u] = loc[u]
    BY <1>1, <2>1, OneMoves DEF IndInv, Typed, HostPoints, Stopping
  <2>3. Slots'
    BY <1>2, <2>1 DEF IndInv, Typed, Slots
  <2>4. Network' /\ Voices'
    BY <1>2 DEF IndInv, Typed, Network, Voices
  <2>5. Mutexes' /\ voiceGate # h /\ controlLock # h
    <3>1. /\ pc[h] \notin Gated \cup Stopping /\ pc'[h] \notin Gated /\ pc'[h] \in Stopping
          /\ pc[h] # "hungShut" /\ pc'[h] # "hungShut" /\ ~Locking(h) /\ ~Locking(h)'
      BY <1>1, <2>2 DEF Locking, Gated, Joining, Stopping
    <3>2. \A u \in Tasks : u # h => (Locking(u)' <=> Locking(u))
      BY <2>2 DEF Locking
    <3>3. voiceGate # h /\ controlLock # h
      BY <1>1, <3>1 DEF IndInv, Mutexes
    <3>4. \A u \in Tasks : pc'[u] \in Gated \cup {"hungShut"} <=> voiceGate' = u
      BY <1>1, <1>2, <2>2, <3>1, <3>3 DEF IndInv, Mutexes
    <3>5. \A u \in Tasks : Locking(u)' <=> controlLock' = u
      BY <1>1, <1>2, <3>1, <3>2, <3>3 DEF IndInv, Mutexes
    <3>6. ASSUME NEW u \in Tasks PROVE pc'[u] \in Stopping <=> shutdownGate' = u
      <4>1. pc[u] \notin Stopping
        BY <1>1, <3>6, Names DEF IndInv, Mutexes
      <4>2. QED
        BY <2>1, <2>2, <3>1, <3>6, <4>1
    <3>7. QED
      BY <3>3, <3>4, <3>5, <3>6 DEF Mutexes
  <2>6. /\ voiceGate # Nobody => pc'[voiceGate] = pc[voiceGate] /\ loc'[voiceGate] = loc[voiceGate]
        /\ controlLock # Nobody => pc'[controlLock] = pc[controlLock]
    BY <2>2, <2>5 DEF IndInv, Typed, Slots, Tasks
  <2>7. Holders'
    BY <1>1, <1>2, <2>1, <2>2, <2>6 DEF IndInv, Holders, InGate, InLock, InShutdown, OfNoOther
  <2>8. Outside'
    <3>1. Quieter
      BY <1>2, Quiets
    <3>2. QED
      BY <1>1, <1>2, <2>2, <3>1, OutsideKept
  <2>9. ~shut /\ ~VoiceDown /\ ~VoiceDown'
    BY <1>1, <1>2, <1>4, <2>1, <2>2 DEF IndInv, Down, VoiceDown
  <2>10. Discarded' /\ Down' /\ Gone'
    BY <1>1, <1>2, <2>1, <2>2, <2>9 DEF IndInv, Discarded, Down, Gone
  <2>11. Reached'
    BY <1>2, <2>6 DEF IndInv, Reached
  <2>12. QED
    BY <2>2, <2>3, <2>4, <2>5, <2>7, <2>8, <2>10, <2>11 DEF IndInv, Typed
<1>5. QED
  BY <1>3, <1>4

\* The control connection is taken out of its slot and told to stop.
LEMMA ShutdownControlKeeps ==
    ASSUME IndInv, NEW h \in Hosts, ShutdownControl(h)
    PROVE  IndInv'
<1> USE DEF serverVars, history
<1>1. /\ h \in Tasks /\ h \notin Relays /\ h # Nobody /\ loc[h] \in Locals
      /\ pc[h] = "shutControl" /\ controlLock = Nobody /\ ~loc[h].created /\ shutdownGate = h
  BY Names DEF ShutdownControl, IndInv, Typed, Points, Outside, Mutexes, Stopping
<1>2. UNCHANGED <<stopped, generation, state, voice, intent, keys, voiceGate, shutdownGate,
                  sockets, handles, binding, sids, shut>>
  BY DEF ShutdownControl
<1>3. stopped /\ loc[h].conn = 0 /\ ~shut
  BY <1>1 DEF IndInv, Holders, InShutdown, Gone
<1>4. PICK l \in Locals :
        /\ Moves(h, "shutClosing", l) /\ ~l.created /\ l.conn = control
        /\ controlLock' = IF control = 0 THEN Nobody ELSE h
  <2>1. CASE control = 0
    BY <1>1, <1>3, <2>1 DEF ShutdownControl, Goto, Moves, IndInv, Typed, Points
  <2>2. CASE control # 0
    <3> DEFINE l == [loc[h] EXCEPT !.conn = control]
    <3>1. control \in Nat
      BY Names DEF IndInv, Typed, Slots
    <3>2. l \in Locals /\ ~l.created /\ l.conn = control
      BY <1>1, <3>1 DEF Locals
    <3>3. Moves(h, "shutClosing", l) /\ controlLock' = h
      BY <2>2 DEF ShutdownControl, Goto, Moves
    <3> HIDE DEF l
    <3>4. QED
      BY <2>2, <3>2, <3>3
  <2>3. QED
    BY <2>1, <2>2
<1>5. control' = 0 /\ conns' \in [Connections -> Conns]
      /\ \A c \in Connections : conns'[c].id = conns[c].id /\ conns'[c].status = conns[c].status
  <2>1. CASE control = 0
    BY <2>1 DEF ShutdownControl, IndInv, Typed, Network
  <2>2. CASE control # 0
    <3> DEFINE d == [conns[control] EXCEPT !.stop = TRUE]
    <3>1. control \in Connections
      BY <2>2, Names DEF IndInv, Typed, Slots
    <3>2. d \in Conns /\ d.id = conns[control].id /\ d.status = conns[control].status
      BY <3>1 DEF IndInv, Typed, Network, Conns
    <3>3. control' = 0 /\ conns' = [conns EXCEPT ![control] = d]
      BY <2>2 DEF ShutdownControl
    <3> HIDE DEF d
    <3>4. /\ conns' \in [Connections -> Conns] /\ conns'[control] = d
          /\ \A e \in Connections : e # control => conns'[e] = conns[e]
      BY <3>1, <3>2, <3>3 DEF IndInv, Typed, Network
    <3>5. QED
      BY <3>2, <3>3, <3>4
  <2>3. QED
    BY <2>1, <2>2
<1>6. /\ Points' /\ pc'[h] = "shutClosing" /\ loc'[h] = l
      /\ \A u \in Tasks : u # h => pc'[u] = pc[u] /\ loc'[u] = loc[u]
  BY <1>1, <1>4, OneMoves DEF IndInv, Typed, HostPoints, Stopping
<1>7. Slots'
  BY <1>2, <1>4, <1>5, Names DEF IndInv, Typed, Slots
<1>8. Network' /\ Voices'
  BY <1>2, <1>5 DEF IndInv, Typed, Network, Voices
<1>9. Mutexes' /\ voiceGate # h
  <2>1. /\ pc[h] \notin Gated /\ pc'[h] \notin Gated /\ pc[h] \in Stopping /\ pc'[h] \in Stopping
        /\ ~Locking(h) /\ (Locking(h)' <=> control # 0)
    BY <1>1, <1>4, <1>6 DEF Locking, Gated, Joining, Stopping
  <2>2. \A u \in Tasks : u # h => Locking(u)' = Locking(u)
    BY <1>6 DEF Locking
  <2>3. \A u \in Tasks : Locking(u)' <=> controlLock' = u
    BY <1>1, <1>4, <2>1, <2>2, Names DEF IndInv, Mutexes
  <2>4. QED
    BY <1>1, <1>2, <1>6, <2>1, <2>3 DEF IndInv, Mutexes
<1>10. voiceGate # Nobody => pc'[voiceGate] = pc[voiceGate] /\ loc'[voiceGate] = loc[voiceGate]
  BY <1>6, <1>9 DEF IndInv, Typed, Slots
<1>11. Holders'
  <2>1. voiceGate' # Nobody => InGate(voiceGate)'
    BY <1>2, <1>10 DEF IndInv, Holders, InGate, OfNoOther
  <2>2. controlLock' # Nobody => InLock(controlLock)'
    BY <1>4, <1>6 DEF InLock
  <2>3. InShutdown(shutdownGate)'
    BY <1>1, <1>2, <1>3, <1>5, <1>6 DEF InShutdown
  <2>4. QED
    BY <2>1, <2>2, <2>3 DEF Holders
<1>12. Outside'
  <2>1. Quieter
    BY <1>2, Quiets
  <2>2. QED
    BY <1>1, <1>2, <1>4, <1>6, <2>1, OutsideKept
<1>13. Discarded'
  <2>1. 1..generation \subseteq Connections
    BY Names DEF IndInv, Typed, Slots
  <2>2. QED
    BY <1>1, <1>2, <1>4, <1>5, <1>6, <2>1 DEF IndInv, Discarded
<1>14. Down' /\ Gone'
  BY <1>1, <1>2, <1>3, <1>6, <1>10 DEF IndInv, Down, VoiceDown, Gone
<1>15. Reached'
  BY <1>2, <1>10 DEF IndInv, Reached
<1>16. QED
  BY <1>6, <1>7, <1>8, <1>9, <1>11, <1>12, <1>13, <1>14, <1>15 DEF IndInv, Typed



\* Keys, intent and state go, the relays are aborted, the mutexes are released: of
\* the tasks inside the voice gate only one that has not yet got a connection is left.
LEMMA ShutdownFinishedKeeps ==
    ASSUME IndInv, NEW h \in Hosts, ShutdownFinished(h)
    PROVE  IndInv'
<1> USE DEF connVars, serverVars, history
<1>1. /\ h \in Tasks /\ h \notin Relays /\ h # Nobody /\ pc[h] = "shutClosing"
      /\ shutdownGate = h
  BY Names DEF ShutdownFinished, IndInv, Mutexes, Stopping
<1>2. /\ UNCHANGED <<stopped, control, generation, voice, conns, sockets, handles, binding,
                     sids>>
      /\ keys' = {} /\ intent' = NoIntent /\ state' = 0 /\ shutdownGate' = Nobody
      /\ shut' = TRUE
      /\ voiceGate' = IF voiceGate \in Relays THEN Nobody ELSE voiceGate
      /\ controlLock' = IF controlLock = h THEN Nobody ELSE controlLock
  BY DEF ShutdownFinished
<1>3. stopped /\ control = 0 /\ VoiceDown
  BY <1>1 DEF IndInv, Holders, InShutdown, VoiceDown
<1>4. /\ pc' \in [Tasks -> HostPoints \cup RelayPoints] /\ loc' \in [Tasks -> Locals]
      /\ pc'[h] = "idle" /\ loc'[h] = NoLocals
      /\ \A g \in Relays : pc'[g] = "ended" /\ loc'[g] = NoLocals
      /\ \A u \in Hosts : u # h => pc'[u] = pc[u] /\ loc'[u] = loc[u]
  <2>1. \A u \in Tasks :
          /\ pc'[u] = IF u = h THEN "idle" ELSE IF u \in Relays THEN "ended" ELSE pc[u]
          /\ loc'[u] = IF u = h \/ u \in Relays THEN NoLocals ELSE loc[u]
    BY DEF ShutdownFinished
  <2>2. "idle" \in HostPoints /\ "ended" \in RelayPoints
    BY DEF HostPoints, RelayPoints
  <2>3. pc' \in [Tasks -> HostPoints \cup RelayPoints]
    BY <2>2 DEF ShutdownFinished, IndInv, Typed, Points
  <2>4. loc' \in [Tasks -> Locals]
    BY Empty DEF ShutdownFinished, IndInv, Typed, Points
  <2>5. QED
    BY <1>1, <2>1, <2>3, <2>4, Names
<1>5. Points'
  BY <1>1, <1>4, Names DEF IndInv, Typed, Points, HostPoints, RelayPoints
<1>6. Slots'
  <2>1. generation \in 0..MaxConnections /\ control \in 0..generation /\ 0 \in 0..generation
    BY Names DEF IndInv, Typed, Slots
  <2>2. QED
    BY <1>2, <2>1 DEF IndInv, Typed, Slots
<1>7. Network' /\ Voices'
  <2>1. Network'
    BY <1>2 DEF IndInv, Typed, Network
  <2>2. 0 \in 0..sids /\ NoIntent \in [sid : 0..sids, channel : Channels \cup {0}]
    BY DEF IndInv, Typed, Voices, NoIntent
  <2>3. QED
    BY <1>2, <2>1, <2>2 DEF IndInv, Typed, Voices
<1>8. Mutexes'
  <2>1. /\ pc[h] \notin Gated /\ voiceGate # h
        /\ pc'[h] \notin Gated /\ pc'[h] \notin Stopping /\ ~Locking(h)'
    BY <1>1, <1>4 DEF IndInv, Mutexes, Locking, Gated, Joining, Stopping
  <2>2. \A g \in Relays : pc'[g] \notin Gated /\ pc'[g] \notin Stopping /\ ~Locking(g)'
    BY <1>4 DEF Locking, Gated, Joining, Stopping
  <2>3. \A u \in Hosts : u # h => (Locking(u)' <=> Locking(u))
    BY <1>4 DEF Locking
  <2>4. ASSUME NEW u \in Tasks PROVE pc'[u] \in Gated \cup {"hungShut"} <=> voiceGate' = u
    <3>1. CASE u = h
      BY <1>1, <1>2, <2>1, <3>1 DEF Stopping
    <3>2. CASE u \in Relays
      BY <1>2, <2>2, <3>2, Names DEF Stopping
    <3>3. CASE u \in Hosts /\ u # h
      BY <1>2, <1>4, <3>3, Names DEF IndInv, Mutexes
    <3>4. QED
      BY <2>4, <3>1, <3>2, <3>3, Names
  <2>5. ASSUME NEW u \in Tasks PROVE Locking(u)' <=> controlLock' = u
    <3>1. CASE u = h
      BY <1>1, <1>2, <2>1, <3>1
    <3>2. CASE u \in Relays
      BY <1>2, <2>2, <3>2, Names DEF IndInv, Typed, Slots
    <3>3. CASE u \in Hosts /\ u # h
      BY <1>2, <2>3, <3>3, Names DEF IndInv, Mutexes
    <3>4. QED
      BY <2>5, <3>1, <3>2, <3>3, Names
  <2>6. ASSUME NEW u \in Tasks PROVE pc'[u] \in Stopping <=> shutdownGate' = u
    <3>1. shutdownGate' # u
      BY <1>2, <2>6, Names
    <3>2. u \in Hosts /\ u # h => pc[u] \notin Stopping
      BY <1>1, <2>6, Names DEF IndInv, Mutexes
    <3>3. QED
      BY <1>4, <2>1, <2>2, <2>6, <3>1, <3>2, Names
  <2>7. QED
    BY <2>4, <2>5, <2>6 DEF Mutexes
<1>9. voiceGate' # Nobody => pc'[voiceGate'] = "joinControl"
  <2>1. SUFFICES ASSUME voiceGate' # Nobody PROVE pc'[voiceGate'] = "joinControl"
    OBVIOUS
  <2>2. voiceGate' = voiceGate /\ voiceGate \in Hosts /\ pc[voiceGate] = "joinControl"
    BY <1>2, <1>3, <2>1, Names DEF IndInv, Typed, Slots, Down
  <2>3. QED
    BY <1>1, <1>4, <2>2
<1>10. Holders'
  <2>1. voiceGate' # Nobody => InGate(voiceGate)'
    BY <1>9 DEF InGate
  <2>2. controlLock' # Nobody => InLock(controlLock)'
    <3>1. SUFFICES ASSUME controlLock' # Nobody PROVE InLock(controlLock)'
      OBVIOUS
    <3>2. controlLock' = controlLock /\ controlLock \in Hosts /\ controlLock # h
      BY <1>2, <3>1 DEF IndInv, Typed, Slots
    <3>3. pc'[controlLock'] = pc[controlLock] /\ InLock(controlLock)
      BY <1>4, <3>1, <3>2 DEF IndInv, Holders
    <3>4. QED
      BY <1>2, <3>3 DEF InLock
  <2>3. QED
    BY <1>2, <2>1, <2>2 DEF Holders
<1>11. Outside'
  <2>1. \A u \in Tasks : \/ pc'[u] = pc[u] /\ loc'[u] = loc[u]
                         \/ pc'[u] \in {"idle", "ended"} /\ loc'[u] = NoLocals
    BY <1>4, Names
  <2>2. \A u \in Tasks : /\ loc'[u].created => pc'[u] \in {"joined", "started", "replaced"}
                         /\ pc'[u] = "shutdown" => loc'[u].conn = 0
    BY <2>1, Empty DEF IndInv, Outside
  <2>3. \A u \in Tasks : pc'[u] = "handleHttp" =>
          loc'[u].handle \in 1..Len(handles') /\ ~handles'[loc'[u].handle].running
    BY <1>2, <2>1 DEF IndInv, Outside
  <2>4. \A w \in 1..Len(handles') : handles'[w].left => ~handles'[w].running
    BY <1>2 DEF IndInv, Outside
  <2>5. QED
    BY <1>4, <2>2, <2>3, <2>4 DEF Outside
<1>12. Discarded'
  <2>1. loc[h].conn = 0 \/ conns[loc[h].conn].status = "Closed"
    BY DEF ShutdownFinished
  <2>2. \A c \in 1..generation : c # 0
    BY Names DEF IndInv, Typed, Slots
  <2>3. \A c \in 1..generation : conns[c].status = "Closed"
    BY <1>1, <1>3, <2>1, <2>2 DEF IndInv, Discarded
  <2>4. QED
    BY <1>2, <2>3 DEF IndInv, Discarded
<1>13. Down'
  BY <1>2, <1>3, <1>9 DEF IndInv, Down
<1>14. Reached'
  BY <1>2, <1>3 DEF IndInv, Down, Reached
<1>15. Gone'
  BY <1>2, <1>3, <1>4 DEF Gone
<1>16. QED
  BY <1>5, <1>6, <1>7, <1>8, <1>10, <1>11, <1>12, <1>13, <1>14, <1>15 DEF IndInv, Typed


------------------------------------------------------------------------------
(***************************************************************************)
(* Every step.                                                             *)
(***************************************************************************)

\* Every step of every task, of the connections and of the workers.
LEMMA StepKeeps == IndInv /\ Next => IndInv'
<1> SUFFICES ASSUME IndInv, Next PROVE IndInv'
  OBVIOUS
<1>1. ASSUME NEW h \in Hosts, HostCalls(h) PROVE IndInv'
  BY <1>1, CallsKeep, HandlesKeep DEF HostCalls
<1>2. ASSUME NEW h \in Hosts, ConnectSteps(h) PROVE IndInv'
  BY <1>2, ConnectLockedKeeps, ConnectionCreatedKeeps, ConnectInstalledKeeps,
     ConnectClosedKeeps DEF ConnectSteps
<1>3. ASSUME NEW h \in Hosts, LeaveSteps(h) PROVE IndInv'
  BY <1>3, LeaveGatedKeeps, LeaveClosedKeeps, LeaveAnsweredKeeps, HandleAnswered
  DEF LeaveSteps
<1>4. ASSUME NEW h \in Hosts, ShutdownSteps(h) PROVE IndInv'
  BY <1>4, ShutdownGatedKeeps, ShutdownVoiceKeeps, ShutdownControlKeeps,
     ShutdownFinishedKeeps DEF ShutdownSteps
<1>5. ASSUME NEW t \in Tasks, JoinSteps(t) PROVE IndInv'
  BY <1>5, JoinGatedKeeps, JoinControlKeeps, JoinRequestedKeeps, ServerJoinKeeps,
     JoinRefusedKeeps, StartTransportKeeps, StartFailsKeeps, JoinInstalledKeeps,
     JoinFinishedKeeps DEF JoinSteps
<1>6. ASSUME NEW g \in Relays, RelaySteps(g) PROVE IndInv'
  BY <1>6, RelayKeeps, RelayStopsKeeps DEF RelaySteps
<1>7. ASSUME NEW t \in Tasks, CloseHangs(t) PROVE IndInv'
  BY <1>7, GateHangsKeeps, StopHangsKeeps DEF CloseHangs
<1>8. QED
  BY <1>1, <1>2, <1>3, <1>4, <1>5, <1>6, <1>7, WorldKeeps, HandlesKeep DEF Next

\* The invariant in every reachable state.
LEMMA Invariance == Spec => []IndInv
<1>1. IndInv /\ UNCHANGED vars => IndInv'
  BY DEF vars, inner, connVars, serverVars, taskVars, history, IndInv, Typed, Slots, Network,
     Voices, Points, Mutexes, Locking, Holders, InGate, InLock, InShutdown, OfNoOther, Outside,
     Discarded, Down, VoiceDown, Reached, Gone
<1>2. QED
  BY <1>1, Initially, StepKeeps, PTL DEF Spec

------------------------------------------------------------------------------
(***************************************************************************)
(* The properties.                                                         *)
(***************************************************************************)

\* client.rs, voice_api.rs: the slots of the client refer to connections and
\* sessions that exist, for any number of hosts, connections and sessions.
THEOREM TypeCorrect == Spec => []TypeOK
<1>1. IndInv => TypeOK
  <2> SUFFICES ASSUME IndInv PROVE TypeOK
    OBVIOUS
  <2> USE DEF IndInv, Typed
  <2>1. DOMAIN handles = 1..Len(handles)
    BY DEF Voices
  <2>2. {voiceGate, controlLock, shutdownGate} \subseteq Tasks \cup {Nobody}
    BY Names DEF Slots
  <2>3. \A c \in Connections : conns[c].id \in 0..sockets
    BY DEF Network, Conns
  <2>4. binding.id \in 0..sockets /\ binding.sid \in 0..sids
    BY DEF Network, Voices
  <2>5. intent.sid \in 0..sids /\ \A v \in DOMAIN handles : handles[v].sid \in 1..sids
    BY <2>1 DEF Voices
  <2>6. stopped \in BOOLEAN
    BY DEF Slots
  <2>7. QED
    BY <2>2, <2>3, <2>4, <2>5, <2>6 DEF Slots, Voices, TypeOK
<1>2. QED
  BY <1>1, Invariance, PTL

\* lifecycle.rs: once shutdown has returned, nothing runs and nothing is remembered,
\* whatever join, leave, connect or rejoin was under way when it began.
THEOREM ShutdownFinal == Spec => []ShutdownIsFinal
<1>1. IndInv => ShutdownIsFinal
  <2> SUFFICES ASSUME IndInv, shut PROVE ShutdownIsFinal
    BY DEF ShutdownIsFinal
  <2>1. DOMAIN handles = 1..Len(handles)
    BY DEF IndInv, Typed, Voices
  <2>2. voice = 0 /\ \A v \in DOMAIN handles : ~handles[v].running
    BY <2>1 DEF IndInv, Down, VoiceDown
  <2>3. control = 0 /\ state = 0 /\ intent = NoIntent /\ keys = {} /\ shutdownGate = Nobody
        /\ \A g \in Relays : pc[g] = "ended"
    BY DEF IndInv, Gone
  <2>4. \A c \in 1..generation : c # 0
    BY DEF IndInv, Typed, Slots
  <2>5. \A c \in 1..generation : conns[c].status = "Closed"
    BY <2>3, <2>4 DEF IndInv, Discarded
  <2>6. QED
    BY <2>2, <2>3, <2>5 DEF ShutdownIsFinal
<1>2. QED
  BY <1>1, Invariance, PTL

\* voice_api.rs, events.rs: no UDP session runs out of reach of the client: it is the
\* installed one, or the task inside the voice gate is about to install or close it.
THEOREM SessionsReachable == Spec => []NoOrphanSession
<1>1. IndInv => NoOrphanSession
  <2> SUFFICES ASSUME IndInv PROVE NoOrphanSession
    OBVIOUS
  <2>1. DOMAIN handles = 1..Len(handles)
    BY DEF IndInv, Typed, Voices
  <2>2. QED
    BY <2>1 DEF IndInv, Reached, NoOrphanSession
<1>2. QED
  BY <1>1, Invariance, PTL

\* A task that has installed its session stays there until it finishes the join or
\* hangs, whatever the others do.
LEMMA StaysReplaced ==
    ASSUME IndInv, Next, NEW t \in Tasks, pc[t] = "replaced", ~JoinFinished(t)
    PROVE  pc'[t] \in {"replaced", "hungGate"}
<1> USE DEF Goto, Return, Call
<1>1. pc \in [Tasks -> HostPoints \cup RelayPoints] /\ Hosts \subseteq Tasks /\ Relays \subseteq Tasks
  BY SMTT(40), Names DEF IndInv, Typed, Points
<1>2. ASSUME NEW h \in Hosts, HostCalls(h) PROVE pc'[t] = "replaced"
  BY <1>1, <1>2 DEF HostCalls, Connect, LeaveVoice, Shutdown, JoinVoice, CloseHandle, LeaveHandle,
     HandleHangs, Hangs
<1>3. ASSUME NEW h \in Hosts, ConnectSteps(h) PROVE pc'[t] = "replaced"
  <2>1. CASE ConnectInstalled(h)
    <3>1. PICK n : n = generation + 1
      OBVIOUS
    <3>2. /\ t # h /\ pc[h] = "created"
          /\ \/ pc' = [pc EXCEPT ![h] = "closing"]
             \/ pc' = [pc EXCEPT ![h] = "idle", ![n] = "recv"]
      BY <2>1, <3>1 DEF ConnectInstalled
    <3>3. generation < MaxConnections
      BY <3>2, LockHeld DEF Locked, InLock
    <3>4. t # n
      <4>1. n \in Relays /\ n > generation
        BY <3>1, <3>3, Names DEF IndInv, Typed, Slots
      <4>2. pc[n] \in {"unborn", "ended"}
        BY <4>1 DEF IndInv, Outside
      <4>3. QED
        BY <4>2
    <3>5. QED
      BY <1>1, <3>2, <3>4
  <2>2. QED
    BY <1>1, <1>3, <2>1 DEF ConnectSteps, ConnectLocked, ConnectionCreated, ConnectClosed
<1>4. ASSUME NEW h \in Hosts, LeaveSteps(h) PROVE pc'[t] = "replaced"
  BY <1>1, <1>4 DEF LeaveSteps, LeaveGated, LeaveClosed, LeaveAnswered, LeaveHandleAnswered,
     LeaveFails, LeaveSucceeds
<1>5. ASSUME NEW h \in Hosts, ShutdownSteps(h) PROVE pc'[t] = "replaced"
  <2>1. CASE ShutdownFinished(h)
    <3>1. pc[h] = "shutClosing" /\ VoiceDown
      BY <2>1, Names DEF ShutdownFinished, IndInv, Mutexes, Stopping, VoiceDown
    <3>2. voiceGate = t /\ voiceGate # Nobody
      BY SMTT(40), Names DEF IndInv, Mutexes, Gated, Joining
    <3>3. QED
      BY <3>1, <3>2 DEF IndInv, Down
  <2>2. QED
    BY <1>1, <1>5, <2>1 DEF ShutdownSteps, ShutdownGated, ShutdownVoice, ShutdownControl
<1>6. ASSUME NEW u \in Tasks, JoinSteps(u) PROVE pc'[t] = "replaced"
  BY <1>1, <1>6 DEF JoinSteps, JoinFails, JoinGated, JoinControl, JoinRequested, ServerJoin,
     JoinRefused, StartTransport, StartFails, JoinInstalled, JoinFinished
<1>7. ASSUME NEW g \in Relays, RelaySteps(g) PROVE pc'[t] = "replaced"
  BY <1>1, <1>7 DEF RelaySteps, RelayEvent, RelayStops, RelayRejoins
<1>8. ASSUME NEW c \in Connections,
             SocketReady(c) \/ GoLive(c) \/ SocketLost(c) \/ ConnectionEnds(c) \/ Resync(c)
      PROVE  pc'[t] = "replaced"
  BY <1>8 DEF taskVars, SocketReady, GoLive, SocketLost, ConnectionEnds, Resync
<1>9. ASSUME NEW v \in DOMAIN handles, WorkerEnds(v) PROVE pc'[t] = "replaced"
  BY <1>9 DEF taskVars, WorkerEnds
<1>10. ASSUME NEW u \in Tasks, CloseHangs(u) PROVE pc'[t] \in {"replaced", "hungGate"}
  BY <1>1, <1>10 DEF CloseHangs, GateHangs, StopHangs, Stopped, Hangs
<1>11. QED
  BY <1>2, <1>3, <1>4, <1>5, <1>6, <1>7, <1>8, <1>9, <1>10 DEF Next

\* voice_api.rs:85: a join that succeeds keeps the key of the session it installed in
\* the cache, although the previous transport may be of the same server session and
\* drops that key when it is closed.
THEOREM KeyKept == Spec => JoinKeepsKey
<1>1. ASSUME IndInv, [Next]_vars, NEW t \in Tasks, pc[t] = "replaced",
             pc'[t] \in {"idle", "recv"},
             handles'[voice'].running
      PROVE  handles[voice].sid \in keys'
  <2>1. JoinFinished(t)
    BY <1>1, StaysReplaced DEF vars, taskVars
  <2> DEFINE l == loc[t]
  <2>2. /\ voiceGate = t /\ voiceGate # Nobody /\ l \in Locals
    BY <1>1, Names DEF IndInv, Mutexes, Gated, Joining, Typed, Points
  <2>3. /\ voice = l.handle /\ l.handle \in 1..Len(handles) /\ handles[l.handle].sid = l.sid
        /\ l.conn \in 0..Len(handles) /\ l.conn # l.handle /\ l.saved = ~l.created
        /\ l.created => /\ OfNoOther(l.sid, l.handle)
                        /\ handles[l.handle].running => l.sid \in keys
    BY <1>1, <2>2 DEF IndInv, Holders, InGate
  <2>4. voice' = voice
    BY <2>1 DEF JoinFinished
  <2>5. CASE l.saved
    BY <2>1, <2>3, <2>5 DEF JoinFinished
  <2>6. CASE ~l.saved /\ l.conn = 0
    <3>1. handles' = handles /\ keys \subseteq keys'
      BY <2>1, <2>6 DEF JoinFinished
    <3>2. QED
      BY <1>1, <2>3, <2>4, <2>6, <3>1
  <2>7. CASE ~l.saved /\ l.conn # 0
    <3>1. l.conn \in 1..Len(handles)
      BY <2>3, <2>7
    <3>2. handles' = Halt(l.conn) /\ keys \ {handles[l.conn].sid} \subseteq keys'
      BY <2>1, <2>7 DEF JoinFinished
    <3>3. handles'[l.handle].running = handles[l.handle].running
      BY <1>1, <2>3, <3>1, <3>2, Halting DEF IndInv, Typed
    <3>4. handles[l.conn].sid # l.sid
      BY <2>3, <2>7, <3>1 DEF OfNoOther
    <3>5. QED
      BY <1>1, <2>3, <2>4, <2>7, <3>2, <3>3, <3>4
  <2>8. QED
    BY <2>5, <2>6, <2>7
<1>2. IndInv /\ [Next]_vars =>
        [\A t \in Tasks : pc[t] = "replaced" /\ pc'[t] \in {"idle", "recv"}
                            /\ handles'[voice'].running
           => handles[voice].sid \in keys']_vars
  BY <1>1
<1>3. QED
  BY <1>2, Invariance, PTL DEF Spec, JoinKeepsKey

==============================================================================
