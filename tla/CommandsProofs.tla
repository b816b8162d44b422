---------------------------- MODULE CommandsProofs ----------------------------
(***************************************************************************)
(* Request-correlated commands, for any number of host tasks, any capacity *)
(* of the waiter table and any number of sockets: the table and the queue  *)
(* keep to their bounds, the loss of a socket wakes every call that waits  *)
(* on it, an answer completes its own request only, and the identity of a  *)
(* socket is gone before its loss is announced.                            *)
(***************************************************************************)
EXTENDS Commands, FiniteSetTheorems, TLAPS

Returns == Results \cup {"none", "NotLive", "Full", "CommandTimeout", "cancelled"}
Frames == [id : Ids, kind : Kinds]

\* The values of the variables the argument reads.
Typed ==
    /\ status \in {"Connecting", "Reconnecting", "Ready", "Syncing", "Live", "Closed"}
    /\ sock \in Nat /\ ready \in Nat /\ announced \in Nat /\ nextId \in Nat \ {0}
    /\ engine \in {"down", "opening", "up", "busy", "clearing", "draining",
                   "cleared", "waiting", "ended"}
    /\ call \in [Callers -> [at : {"idle", "insert", "outbound", "send", "wait"},
                             id : Nat, kind : Kinds, chan : Nat]]
    /\ result \in [Ids -> Results \cup {"none"}]
    /\ returned \in [Ids -> Returns]
    /\ queue \in Seq(Frames)
    /\ Len(queue) <= MaxPending + Slack

\* A socket's sender and identity are published only while its task runs or is
\* being cleared; its loss is announced after that.
Sockets ==
    /\ outbound \in {0, sock} /\ ready \in {0, sock} /\ announced <= sock
    /\ engine \in {"draining", "cleared", "waiting", "down", "ended"}
         => ready = 0 /\ outbound = 0
    /\ engine = "opening" => outbound = 0
    /\ ready # 0 => ready > announced

\* Request ids are drawn once: a call that has begun has one of its own, whose
\* outcome is not decided yet.
OwnIds ==
    /\ \A c \in Callers :
         call[c].at # "idle" => /\ call[c].id \in Ids /\ call[c].id < nextId
                                /\ returned[call[c].id] = "none"
    /\ \A c, d \in Callers :
         c # d /\ call[c].at # "idle" /\ call[d].at # "idle" => call[c].id # call[d].id
    /\ \A i \in Ids : i >= nextId => returned[i] = "none"

\* Waiters are those of calls in flight, and a call in flight has its waiter
\* or its result.
Waiters ==
    /\ \A i \in pending : \E c \in Callers : InFlight(c) /\ call[c].id = i
    /\ \A c \in Callers : InFlight(c) /\ result[call[c].id] = "none"
                            => call[c].id \in pending

\* The waiter table keeps to its capacity.
Capacity == IsFiniteSet(pending) /\ Cardinality(pending) <= MaxPending

\* The request is in the outbound queue or has reached the server.
Sent(i) ==
    \/ i \in executed \/ i \in inbox
    \/ \E a \in answers : a.id = i
    \/ \E k \in DOMAIN queue : queue[k].id = i

\* What was sent belongs to a call that queued it.
Sending ==
    /\ inbox \subseteq Ids /\ executed \subseteq Ids
    /\ answers \subseteq [id : Ids, outcome : Outcomes]
    /\ \A i \in Ids : Sent(i) => i < nextId /\ returned[i] \notin {"NotLive", "Full"}
    /\ \A c \in Callers : call[c].at \in {"insert", "outbound", "send"} => ~Sent(call[c].id)

\* An answer that says ok is the answer of a request the server executed.
Honest ==
    /\ \A a \in answers : a.outcome = "ok" => a.id \in executed
    /\ \A i \in Ids : result[i] = "ok" => i \in executed
    /\ \A i \in Ids : returned[i] = "ok" => i \in executed

IndInv == Typed /\ Sockets /\ OwnIds /\ Waiters /\ Capacity /\ Sending /\ Honest /\ LossWakes

------------------------------------------------------------------------------
\* A frame put at the end of the queue, and one taken from its head.
LEMMA AppendIds ==
    ASSUME NEW q \in Seq(Frames), NEW f \in Frames
    PROVE  /\ Append(q, f) \in Seq(Frames) /\ Len(Append(q, f)) = Len(q) + 1
           /\ \A i : (\E k \in DOMAIN Append(q, f) : Append(q, f)[k].id = i)
                       <=> i = f.id \/ \E k \in DOMAIN q : q[k].id = i
<1> DEFINE r == Append(q, f)
<1>1. r \in Seq(Frames) /\ Len(r) = Len(q) + 1 /\ Len(q) \in Nat
  OBVIOUS
<1>2. /\ DOMAIN q = 1..Len(q) /\ DOMAIN r = 1..(Len(q) + 1)
      /\ r[Len(q) + 1] = f /\ \A k \in 1..Len(q) : r[k] = q[k]
  OBVIOUS
<1>3. DOMAIN r = DOMAIN q \cup {Len(q) + 1}
  BY <1>1, <1>2
<1> HIDE DEF r
<1>4. \A i : (\E k \in DOMAIN r : r[k].id = i)
               <=> i = f.id \/ \E k \in DOMAIN q : q[k].id = i
  BY <1>2, <1>3
<1>5. QED
  BY <1>1, <1>4 DEF r

\* Removing the head of the outbound queue keeps what is said of its ids.
LEMMA TailIds ==
    ASSUME NEW q \in Seq(Frames), q # <<>>
    PROVE  /\ Tail(q) \in Seq(Frames) /\ Len(Tail(q)) <= Len(q)
           /\ Head(q) \in Frames
           /\ \E k \in DOMAIN q : q[k].id = Head(q).id
           /\ \A i : (\E k \in DOMAIN Tail(q) : Tail(q)[k].id = i)
                       => \E k \in DOMAIN q : q[k].id = i
<1>1. /\ Tail(q) \in Seq(Frames) /\ Len(Tail(q)) = Len(q) - 1 /\ Len(q) \in Nat
      /\ Head(q) \in Frames /\ Head(q) = q[1] /\ 1 \in DOMAIN q
  OBVIOUS
<1>2. \A k \in DOMAIN Tail(q) : k + 1 \in DOMAIN q /\ Tail(q)[k] = q[k + 1]
  OBVIOUS
<1>3. QED
  BY <1>1, <1>2

\* A call ends, however it ends: its waiter goes with it.
LEMMA EndsCall ==
    ASSUME IndInv, NEW c \in Callers, NEW what \in Returns,
           call[c].at # "idle", Ends(c, what),
           what = "ok" => call[c].id \in executed,
           what \in {"NotLive", "Full"} => ~Sent(call[c].id),
           UNCHANGED <<engineVars, nextId, serverVars, queue, result>>
    PROVE  IndInv'
<1> DEFINE id == call[c].id
<1>1. /\ id \in Ids /\ id < nextId
      /\ \A d \in Callers : d # c => call'[d] = call[d]
      /\ call'[c] = Idle
      /\ \A i \in Ids : i # id => returned'[i] = returned[i]
      /\ returned'[id] = what
      /\ pending' = pending \ {id}
  BY DEF IndInv, Typed, OwnIds, Ends, Idle
<1>2. /\ UNCHANGED <<status, engine, sock, ready, outbound, stopped, announced>>
      /\ UNCHANGED <<nextId, inbox, answers, executed, queue, result>>
  BY DEF engineVars, serverVars
<1>3. Typed'
  BY <1>1, <1>2 DEF IndInv, Typed, Ends, Idle, Kinds
<1>4. Sockets'
  BY <1>2 DEF IndInv, Sockets
<1>5. OwnIds'
  <2>1. \A d \in Callers : call'[d].at # "idle"
           => d # c /\ call'[d] = call[d] /\ call[d].id # id
    BY <1>1 DEF IndInv, OwnIds, Idle
  <2>2. QED
    BY <1>1, <1>2, <2>1 DEF IndInv, OwnIds, Typed
<1>6. Waiters'
  <2>1. \A d \in Callers : d # c /\ InFlight(d) => call[d].id # id
    BY DEF IndInv, OwnIds, InFlight
  <2>2. \A i \in pending' : \E d \in Callers : InFlight(d)' /\ call'[d].id = i
    BY <1>1 DEF IndInv, Waiters, InFlight
  <2>3. \A d \in Callers : InFlight(d)' => d # c /\ call'[d] = call[d] /\ InFlight(d)
    BY <1>1 DEF InFlight, Idle
  <2>4. \A d \in Callers : InFlight(d)' /\ result'[call'[d].id] = "none"
                             => call'[d].id \in pending'
    BY <1>1, <1>2, <2>1, <2>3 DEF IndInv, Waiters
  <2>5. QED
    BY <2>2, <2>4 DEF Waiters
<1>7. Capacity'
  <2>1. /\ IsFiniteSet(pending') /\ Cardinality(pending') <= Cardinality(pending)
        /\ Cardinality(pending) \in Nat /\ Cardinality(pending') \in Nat
    BY <1>1, FS_Subset, FS_CardinalityType DEF IndInv, Capacity
  <2>2. QED
    BY <2>1, CommandsAssumption DEF IndInv, Capacity
<1>8. Sending'
  <2>1. \A i : Sent(i)' <=> Sent(i)
    BY <1>2 DEF Sent
  <2>2. \A d \in Callers : call'[d].at \in {"insert", "outbound", "send"}
                             => d # c /\ call'[d] = call[d]
    BY <1>1 DEF Idle
  <2>3. QED
    BY <1>1, <1>2, <2>1, <2>2 DEF IndInv, Sending
<1>9. Honest'
  BY <1>1, <1>2 DEF IndInv, Honest
<1>10. LossWakes'
  BY <1>1, <1>2 DEF IndInv, LossWakes, Idle
<1>11. QED
  BY <1>3, <1>4, <1>5, <1>6, <1>7, <1>8, <1>9, <1>10 DEF IndInv

\* A call that passes the status check draws its request id; one that does
\* not returns NotLive.
LEMMA BeginsCall ==
    ASSUME IndInv, NEW c \in Callers, NEW k \in Kinds, Call(c, k)
    PROVE  IndInv'
<1>1. /\ UNCHANGED <<status, engine, sock, ready, outbound, announced>>
      /\ UNCHANGED <<pending, inbox, answers, executed, queue, result>>
      /\ nextId' = nextId + 1 /\ nextId \in Ids
      /\ call[c].at = "idle"
  BY CommandsAssumption DEF Call, engineVars, serverVars, IndInv, Typed, Ids
<1>2. /\ ~Sent(nextId)
      /\ \A i : Sent(i)' <=> Sent(i)
  BY <1>1 DEF Sent, IndInv, Sending, Typed
<1>3. /\ Sockets' /\ Capacity'
  BY <1>1 DEF IndInv, Sockets, Capacity
<1>4. CASE MayBegin(k)
  <2>1. /\ call'[c] = [at |-> "insert", id |-> nextId, kind |-> k, chan |-> 0]
        /\ \A d \in Callers : d # c => call'[d] = call[d]
        /\ UNCHANGED returned
    BY <1>4 DEF Call, IndInv, Typed
  <2>2. Typed'
    <3>1. call' \in [Callers -> [at : {"idle", "insert", "outbound", "send", "wait"},
                                 id : Nat, kind : Kinds, chan : Nat]]
      BY <1>4 DEF IndInv, Typed, Call
    <3>2. nextId' \in Nat \ {0}
      BY <1>1 DEF IndInv, Typed
    <3>3. QED
      BY <1>1, <2>1, <3>1, <3>2 DEF IndInv, Typed
  <2>3. OwnIds'
    <3>1. \A d \in Callers : call[d].at # "idle" => call[d].id < nextId'
      BY <1>1 DEF IndInv, OwnIds, Typed
    <3>2. \A d \in Callers : call[d].at # "idle" => call[d].id # nextId
      BY <1>1 DEF IndInv, OwnIds, Typed
    <3>3. returned[nextId] = "none" /\ nextId < nextId'
      BY <1>1 DEF IndInv, OwnIds, Typed
    <3>4. \A i \in Ids : i >= nextId' => returned'[i] = "none"
      BY <1>1, <2>1 DEF IndInv, OwnIds, Typed, Ids
    <3>5. QED
      BY <1>1, <2>1, <3>1, <3>2, <3>3, <3>4 DEF IndInv, OwnIds
  <2>4. Waiters'
    BY <1>1, <2>1 DEF IndInv, Waiters, InFlight
  <2>5. Sending'
    <3>1. \A i \in Ids : Sent(i) => i < nextId'
      BY <1>1 DEF IndInv, Sending, Typed, Ids
    <3>2. QED
      BY <1>1, <1>2, <2>1, <3>1 DEF IndInv, Sending
  <2>6. Honest'
    BY <1>1, <2>1 DEF IndInv, Honest
  <2>7. LossWakes'
    BY <1>1, <2>1 DEF IndInv, LossWakes
  <2>8. QED
    BY <1>3, <2>2, <2>3, <2>4, <2>5, <2>6, <2>7 DEF IndInv
<1>5. CASE ~MayBegin(k)
  <2>1. /\ UNCHANGED call
        /\ returned' = [returned EXCEPT ![nextId] = "NotLive"]
    BY <1>5 DEF Call
  <2>2. Typed'
    <3>1. returned' \in [Ids -> Returns]
      BY <2>1 DEF IndInv, Typed, Returns
    <3>2. nextId' \in Nat \ {0}
      BY <1>1 DEF IndInv, Typed
    <3>3. QED
      BY <1>1, <2>1, <3>1, <3>2 DEF IndInv, Typed
  <2>3. /\ \A i \in Ids : i # nextId => returned'[i] = returned[i]
        /\ returned'[nextId] = "NotLive"
    BY <1>1, <2>1 DEF IndInv, Typed
  <2>4. OwnIds'
    BY <1>1, <2>1, <2>3 DEF IndInv, OwnIds, Typed, Ids
  <2>5. Waiters'
    BY <1>1, <2>1 DEF IndInv, Waiters, InFlight
  <2>6. Sending'
    <3>1. \A i \in Ids : Sent(i) => i # nextId /\ i < nextId'
      BY <1>1, <1>2 DEF IndInv, Sending, Typed, Ids
    <3>2. QED
      BY <1>1, <1>2, <2>1, <2>3, <3>1 DEF IndInv, Sending
  <2>7. Honest'
    BY <1>1, <2>1, <2>3 DEF IndInv, Honest
  <2>8. LossWakes'
    BY <1>1, <2>1 DEF IndInv, LossWakes
  <2>9. QED
    BY <1>3, <2>2, <2>4, <2>5, <2>6, <2>7, <2>8 DEF IndInv
<1>6. QED
  BY <1>4, <1>5

\* The waiter is reserved.
LEMMA InsertsWaiter ==
    ASSUME IndInv, NEW c \in Callers, Insert(c)
    PROVE  IndInv'
<1> DEFINE id == call[c].id
<1>0. /\ id \in Ids /\ call[c].at = "insert" /\ ~Sent(id)
      /\ id \notin pending
  BY DEF IndInv, OwnIds, Sending, Waiters, Insert, InFlight
<1>1. CASE Cardinality(pending) >= MaxPending
  <2>1. Ends(c, "Full")
    BY <1>0, <1>1 DEF Insert, Ends
  <2>2. UNCHANGED <<engineVars, nextId, serverVars, queue, result>>
    BY DEF Insert
  <2>3. QED
    BY <1>0, <2>1, <2>2, EndsCall DEF Returns
<1>2. CASE ~(Cardinality(pending) >= MaxPending)
  <2>1. /\ UNCHANGED <<status, engine, sock, ready, outbound, announced>>
        /\ UNCHANGED <<nextId, inbox, answers, executed, queue, result, returned>>
        /\ pending' = pending \cup {id}
        /\ call' = [call EXCEPT ![c].at = "outbound"]
    BY <1>2 DEF Insert, engineVars, serverVars, At
  <2>2. /\ call'[c].id = id /\ call'[c].at = "outbound"
        /\ \A d \in Callers : d # c => call'[d] = call[d]
        /\ \A d \in Callers : call'[d].id = call[d].id
    BY <2>1 DEF IndInv, Typed
  <2>3. Typed'
    BY <2>1 DEF IndInv, Typed
  <2>4. Sockets' /\ Honest'
    BY <2>1 DEF IndInv, Sockets, Honest
  <2>5. OwnIds'
    BY <1>0, <2>1, <2>2 DEF IndInv, OwnIds
  <2>6. Waiters'
    <3>1. \A d \in Callers : InFlight(d) => InFlight(d)'
      BY <1>0, <2>2 DEF InFlight
    <3>2. InFlight(c)'
      BY <2>2 DEF InFlight
    <3>3. \A d \in Callers : InFlight(d)' => d = c \/ InFlight(d)
      BY <2>2 DEF InFlight
    <3>4. QED
      BY <1>0, <2>1, <2>2, <3>1, <3>2, <3>3 DEF IndInv, Waiters
  <2>7. Capacity'
    <3>1. /\ IsFiniteSet(pending') /\ Cardinality(pending') = Cardinality(pending) + 1
          /\ Cardinality(pending) \in Nat
      BY <1>0, <2>1, FS_AddElement, FS_CardinalityType DEF IndInv, Capacity
    <3>2. QED
      BY <1>2, <3>1, CommandsAssumption DEF Capacity
  <2>8. Sending'
    <3>1. \A i : Sent(i)' <=> Sent(i)
      BY <2>1 DEF Sent
    <3>2. QED
      BY <1>0, <2>1, <2>2, <3>1 DEF IndInv, Sending
  <2>9. LossWakes'
    BY <2>1, <2>2 DEF IndInv, LossWakes
  <2>10. QED
    BY <2>3, <2>4, <2>5, <2>6, <2>7, <2>8, <2>9 DEF IndInv
<1>3. QED
  BY <1>1, <1>2

\* The sender is cloned.
LEMMA TakesOutbound ==
    ASSUME IndInv, NEW c \in Callers, TakeOutbound(c)
    PROVE  IndInv'
<1>0. /\ call[c].at = "outbound" /\ ~Sent(call[c].id)
      /\ UNCHANGED <<engineVars, nextId, serverVars, queue, result>>
  BY DEF IndInv, Sending, TakeOutbound
<1>1. CASE outbound = 0
  <2>1. Ends(c, "NotLive")
    BY <1>1 DEF TakeOutbound
  <2>2. QED
    BY <1>0, <2>1, EndsCall DEF Returns
<1>2. CASE outbound # 0
  <2>1. /\ UNCHANGED <<status, engine, sock, ready, outbound, announced>>
        /\ UNCHANGED <<nextId, inbox, answers, executed, queue, result, returned, pending>>
    BY <1>0, <1>2 DEF TakeOutbound, engineVars, serverVars
  <2>2. /\ call' = [call EXCEPT ![c].at = "send", ![c].chan = outbound]
        /\ outbound \in Nat
    BY <1>2 DEF IndInv, Sockets, Typed, TakeOutbound
  <2>3. /\ call'[c].at = "send"
        /\ \A d \in Callers : d # c => call'[d] = call[d]
        /\ \A d \in Callers : call'[d].id = call[d].id
    BY <2>2 DEF IndInv, Typed
  <2>4. Typed'
    BY ZenonT(60), <2>1, <2>2 DEF IndInv, Typed
  <2>5. Sockets' /\ Honest' /\ Capacity'
    BY <2>1 DEF IndInv, Sockets, Honest, Capacity
  <2>6. OwnIds'
    <3>1. \A d \in Callers : call'[d].at # "idle" => call[d].at # "idle"
      BY <1>0, <2>3
    <3>2. QED
      BY <2>1, <2>3, <3>1 DEF IndInv, OwnIds
  <2>7. Waiters'
    <3>1. \A d \in Callers : InFlight(d)' <=> InFlight(d)
      BY <1>0, <2>3 DEF InFlight
    <3>2. QED
      BY <2>1, <2>3, <3>1 DEF IndInv, Waiters
  <2>8. Sending'
    <3>1. \A i : Sent(i)' <=> Sent(i)
      BY <2>1 DEF Sent
    <3>2. QED
      BY <1>0, <2>1, <2>3, <3>1 DEF IndInv, Sending
  <2>9. LossWakes'
    BY <2>1, <2>3 DEF IndInv, LossWakes
  <2>10. QED
    BY <2>4, <2>5, <2>6, <2>7, <2>8, <2>9 DEF IndInv
<1>3. QED
  BY <1>1, <1>2

\* The frame is queued on a socket that is up.
LEMMA Enqueues ==
    ASSUME IndInv, NEW c \in Callers, Enqueue(c)
    PROVE  IndInv'
<1> DEFINE id == call[c].id
           frame == [id |-> call[c].id, kind |-> call[c].kind]
<1>0. /\ call[c].at = "send" /\ id \in Ids /\ id < nextId /\ returned[id] = "none"
      /\ call[c].chan = sock /\ engine \in {"up", "busy"}
      /\ frame \in Frames
  BY DEF IndInv, OwnIds, Typed, Enqueue, Open, Frames
<1>1. /\ UNCHANGED <<status, engine, sock, ready, outbound, announced>>
      /\ UNCHANGED <<nextId, inbox, answers, executed, result, returned, pending>>
      /\ queue' = Append(queue, frame) /\ Len(queue) < MaxPending + Slack
      /\ call' = [call EXCEPT ![c].at = "wait"]
  BY DEF Enqueue, engineVars, serverVars, At
<1>2. /\ call'[c].at = "wait"
      /\ \A d \in Callers : d # c => call'[d] = call[d]
      /\ \A d \in Callers : call'[d].id = call[d].id /\ call'[d].chan = call[d].chan
  BY <1>1 DEF IndInv, Typed
<1>3. Typed'
  <2>1. queue' \in Seq(Frames) /\ Len(queue') <= MaxPending + Slack
    BY <1>0, <1>1, AppendIds, CommandsAssumption DEF IndInv, Typed
  <2>2. call' \in [Callers -> [at : {"idle", "insert", "outbound", "send", "wait"},
                               id : Nat, kind : Kinds, chan : Nat]]
    BY <1>1 DEF IndInv, Typed
  <2>3. QED
    BY <1>1, <2>1, <2>2 DEF IndInv, Typed
<1>4. Sockets' /\ Honest' /\ Capacity'
  BY <1>1 DEF IndInv, Sockets, Honest, Capacity
<1>5. OwnIds'
  BY <1>0, <1>1, <1>2 DEF IndInv, OwnIds
<1>6. Waiters'
  <2>1. \A d \in Callers : InFlight(d)' <=> InFlight(d)
    BY <1>0, <1>2 DEF InFlight
  <2>2. QED
    BY <1>1, <1>2, <2>1 DEF IndInv, Waiters
<1>7. Sending'
  <2>1. \A i : Sent(i)' <=> i = id \/ Sent(i)
    <3>1. \A i : (\E k \in DOMAIN queue' : queue'[k].id = i)
                   <=> i = id \/ \E k \in DOMAIN queue : queue[k].id = i
      <4>1. frame.id = id /\ queue \in Seq(Frames)
        BY DEF IndInv, Typed
      <4> HIDE DEF frame, id
      <4>2. QED
        BY <1>0, <1>1, <4>1, AppendIds
    <3>2. QED
      BY <1>1, <3>1 DEF Sent
  <2>2. \A d \in Callers : call'[d].at \in {"insert", "outbound", "send"}
          => d # c /\ call'[d] = call[d] /\ call[d].id # id
    BY <1>0, <1>2 DEF IndInv, OwnIds
  <2>3. QED
    BY <1>0, <1>1, <2>1, <2>2 DEF IndInv, Sending
<1>8. LossWakes'
  BY <1>0, <1>1, <1>2 DEF IndInv, LossWakes
<1>9. QED
  BY <1>3, <1>4, <1>5, <1>6, <1>7, <1>8 DEF IndInv

\* A step of the engine task that leaves the calls and their waiters alone; it
\* may drop the queue and what is under way on the socket.
LEMMA EngineStep ==
    ASSUME IndInv,
           UNCHANGED <<callVars, executed, pending, result>>,
           status' \in {"Connecting", "Reconnecting", "Ready", "Syncing", "Live", "Closed"},
           engine' \in {"down", "opening", "up", "busy", "clearing", "draining",
                        "cleared", "waiting", "ended"},
           sock' \in Nat, ready' \in Nat, announced' \in Nat,
           queue' \in {queue, <<>>}, inbox' \subseteq inbox, answers' \subseteq answers,
           Sockets', LossWakes'
    PROVE  IndInv'
<1>1. UNCHANGED <<call, nextId, returned>>
  BY DEF callVars
<1>2. queue' \in Seq(Frames) /\ Len(queue') <= MaxPending + Slack
  <2>1. <<>> \in Seq(Frames) /\ Len(<<>>) = 0 /\ 0 <= MaxPending + Slack
    BY CommandsAssumption
  <2>2. QED
    BY <2>1 DEF IndInv, Typed
<1>3. Typed'
  BY <1>1, <1>2 DEF IndInv, Typed
<1>4. OwnIds' /\ Waiters' /\ Capacity' /\ Honest'
  BY <1>1 DEF IndInv, OwnIds, Waiters, InFlight, Capacity, Honest
<1>5. \A i : Sent(i)' => Sent(i)
  BY DEF Sent
<1>6. Sending'
  BY <1>1, <1>5 DEF IndInv, Sending
<1>7. QED
  BY <1>3, <1>4, <1>6 DEF IndInv

\* The waiters are completed with Closed, by clear_socket_state.
LEMMA Drains ==
    ASSUME IndInv, UNCHANGED <<callVars, serverVars, queue, sock, announced>>,
           pending' = {},
           result' = [i \in Ids |-> IF i \in pending THEN "Closed" ELSE result[i]],
           status' \in {"Connecting", "Reconnecting", "Ready", "Syncing", "Live", "Closed"},
           ready' = 0, outbound' = 0,
           engine' \in {"cleared", "ended"}
    PROVE  IndInv'
<1>1. UNCHANGED <<call, nextId, returned, inbox, answers, executed>>
  BY DEF callVars, serverVars
<1>2. Typed'
  BY <1>1 DEF IndInv, Typed, Results
<1>3. Sockets'
  BY DEF IndInv, Sockets
<1>4. OwnIds'
  BY <1>1 DEF IndInv, OwnIds
<1>5. \A c \in Callers : InFlight(c) => result'[call[c].id] # "none"
  BY DEF IndInv, Waiters, OwnIds, InFlight
<1>6. Waiters'
  BY <1>1, <1>5 DEF Waiters, InFlight
<1>7. Capacity'
  BY FS_EmptySet, CommandsAssumption DEF Capacity
<1>8. Sending'
  BY <1>1 DEF IndInv, Sending, Sent
<1>9. Honest'
  BY <1>1 DEF IndInv, Honest
<1>10. LossWakes'
  BY <1>1, <1>5 DEF LossWakes, InFlight
<1>11. QED
  BY <1>2, <1>3, <1>4, <1>6, <1>7, <1>8, <1>9, <1>10 DEF IndInv

\* A queued frame reaches the server.
LEMMA Forwards ==
    ASSUME IndInv, Forward
    PROVE  IndInv'
<1>1. /\ UNCHANGED <<status, engine, sock, ready, outbound, announced>>
      /\ UNCHANGED <<call, nextId, returned, answers, executed, pending, result>>
      /\ queue # <<>> /\ queue' = Tail(queue) /\ inbox' = inbox \cup {Head(queue).id}
  BY DEF Forward, engineVars, callVars
<1>2. /\ queue' \in Seq(Frames) /\ Len(queue') <= Len(queue) /\ Head(queue).id \in Ids
      /\ \E k \in DOMAIN queue : queue[k].id = Head(queue).id
      /\ \A i : (\E k \in DOMAIN queue' : queue'[k].id = i)
                  => \E k \in DOMAIN queue : queue[k].id = i
  <2>1. queue \in Seq(Frames)
    BY DEF IndInv, Typed
  <2>2. Head(queue) \in Frames => Head(queue).id \in Ids
    BY DEF Frames
  <2>3. QED
    BY <1>1, <2>1, <2>2, TailIds
<1>3. Typed'
  <2>1. Len(queue') <= MaxPending + Slack
    BY <1>2, CommandsAssumption DEF IndInv, Typed
  <2>2. QED
    BY <1>1, <1>2, <2>1 DEF IndInv, Typed
<1>4. Sockets' /\ Honest' /\ Capacity' /\ OwnIds' /\ Waiters' /\ LossWakes'
  BY <1>1 DEF IndInv, Sockets, Honest, Capacity, OwnIds, Waiters, InFlight, LossWakes
<1>5. \A i : Sent(i)' => Sent(i)
  BY <1>1, <1>2 DEF Sent
<1>6. Sending'
  BY <1>1, <1>2, <1>5 DEF IndInv, Sending
<1>7. QED
  BY <1>3, <1>4, <1>6 DEF IndInv

\* An answer completes the waiter of its request, if there is one.
LEMMA Resolves ==
    ASSUME IndInv, TakeAnswer
    PROVE  IndInv'
<1>1. PICK a \in answers : /\ answers' = answers \ {a}
                           /\ ResolvePending(a.id, a.outcome)
  BY DEF TakeAnswer
<1>2. /\ UNCHANGED <<status, engine, sock, ready, outbound, announced>>
      /\ UNCHANGED <<call, nextId, returned, inbox, executed, queue>>
  BY DEF TakeAnswer, engineVars, callVars
<1>3. /\ a.id \in Ids /\ a.outcome \in Outcomes
      /\ a.outcome = "ok" => a.id \in executed
  BY DEF IndInv, Sending, Honest
<1>4. \A i : Sent(i)' => Sent(i)
  BY <1>1, <1>2 DEF Sent
<1>5. Sockets' /\ OwnIds' /\ Sending'
  BY <1>1, <1>2, <1>4 DEF IndInv, Sockets, OwnIds, Sending
<1>6. CASE a.id \in pending
  <2>1. pending' = pending \ {a.id} /\ result' = [result EXCEPT ![a.id] = a.outcome]
    BY <1>1, <1>6 DEF ResolvePending
  <2>2. /\ result'[a.id] = a.outcome /\ a.outcome # "none"
        /\ \A i \in Ids : i # a.id => result'[i] = result[i]
    BY <1>3, <2>1 DEF IndInv, Typed, Outcomes
  <2>3. Typed'
    BY <1>2, <1>3, <2>1 DEF IndInv, Typed, Results
  <2>4. Waiters'
    <3>1. \A c \in Callers : InFlight(c)' <=> InFlight(c)
      BY <1>2 DEF InFlight
    <3>2. \A c \in Callers : InFlight(c) => call[c].id \in Ids
      BY DEF IndInv, OwnIds, InFlight
    <3>3. QED
      BY <1>2, <2>1, <2>2, <3>1, <3>2 DEF IndInv, Waiters
  <2>5. Capacity'
    <3>1. /\ IsFiniteSet(pending') /\ Cardinality(pending') <= Cardinality(pending)
          /\ Cardinality(pending) \in Nat /\ Cardinality(pending') \in Nat
      BY <2>1, FS_Subset, FS_CardinalityType DEF IndInv, Capacity
    <3>2. QED
      BY <3>1, CommandsAssumption DEF IndInv, Capacity
  <2>6. Honest'
    BY <1>1, <1>2, <1>3, <2>2 DEF IndInv, Honest
  <2>7. LossWakes'
    <3>1. \A c \in Callers : call[c].at = "wait" => call[c].id \in Ids
      BY DEF IndInv, OwnIds
    <3>2. QED
      BY <1>2, <2>2, <3>1 DEF IndInv, LossWakes
  <2>8. QED
    BY <1>5, <2>3, <2>4, <2>5, <2>6, <2>7 DEF IndInv
<1>7. CASE a.id \notin pending
  <2>1. UNCHANGED <<pending, result>>
    BY <1>1, <1>7 DEF ResolvePending
  <2>2. Typed' /\ Waiters' /\ Capacity' /\ Honest' /\ LossWakes'
    BY <1>1, <1>2, <2>1
       DEF IndInv, Typed, Waiters, InFlight, Capacity, Honest, LossWakes
  <2>3. QED
    BY <1>5, <2>2 DEF IndInv
<1>8. QED
  BY <1>6, <1>7

\* The server executes a request it received, and answers it.
LEMMA ServerAnswers ==
    ASSUME IndInv, Serves
    PROVE  IndInv'
<1>1. PICK id \in inbox, outcome \in Outcomes :
         /\ inbox' = inbox \ {id}
         /\ answers' = answers \cup {[id |-> id, outcome |-> outcome]}
         /\ executed' = IF outcome = "ok" THEN executed \cup {id} ELSE executed
  BY DEF Serves
<1>2. /\ UNCHANGED <<status, engine, sock, ready, outbound, announced>>
      /\ UNCHANGED <<call, nextId, returned, queue, pending, result>>
  BY DEF Serves, engineVars, callVars
<1>3. Typed' /\ Sockets' /\ Capacity' /\ OwnIds' /\ Waiters' /\ LossWakes'
  BY <1>2 DEF IndInv, Typed, Sockets, Capacity, OwnIds, Waiters, InFlight, LossWakes
<1>4. \A i : Sent(i)' => Sent(i)
  BY <1>1, <1>2 DEF Sent
<1>5. Sending'
  <2>1. /\ inbox' \subseteq Ids /\ executed' \subseteq Ids
        /\ answers' \subseteq [id : Ids, outcome : Outcomes]
    BY <1>1 DEF IndInv, Sending
  <2>2. QED
    BY <1>2, <1>4, <2>1 DEF IndInv, Sending
<1>6. Honest'
  <2>1. executed \subseteq executed' /\ (outcome = "ok" => id \in executed')
    BY <1>1
  <2>2. QED
    BY <1>1, <1>2, <2>1 DEF IndInv, Honest
<1>7. QED
  BY <1>3, <1>5, <1>6 DEF IndInv

------------------------------------------------------------------------------
\* No socket, no call, empty tables: the invariant holds at the start.
LEMMA Initially == Init => IndInv
<1> SUFFICES ASSUME Init PROVE IndInv
  OBVIOUS
<1>1. Typed
  BY CommandsAssumption DEF Init, Typed, Idle, Kinds, Returns
<1>2. Sockets /\ OwnIds /\ Waiters /\ LossWakes
  BY DEF Init, Sockets, OwnIds, Waiters, LossWakes, InFlight, Idle
<1>3. Capacity
  BY FS_EmptySet, CommandsAssumption DEF Init, Capacity
<1>4. \A i : ~Sent(i)
  BY DEF Init, Sent
<1>5. Sending /\ Honest
  BY <1>4 DEF Init, Sending, Honest
<1>6. QED
  BY <1>1, <1>2, <1>3, <1>5 DEF IndInv

\* Every step of a caller, of the owner task and of the server keeps it.
LEMMA Step ==
    ASSUME IndInv, [Next]_vars
    PROVE  IndInv'
<1>1. ASSUME NEW c \in Callers, NEW k \in Kinds, Call(c, k) PROVE IndInv'
  BY <1>1, BeginsCall
<1>2. ASSUME NEW c \in Callers, Insert(c) PROVE IndInv'
  BY <1>2, InsertsWaiter
<1>3. ASSUME NEW c \in Callers, TakeOutbound(c) PROVE IndInv'
  BY <1>3, TakesOutbound
<1>4. ASSUME NEW c \in Callers, Enqueue(c) PROVE IndInv'
  BY <1>4, Enqueues
<1>5. ASSUME NEW c \in Callers, EnqueueFails(c) PROVE IndInv'
  BY <1>5, EndsCall DEF EnqueueFails, Returns, Results
<1>6. ASSUME NEW c \in Callers, Answered(c) PROVE IndInv'
  <2>1. /\ call[c].at = "wait" /\ Ends(c, result[call[c].id])
        /\ UNCHANGED <<engineVars, nextId, serverVars, queue, result>>
    BY <1>6 DEF Answered
  <2>2. call[c].id \in Ids
    BY <2>1 DEF IndInv, OwnIds
  <2>3. result[call[c].id] \in Results
    BY <1>6, <2>2 DEF Answered, IndInv, Typed
  <2>4. result[call[c].id] = "ok" => call[c].id \in executed
    BY <2>2 DEF IndInv, Honest
  <2>5. result[call[c].id] \in Returns /\ result[call[c].id] \notin {"NotLive", "Full"}
    BY <2>3 DEF Returns, Results, Outcomes
  <2>6. QED
    BY <2>1, <2>4, <2>5, EndsCall
<1>7. ASSUME NEW c \in Callers, Expires(c) PROVE IndInv'
  BY <1>7, EndsCall DEF Expires, Returns
<1>8. ASSUME NEW c \in Callers, Cancel(c) PROVE IndInv'
  BY <1>8, EndsCall DEF Cancel, Returns
<1>9. CASE SocketReady
  BY <1>9, EngineStep DEF SocketReady, serverVars, IndInv, Typed, Sockets, LossWakes, callVars
<1>10. CASE InstallOutbound
  BY <1>10, EngineStep DEF InstallOutbound, serverVars, IndInv, Typed, Sockets, LossWakes, callVars
<1>11. CASE HelloSent \/ ReplayEnds \/ ResyncBegins \/ ResyncEnds
  BY <1>11, EngineStep
     DEF HelloSent, ReplayEnds, ResyncBegins, ResyncEnds, serverVars, IndInv, Typed,
         Sockets, LossWakes, callVars
<1>12. CASE SocketEnds
  BY <1>12, EngineStep DEF SocketEnds, IndInv, Typed, Sockets, LossWakes, callVars
<1>13. CASE ClearOutbound
  BY <1>13, EngineStep DEF ClearOutbound, serverVars, IndInv, Typed, Sockets, LossWakes, callVars
<1>14. CASE DrainPending
  BY <1>14, Drains DEF DrainPending, IndInv, Typed, Sockets
<1>15. CASE Announce
  BY <1>15, EngineStep DEF Announce, serverVars, IndInv, Typed, Sockets, LossWakes, callVars
<1>16. CASE Retries
  BY <1>16, EngineStep DEF Retries, serverVars, IndInv, Typed, Sockets, LossWakes, callVars
<1>17. CASE Finishes
  BY <1>17, Drains DEF Finishes
<1>18. CASE Close
  BY <1>18, EngineStep DEF Close, serverVars, IndInv, Typed, Sockets, LossWakes, callVars
<1>19. CASE Forward
  BY <1>19, Forwards
<1>20. CASE TakeAnswer
  BY <1>20, Resolves
<1>21. CASE Serves
  BY <1>21, ServerAnswers
<1>22. CASE UNCHANGED vars
  BY <1>22, EngineStep
     DEF vars, engineVars, serverVars, IndInv, Typed, Sockets, LossWakes, callVars
<1>23. QED
  BY <1>1, <1>2, <1>3, <1>4, <1>5, <1>6, <1>7, <1>8, <1>9, <1>10, <1>11, <1>12, <1>13,
     <1>14, <1>15, <1>16, <1>17, <1>18, <1>19, <1>20, <1>21, <1>22
     DEF Next, Progress, Clears

\* The invariant holds throughout.
LEMMA Invariance == Spec => []IndInv
BY Initially, Step, PTL DEF Spec

\* Every waiter belongs to a call in flight, and the waiter table and the
\* outbound queue keep to their capacity.
THEOREM TablesBounded == Spec => []TypeOK
<1>1. IndInv => TypeOK
  BY DEF IndInv, Typed, Sockets, Waiters, Capacity, TypeOK
<1>2. QED
  BY <1>1, Invariance, PTL

\* connection.rs:215: whatever the order in which calls take the sender, queue
\* and wait while sockets are cleared and opened again, no call is left waiting
\* for an answer of a socket that is gone.
THEOREM LossAlwaysWakes == Spec => []LossWakes
<1>1. IndInv => LossWakes
  BY DEF IndInv
<1>2. QED
  BY <1>1, Invariance, PTL

\* engine.rs:66: a call returns the answer of its own request, and a call that
\* reports it was not sent was not.
THEOREM AnswersCorrelated == Spec => []OwnAnswer
<1>1. IndInv => OwnAnswer
  BY DEF IndInv, Honest, Sending, Sent, OwnAnswer
<1>2. QED
  BY <1>1, Invariance, PTL

\* engine.rs:47: the identity and lease of a socket are withdrawn before its
\* loss is announced.
THEOREM IdentityWithdrawnFirst == Spec => []IdentityFirst
<1>1. IndInv => IdentityFirst
  BY DEF IndInv, Sockets, IdentityFirst
<1>2. QED
  BY <1>1, Invariance, PTL

==============================================================================
