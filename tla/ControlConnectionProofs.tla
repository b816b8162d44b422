----------------------- MODULE ControlConnectionProofs -----------------------
(***************************************************************************)
(* Theorems about ControlConnection, for any log length, queue limit and   *)
(* number of faults and reconnects.  The publication barrier holds with    *)
(* any server; what is said of the projection and of the resume cursor     *)
(* assumes the order that OrderedServer names.                             *)
(***************************************************************************)
EXTENDS ControlConnection, TLAPS

(***************************************************************************)
(* The inductive invariant behind LiveBarrier.  `Settled(q)' says what     *)
(* applying the accepted events q will come to: either the projection      *)
(* reaches the GEID the machine accepted, or an event of q is already      *)
(* behind the projection and apply_event will refuse it.                   *)
(***************************************************************************)
Settled(q) ==
    \/ q = <<>> /\ machine.geid = store.geid
    \/ q # <<>> /\ q[Len(q)] = machine.geid
    \/ \E i \in DOMAIN q : q[i] <= store.geid

Fresh == machine.queued = <<>> /\ machine.geid = store.geid

AtRecv ==
    \/ machine.phase = "Live" /\ Fresh
    \/ machine.phase = "Syncing" /\ status # "Live" /\ Settled(machine.queued)

AtApply ==
    \/ /\ goLive /\ machine.phase = "Live" /\ machine.queued = <<>>
       /\ status # "Live" /\ Settled(todo)
    \/ /\ ~goLive /\ machine.phase = "Live" /\ machine.queued = <<>>
       /\ \/ todo = <<>> /\ machine.geid = store.geid
          \/ todo = <<machine.geid>>
    \/ /\ ~goLive /\ machine.phase = "Syncing" /\ status # "Live"
       /\ \/ todo = <<>> /\ Settled(machine.queued)
          \/ todo # <<>> /\ todo[Len(todo)] = machine.geid

BarrierInv ==
    /\ pc # "apply" => todo = <<>> /\ ~goLive
    /\ \A i \in DOMAIN machine.queued : machine.queued[i] <= machine.geid
    /\ pc = "ready" => Fresh
    /\ pc = "hello" => Fresh /\ machine.phase = "Syncing"
    /\ pc = "recv" => AtRecv
    /\ pc = "apply" => AtApply
    /\ pc = "snapshot" => status = "Syncing"


------------------------------------------------------------------------------
(***************************************************************************)
(* Types.                                                                  *)
(***************************************************************************)

\* Visible events are positions of the log.
LEMMA VisibleType ==
    ASSUME NEW lo \in Nat, NEW hi \in Nat
    PROVE  Visible(lo, hi) \in SUBSET Nat
BY DEF Visible

\* Stated once for the prover, which does not find it below an EXCEPT.
LEMMA EmptyQueue == <<>> \in Seq(Nat)
OBVIOUS

\* Rebinding and beginning a sync keep a machine a machine.
LEMMA MachineTypes ==
    ASSUME NEW m \in Machines, NEW st \in Stores, NEW c \in Nat
    PROVE  /\ New(st) \in Machines
           /\ NoMachine \in Machines
           /\ BeginConnecting(m) \in Machines
           /\ BeginSync(m) \in Machines
           /\ AcceptReady(m) \in Machines
           /\ RequireSnapshot(m) \in Machines
           /\ ReplaceSnapshot(m, st) \in Machines
           /\ AcceptLiveEvent(m, c) \in Machines
           /\ AcceptComplete(m, c) \in Machines
<1> USE EmptyQueue DEF Machines, Phases
<1>1. New(st) \in Machines
  BY DEF Stores, New
<1>2. NoMachine \in Machines
  BY DEF NoMachine, New
<1>3. /\ BeginConnecting(m) \in Machines
      /\ BeginSync(m) \in Machines
      /\ AcceptReady(m) \in Machines
      /\ RequireSnapshot(m) \in Machines
  BY DEF BeginConnecting, BeginSync, AcceptReady, RequireSnapshot
<1>4. ReplaceSnapshot(m, st) \in Machines
  <2>1. st.cursor \in Nat /\ st.geid \in Nat
    BY DEF Stores
  <2>2. QED
    BY <2>1 DEF ReplaceSnapshot
<1>5. AcceptLiveEvent(m, c) \in Machines
  <2>1. m.queued \in Seq(Nat) /\ Append(m.queued, c) \in Seq(Nat)
    OBVIOUS
  <2>2. QED
    BY <2>1 DEF AcceptLiveEvent
<1>6. AcceptComplete(m, c) \in Machines
  BY DEF AcceptComplete
<1>7. QED
  BY <1>1, <1>2, <1>3, <1>4, <1>5, <1>6

\* A server step leaves the client alone and keeps the server's types.
LEMMA ServerTypes ==
    ASSUME TypeOK, Server
    PROVE  TypeOK'
<1> USE DEF TypeOK
<1>1. ASSUME NEW k \in Kinds, Commit(k) PROVE TypeOK'
  BY <1>1 DEF Commit, taskVars, innerVars
<1>2. CASE ServerHello
  BY <1>2 DEF ServerHello, taskVars, innerVars
<1> DEFINE Sessions == [mode : {"replay", "live"}, next : Nat \ {0},
                           high : Nat, live : Nat]
<1>b. ASSUME session.mode # "none" PROVE session \in Sessions
  BY <1>b DEF NoSession
<1>3. CASE ServerReplay
  <2>0. PICK n \in 1..MaxLog : \E events \in [1..n -> Unsent] :
           /\ toClient' = Append(toClient,
                 [t |-> "replay", from |-> events[1], to |-> events[n],
                  events |-> events])
           /\ session' = [session EXCEPT !.next = events[n] + 1]
    BY <1>3 DEF ServerReplay
  <2>1. PICK events \in [1..n -> Unsent] :
           /\ toClient' = Append(toClient,
                 [t |-> "replay", from |-> events[1], to |-> events[n],
                  events |-> events])
           /\ session' = [session EXCEPT !.next = events[n] + 1]
    BY <2>0
  <2>2. session \in Sessions
    BY <1>b, <2>1, <1>3 DEF Unsent
  <2>3. Unsent \in SUBSET Nat
    BY <2>2, VisibleType DEF Unsent
  <2>4. n \in Nat /\ 1 \in 1..n /\ n \in 1..n
    BY BoundsAssumption DEF BoundsAssumption
  <2>8. events \in [1..n -> Nat]
    BY <2>3
  <2>9. events \in Seq(Nat)
    BY <2>4, <2>8
  <2>10. events[1] \in Nat /\ events[n] \in Nat /\ events[n] + 1 \in Nat \ {0}
    BY <2>4, <2>8
  <2>5. toClient' \in Seq(Frames)
    BY <2>1, <2>9, <2>10 DEF Frames
  <2>6. session' \in Sessions
    BY <2>1, <2>2, <2>10
  <2>7. QED
    BY <1>3, <2>5, <2>6 DEF ServerReplay, taskVars, innerVars
<1>4. CASE ServerEmptyReplay
  <2>1. session \in Sessions
    BY <1>4, <1>b DEF ServerEmptyReplay
  <2>2. toClient' \in Seq(Frames)
    BY <1>4, <2>1 DEF ServerEmptyReplay, Frames
  <2>5. session.high + 1 \in Nat \ {0}
    BY <2>1
  <2>3. session' \in Sessions
    BY <1>4, <2>1, <2>5 DEF ServerEmptyReplay
  <2>4. QED
    BY <1>4, <2>2, <2>3 DEF ServerEmptyReplay, taskVars, innerVars
<1>5. CASE ServerComplete
  <2>1. session \in Sessions
    BY <1>5, <1>b DEF ServerComplete
  <2>2. toClient' \in Seq(Frames)
    BY <1>5, <2>1 DEF ServerComplete, Frames
  <2>3. session' \in Sessions
    BY <1>5, <2>1 DEF ServerComplete
  <2>4. QED
    BY <1>5, <2>2, <2>3 DEF ServerComplete, taskVars, innerVars
<1>6. CASE ServerLive
  <2>1. session \in Sessions
    BY <1>6, <1>b DEF ServerLive
  <2>2. PICK g \in Visible(session.live + 1, Len(log)) :
           /\ toClient' = Append(toClient, [t |-> "event", geid |-> g])
           /\ session' = [session EXCEPT !.live = g]
    BY <1>6 DEF ServerLive
  <2>3. g \in Nat
    BY <2>1 DEF Visible
  <2>4. toClient' \in Seq(Frames)
    BY <2>2, <2>3 DEF Frames
  <2>5. session' \in Sessions
    BY <2>1, <2>2, <2>3
  <2>6. QED
    BY <1>6, <2>4, <2>5 DEF ServerLive, taskVars, innerVars
<1>7. CASE ServerPush
  <2>3. [t |-> "required"] \in Frames /\ [t |-> "state_unknown"] \in Frames
    BY DEF Frames
  <2>4. /\ Append(toClient, [t |-> "required"]) \in Seq(Frames)
        /\ Append(toClient, [t |-> "state_unknown"]) \in Seq(Frames)
    BY <2>3
  <2>1. toClient' \in Seq(Frames)
    BY <1>7, <2>4 DEF ServerPush
  <2>2. QED
    BY <1>7, <2>1 DEF ServerPush, taskVars, innerVars
<1>8. CASE ServerTerminal
  <2>1. toClient' \in Seq(Frames)
    BY <1>8 DEF ServerTerminal, Frames
  <2>2. QED
    BY <1>8, <2>1 DEF ServerTerminal, taskVars, innerVars
<1>9. CASE ServerSnapshot
  BY <1>9 DEF ServerSnapshot, taskVars, innerVars
<1>10. QED
  BY <1>1, <1>2, <1>3, <1>4, <1>5, <1>6, <1>7, <1>8, <1>9 DEF Server

\* The type of a frame fixes its fields.
LEMMA FrameFields ==
    ASSUME NEW f \in Frames
    PROVE  /\ f.t = "replay" => f.events \in Seq(Nat)
           /\ f.t = "complete" => f.cursor \in Nat
           /\ f.t = "event" => f.geid \in Nat
<1>1. f.t = "replay" => f \in [t : {"replay"}, from : Nat, to : Nat, events : Seq(Nat)]
  BY DEF Frames
<1>2. f.t = "complete" => f \in [t : {"complete"}, cursor : Nat]
  BY DEF Frames
<1>3. f.t = "event" => f \in [t : {"event"}, geid : Nat]
  BY DEF Frames
<1>4. QED
  BY <1>1, <1>2, <1>3

\* Every step of the owner task keeps the types.
LEMMA TaskTypes ==
    ASSUME TypeOK, Task
    PROVE  TypeOK'
<1> USE DEF TypeOK, serverVars, taskVars, innerVars
<1>0. /\ \A r \in Results : EndSocket(r) =>
            /\ pc' \in Points /\ result' \in Results /\ machine' \in Machines
            /\ todo' \in Seq(Nat) /\ goLive' \in BOOLEAN /\ snap' \in Seq(Nat)
      /\ Resync =>
            /\ machine' \in Machines /\ status' \in Statuses /\ pc' \in Points
            /\ todo' \in Seq(Nat) /\ goLive' \in BOOLEAN
  BY MachineTypes, EmptyQueue
     DEF EndSocket, Resync, Points, Results, Statuses, NoSnapshot, Awaiting, Socket
<1>a. ASSUME NEW type, Receive(type)
      PROVE  /\ toClient' \in Seq(Frames)
             /\ Head(toClient) \in Frames /\ Head(toClient).t = type
  BY <1>a DEF Receive
<1>b. ASSUME NEW verdict, SyncFailure(verdict)
      PROVE  /\ pc' \in Points /\ result' \in Results /\ machine' \in Machines
             /\ todo' \in Seq(Nat) /\ goLive' \in BOOLEAN /\ snap' \in Seq(Nat)
             /\ status' \in Statuses
  BY <1>b, <1>0 DEF SyncFailure, Results
<1>c. ASSUME NEW events \in Seq(Nat), NEW live \in BOOLEAN, Accept(events, live)
      PROVE  /\ pc' \in Points /\ result' \in Results
             /\ todo' \in Seq(Nat) /\ goLive' \in BOOLEAN /\ snap' \in Seq(Nat)
             /\ status' \in Statuses
  BY <1>c DEF Accept, Points, Awaiting, Socket
<1>1. CASE Start
  BY ZenonT(60), <1>1 DEF Start, Subscribe, Points, Statuses, Awaiting, Socket
<1>2. CASE TokenLoaded
  BY ZenonT(60), <1>2 DEF TokenLoaded, Subscribe, Points, Results, Awaiting, Socket
<1>3. CASE Connected
  <2>1. BeginConnecting(New(store)) \in Machines
    BY MachineTypes
  <2>2. [t |-> "ready"] \in Frames
    BY DEF Frames
  <2>3. <<[t |-> "ready"]>> \in Seq(Frames)
    BY <2>2
  <2>4. QED
    BY ZenonT(60), <1>3, <2>1, <2>3 DEF Connected, Subscribe, Points, Results, Awaiting, Socket
<1>4. CASE StopObserved
  BY ZenonT(60), <1>4, <1>0 DEF StopObserved, Points, Results, Awaiting, Socket
<1>5. CASE ClearSocket
  <2>1. toServer' \in Seq(Nat) /\ toClient' \in Seq(Frames)
    BY <1>5 DEF ClearSocket
  <2>2. pc' \in Points
    BY <1>5 DEF ClearSocket, Points, Awaiting, Socket
  <2>3. QED
    BY <1>5, <2>1, <2>2 DEF ClearSocket
<1>6. CASE BeginBackoff
  BY ZenonT(60), <1>6 DEF BeginBackoff, Subscribe, Points, Statuses, Awaiting, Socket
<1>7. CASE BackoffElapsed
  BY <1>7 DEF BackoffElapsed, Points, Awaiting, Socket
<1>8. CASE Exit
  BY <1>8 DEF Exit, Points, Statuses, Awaiting, Socket
<1>9. CASE ReceiveReady
  BY <1>9, MachineTypes DEF ReceiveReady, Points, Statuses, Awaiting, Socket
<1>10. CASE SendHello
  BY <1>10 DEF SendHello, Machines, Points, Statuses, Awaiting, Socket
<1>11. CASE ReceiveReplay
  <2> DEFINE frame == Head(toClient)
  <2>1. frame.events \in Seq(Nat) /\ toClient' \in Seq(Frames)
    <3>1. Receive("replay")
      BY <1>11 DEF ReceiveReplay
    <3>2. QED
      BY <3>1, <1>a, FrameFields
  <2>2. AcceptReplay(machine, frame) \in Machines
    <3>1. CASE frame.events = <<>>
      BY <3>1 DEF AcceptReplay
    <3>2. CASE frame.events # <<>>
      <4>1. frame.events[Len(frame.events)] \in Nat
        BY SMTT(40), <2>1, <3>2
      <4>2. QED
        BY <3>2, <4>1 DEF AcceptReplay, Machines
    <3>3. QED
      BY <3>1, <3>2
  <2>3. CASE ReplayVerdict(machine, frame) = "ok"
    BY <1>11, <2>1, <2>2, <2>3, <1>c DEF ReceiveReplay, Receive
  <2>4. CASE ReplayVerdict(machine, frame) # "ok"
    BY <1>11, <2>1, <2>4, <1>b DEF ReceiveReplay, Receive
  <2>5. QED
    BY <2>3, <2>4
<1>12. CASE ReceiveComplete
  <2> DEFINE cursor == Head(toClient).cursor
  <2>1. cursor \in Nat /\ toClient' \in Seq(Frames)
    <3>1. Receive("complete")
      BY <1>12 DEF ReceiveComplete
    <3>2. QED
      BY <3>1, <1>a, FrameFields
  <2>2. AcceptComplete(machine, cursor) \in Machines
    BY <2>1, MachineTypes
  <2>3. [store EXCEPT !.cursor = cursor] \in Stores
    BY <2>1 DEF Stores
  <2>4. machine.queued \in Seq(Nat)
    BY DEF Machines
  <2>5. CASE CompleteVerdict(machine) = "ok"
    BY <1>12, <2>1, <2>2, <2>3, <2>4, <2>5, <1>c DEF ReceiveComplete, Receive
  <2>6. CASE CompleteVerdict(machine) # "ok"
    BY <1>12, <2>1, <2>6, <1>b DEF ReceiveComplete, Receive
  <2>7. QED
    BY <2>5, <2>6
<1>13. CASE ReceiveEvent
  <2> DEFINE event == Head(toClient).geid
  <2>1. event \in Nat /\ toClient' \in Seq(Frames)
    <3>1. Receive("event")
      BY <1>13 DEF ReceiveEvent
    <3>2. QED
      BY <3>1, <1>a, FrameFields
  <2>2. AcceptLiveEvent(machine, event) \in Machines
    BY <2>1, MachineTypes
  <2>3. ReleasedByLive(machine, event) \in Seq(Nat)
    BY <2>1 DEF ReleasedByLive
  <2>4. CASE LiveVerdict(machine, event) = "ok"
    BY <1>13, <2>1, <2>2, <2>3, <2>4, <1>c DEF ReceiveEvent, Receive
  <2>5. CASE LiveVerdict(machine, event) # "ok"
    BY <1>13, <2>1, <2>5, <1>b DEF ReceiveEvent, Receive
  <2>6. QED
    BY <2>4, <2>5
<1>14. CASE ReceiveSyncRequired
  <2>1. toClient' \in Seq(Frames)
    <3>1. Receive("required") \/ Receive("state_unknown")
      BY <1>14 DEF ReceiveSyncRequired
    <3>2. QED
      BY <3>1, <1>a
  <2>2. QED
    BY <1>14, <1>0, <2>1 DEF ReceiveSyncRequired, Receive
<1>15. CASE ReceiveTerminal
  BY <1>15, <1>0 DEF ReceiveTerminal, Receive, Results
<1>16. CASE ApplyEvent
  <2>1. Head(todo) \in Nat /\ Tail(todo) \in Seq(Nat)
    BY <1>16 DEF ApplyEvent
  <2>2. [cursor |-> Head(todo), geid |-> Head(todo),
         content |-> store.content \cup {Head(todo)}] \in Stores
    BY <2>1 DEF Stores
  <2>3. QED
    BY <1>16, <1>0, <2>1, <2>2 DEF ApplyEvent
<1>17. CASE FrameDone
  BY <1>17 DEF FrameDone, Points, Statuses, Awaiting, Socket
<1>18. CASE InstallSnapshot
  <2>1. snap[1] \in Nat
    BY <1>18 DEF InstallSnapshot, NoSnapshot
  <2>2. SnapshotAt(snap[1]) \in Stores
    BY <2>1, VisibleType DEF SnapshotAt, Stores
  <2>3. BeginSync(ReplaceSnapshot(machine, SnapshotAt(snap[1]))) \in Machines
    BY <2>2, MachineTypes
  <2>4. QED
    BY <1>18, <2>1, <2>2, <2>3
       DEF InstallSnapshot, NoSnapshot, Points, Awaiting, Socket
<1>19. QED
  BY <1>1, <1>2, <1>3, <1>4, <1>5, <1>6, <1>7, <1>8, <1>9, <1>10, <1>11,
     <1>12, <1>13, <1>14, <1>15, <1>16, <1>17, <1>18 DEF Task

\* Failures and the host's close() keep the types.
LEMMA OtherTypes ==
    ASSUME TypeOK,
           TokenFailed \/ SocketFailed \/ RequestClose \/ SignalClose \/ CloseReturns
    PROVE  TypeOK'
<1> USE DEF TypeOK, serverVars, taskVars, innerVars
<1>1. CASE TokenFailed
  BY <1>1 DEF TokenFailed, Points, Awaiting, Socket
<1>2. CASE SocketFailed
  <2>1. /\ pc' \in Points /\ result' \in Results /\ machine' \in Machines
        /\ todo' \in Seq(Nat) /\ goLive' \in BOOLEAN /\ snap' \in Seq(Nat)
    BY <1>2, MachineTypes, EmptyQueue
       DEF SocketFailed, EndSocket, NoSnapshot, Points, Results, Awaiting, Socket
  <2>2. QED
    BY <1>2, <2>1 DEF SocketFailed
<1>3. CASE RequestClose
  BY <1>3 DEF RequestClose
<1>4. CASE SignalClose
  BY <1>4 DEF SignalClose
<1>5. CASE CloseReturns
  BY <1>5 DEF CloseReturns
<1>6. QED
  BY <1>1, <1>2, <1>3, <1>4, <1>5

\* Initially every variable has its type.
LEMMA InitTypes == Init => TypeOK
<1> SUFFICES ASSUME Init PROVE TypeOK
  OBVIOUS
<1>1. NoMachine \in Machines
  BY MachineTypes, EmptyQueue DEF NoMachine, New, Machines, Phases
<1>2. log \in Seq(Kinds) /\ toServer \in Seq(Nat) /\ toClient \in Seq(Frames)
  BY DEF Init
<1>3. store \in Stores
  BY DEF Init, Stores
<1>4. QED
  BY <1>1, <1>2, <1>3, EmptyQueue
     DEF Init, TypeOK, NoSnapshot, Points, Results, Statuses

\* Every step keeps the types.
LEMMA NextTypes == TypeOK /\ [Next]_vars => TypeOK'
<1> SUFFICES ASSUME TypeOK, [Next]_vars PROVE TypeOK'
  OBVIOUS
<1>1. CASE Next
  BY <1>1, ServerTypes, TaskTypes, OtherTypes DEF Next
<1>2. CASE UNCHANGED vars
  BY <1>2 DEF TypeOK, vars, serverVars, taskVars, innerVars
<1>3. QED
  BY <1>1, <1>2

\* Type correctness of the connection, its frames and its projection, for any
\* number of events, faults and reconnects.
THEOREM TypeCorrect == Spec => []TypeOK
<1>1. Init => TypeOK
  BY InitTypes
<1>2. TypeOK /\ [Next]_vars => TypeOK'
  BY NextTypes
<1>3. QED
  BY <1>1, <1>2, PTL DEF Spec

------------------------------------------------------------------------------
(***************************************************************************)
(* The publication barrier.                                                *)
(***************************************************************************)

\* What BarrierInv says of a control point reads nothing but these variables.
LEMMA BarrierFrame ==
    ASSUME BarrierInv,
           UNCHANGED <<pc, machine, todo, goLive, store, status>>
    PROVE  BarrierInv'
BY DEF BarrierInv, AtRecv, AtApply, Settled, Fresh

\* A sequence with a positive length is not the empty one.
LEMMA NotEmpty ==
    ASSUME NEW q, Len(q) # 0
    PROVE  q # <<>>
OBVIOUS

\* Applying the first of the accepted events keeps the rest settled.
LEMMA SettledTail ==
    ASSUME NEW q \in Seq(Nat), q # <<>>, NEW g \in Nat, NEW s \in Nat,
           q[1] > s,
           q[Len(q)] = g \/ \E i \in DOMAIN q : q[i] <= s
    PROVE  \/ Tail(q) = <<>> /\ g = q[1]
           \/ Tail(q) # <<>> /\ Tail(q)[Len(Tail(q))] = g
           \/ \E i \in DOMAIN Tail(q) : Tail(q)[i] <= q[1]
<1>1. Len(q) \in Nat /\ Len(q) > 0 /\ DOMAIN q = 1..Len(q)
  OBVIOUS
<1>2. /\ Tail(q) \in Seq(Nat) /\ Len(Tail(q)) = Len(q) - 1
      /\ DOMAIN Tail(q) = 1..(Len(q) - 1)
      /\ \A i \in 1..(Len(q) - 1) : Tail(q)[i] = q[i + 1]
  BY <1>1
<1>3. CASE q[Len(q)] = g
  <2>1. CASE Len(q) = 1
    BY <1>1, <1>2, <1>3, <2>1
  <2>2. CASE Len(q) # 1
    <3>1. Len(q) - 1 \in 1..(Len(q) - 1) /\ Len(q) - 1 + 1 = Len(q)
      BY <1>1, <2>2
    <3>2. Tail(q)[Len(q) - 1] = q[Len(q) - 1 + 1]
      BY <1>2, <3>1
    <3>3. Tail(q) # <<>>
      <4>1. Len(Tail(q)) # 0
        BY <1>1, <1>2, <2>2
      <4>2. QED
        BY <4>1, NotEmpty
    <3>4. QED
      BY <1>2, <1>3, <3>1, <3>2, <3>3
  <2>3. QED
    BY <2>1, <2>2
<1>4. ASSUME NEW i \in DOMAIN q, q[i] <= s
      PROVE  \E j \in DOMAIN Tail(q) : Tail(q)[j] <= q[1]
  <2>1. i # 1 /\ i - 1 \in 1..(Len(q) - 1)
    BY <1>1, <1>4
  <2>2. Tail(q)[i - 1] = q[i]
    BY <1>1, <1>2, <2>1
  <2>3. q[i] \in Nat /\ q[1] \in Nat
    BY <1>1
  <2>4. QED
    BY <1>2, <1>4, <2>1, <2>2, <2>3
<1>5. QED
  BY <1>3, <1>4

\* A step of the owner task outside the frame handlers.
LEMMA BarrierLifecycle ==
    ASSUME TypeOK, BarrierInv,
           \/ Start \/ TokenLoaded \/ Connected \/ StopObserved \/ ClearSocket
           \/ BeginBackoff \/ BackoffElapsed \/ Exit \/ ReceiveReady \/ SendHello
           \/ TokenFailed \/ SocketFailed
    PROVE  BarrierInv'
<1> USE DEF BarrierInv, Awaiting, Socket
<1>0. \A r : EndSocket(r) => BarrierInv'
  BY DEF EndSocket, NoMachine, New
<1>1. CASE Start
  BY <1>1 DEF Start
<1>2. CASE TokenLoaded
  BY <1>2 DEF TokenLoaded
<1>3. CASE Connected
  BY <1>3 DEF Connected, Fresh, BeginConnecting, New
<1>4. CASE StopObserved
  BY <1>4, <1>0 DEF StopObserved
<1>5. CASE ClearSocket
  BY <1>5 DEF ClearSocket
<1>6. CASE BeginBackoff
  BY <1>6 DEF BeginBackoff
<1>7. CASE BackoffElapsed
  BY <1>7 DEF BackoffElapsed, innerVars
<1>8. CASE Exit
  BY <1>8 DEF Exit
<1>9. CASE ReceiveReady
  BY <1>9 DEF ReceiveReady, Fresh, BeginSync, AcceptReady, TypeOK, Machines
<1>10. CASE SendHello
  BY <1>10 DEF SendHello, AtRecv, Fresh, Settled
<1>11. CASE TokenFailed
  BY <1>11 DEF TokenFailed, innerVars
<1>12. CASE SocketFailed
  BY <1>12, <1>0 DEF SocketFailed
<1>13. QED
  BY <1>1, <1>2, <1>3, <1>4, <1>5, <1>6, <1>7, <1>8, <1>9, <1>10, <1>11, <1>12

\* A resync, and a SyncError, leave no handler and no queue behind.
LEMMA BarrierFailure ==
    ASSUME TypeOK, BarrierInv
    PROVE  /\ Resync => BarrierInv'
           /\ \A verdict : SyncFailure(verdict) => BarrierInv'
<1>1. Resync => BarrierInv'
  BY DEF BarrierInv, Resync, RequireSnapshot, TypeOK, Machines
<1>2. EndSocket("Sync") => BarrierInv'
  BY DEF BarrierInv, EndSocket, NoMachine, New
<1>3. QED
  BY <1>1, <1>2 DEF SyncFailure

\* A step that accepts, refuses or applies frames of the server.
LEMMA BarrierHandlers ==
    ASSUME TypeOK, BarrierInv,
           \/ ReceiveReplay \/ ReceiveComplete \/ ReceiveEvent
           \/ ReceiveSyncRequired \/ ReceiveTerminal
           \/ ApplyEvent \/ FrameDone \/ InstallSnapshot
    PROVE  BarrierInv'
<1>t. /\ machine \in Machines /\ machine.queued \in Seq(Nat)
      /\ machine.geid \in Nat /\ store.geid \in Nat /\ todo \in Seq(Nat)
  BY DEF TypeOK, Machines, Stores
<1>1. CASE ReceiveReplay
  <2> DEFINE frame == Head(toClient)
  <2>1. CASE ReplayVerdict(machine, frame) # "ok"
    BY <1>1, <2>1, BarrierFailure DEF ReceiveReplay
  <2>2. CASE ReplayVerdict(machine, frame) = "ok"
    <3>1. /\ pc = "recv" /\ pc' = "apply" /\ goLive' = FALSE
          /\ todo' = frame.events /\ machine' = AcceptReplay(machine, frame)
          /\ store' = store /\ status' = status
      BY <1>1, <2>2 DEF ReceiveReplay, Receive, Accept
    <3>2. frame.events \in Seq(Nat)
      BY <1>1, FrameFields DEF ReceiveReplay, Receive, TypeOK
    <3>3. machine.phase = "Syncing"
      BY <2>2 DEF ReplayVerdict
    <3>4. status # "Live" /\ Settled(machine.queued)
      BY <3>1, <3>3 DEF BarrierInv, AtRecv
    <3>5. CASE frame.events = <<>>
      BY <3>1, <3>3, <3>4, <3>5
         DEF BarrierInv, AtApply, Settled, AcceptReplay
    <3>6. CASE frame.events # <<>>
      <4> DEFINE last == frame.events[Len(frame.events)]
      <4>1. machine'.geid = last /\ machine'.queued = machine.queued
            /\ machine'.phase = "Syncing"
        BY <1>t, <3>1, <3>3, <3>6 DEF AcceptReplay, Machines
      <4>2. last \in Nat /\ last > machine.geid
        <5>1. Len(frame.events) \in DOMAIN frame.events
          BY <3>2, <3>6
        <5>2. InOrder(machine.geid, frame.events)
          BY <2>2, <3>3, <3>6 DEF ReplayVerdict
        <5>3. QED
          BY <3>2, <5>1, <5>2 DEF InOrder
      <4>3. QED
        BY <1>t, <3>1, <3>4, <3>6, <4>1, <4>2 DEF BarrierInv, AtApply
    <3>7. QED
      BY <3>5, <3>6
  <2>3. QED
    BY <2>1, <2>2
<1>2. CASE ReceiveComplete
  <2>1. CASE CompleteVerdict(machine) # "ok"
    BY <1>2, <2>1, BarrierFailure DEF ReceiveComplete
  <2>2. CASE CompleteVerdict(machine) = "ok"
    <3>1. machine.phase = "Syncing" /\ pc = "recv"
      BY <1>2, <2>2 DEF CompleteVerdict, ReceiveComplete, Receive
    <3>2. status # "Live" /\ Settled(machine.queued)
      BY <3>1 DEF BarrierInv, AtRecv
    <3>3. /\ pc' = "apply" /\ goLive' = TRUE /\ todo' = machine.queued
          /\ status' = status
          /\ machine' = AcceptComplete(machine, Head(toClient).cursor)
          /\ store' = [store EXCEPT !.cursor = Head(toClient).cursor]
      BY <1>2, <2>2 DEF ReceiveComplete, Accept
    <3>4. /\ machine'.phase = "Live" /\ machine'.queued = <<>>
          /\ machine'.geid = machine.geid /\ store'.geid = store.geid
      BY <1>t, <3>3 DEF AcceptComplete, Machines, TypeOK, Stores
    <3>5. Settled(todo)'
      BY <3>2, <3>3, <3>4 DEF Settled
    <3>6. QED
      BY <3>2, <3>3, <3>4, <3>5 DEF BarrierInv, AtApply
  <2>3. QED
    BY <2>1, <2>2
<1>3. CASE ReceiveEvent
  <2> DEFINE event == Head(toClient).geid
  <2>1. CASE LiveVerdict(machine, event) # "ok"
    BY <1>3, <2>1, BarrierFailure DEF ReceiveEvent
  <2>2. CASE LiveVerdict(machine, event) = "ok"
    <3>1. /\ pc = "recv" /\ pc' = "apply" /\ goLive' = FALSE
          /\ todo' = ReleasedByLive(machine, event)
          /\ machine' = AcceptLiveEvent(machine, event)
          /\ store' = store /\ status' = status
      BY <1>3, <2>2 DEF ReceiveEvent, Receive, Accept
    <3>2. event \in Nat
      BY <1>3, FrameFields DEF ReceiveEvent, Receive, TypeOK
    <3>3. event > machine.geid /\ machine.phase \in {"Syncing", "Live"}
      BY <2>2 DEF LiveVerdict
    <3>4. CASE machine.phase = "Live"
      <4>1. machine.queued = <<>>
        BY <3>1, <3>4 DEF BarrierInv, AtRecv, Fresh
      <4>2. /\ machine'.phase = "Live" /\ machine'.queued = <<>>
            /\ machine'.geid = event /\ todo' = <<event>>
        BY <1>t, <3>1, <3>2, <3>4, <4>1 DEF AcceptLiveEvent, ReleasedByLive, Machines
      <4>3. QED
        BY <3>1, <4>2 DEF BarrierInv, AtApply
    <3>5. CASE machine.phase = "Syncing"
      <4>1. status # "Live"
        BY <3>1, <3>5 DEF BarrierInv, AtRecv
      <4>2. /\ machine'.phase = "Syncing" /\ machine'.geid = event
            /\ machine'.queued = Append(machine.queued, event) /\ todo' = <<>>
        BY <1>t, <3>1, <3>2, <3>5 DEF AcceptLiveEvent, ReleasedByLive, Machines
      <4>3. Settled(machine.queued)'
        <5> DEFINE q == Append(machine.queued, event)
        <5>1. Len(q) = Len(machine.queued) + 1 /\ Len(machine.queued) \in Nat
          BY <1>t, <3>2
        <5>2. q # <<>> /\ q[Len(q)] = event
          BY <1>t, <3>2, <5>1
        <5>3. QED
          BY <4>2, <5>2 DEF Settled
      <4>4. \A i \in DOMAIN machine'.queued : machine'.queued[i] <= event
        BY SMTT(40), <1>t, <3>2, <3>3, <4>2 DEF BarrierInv
      <4>5. QED
        BY <3>1, <4>1, <4>2, <4>3, <4>4 DEF BarrierInv, AtApply
    <3>6. QED
      BY <3>3, <3>4, <3>5
  <2>3. QED
    BY <2>1, <2>2
<1>4. CASE ReceiveSyncRequired
  BY <1>4, BarrierFailure DEF ReceiveSyncRequired
<1>5. CASE ReceiveTerminal
  BY <1>5 DEF ReceiveTerminal, EndSocket, BarrierInv, NoMachine, New
<1>6. CASE ApplyEvent
  <2> DEFINE event == Head(todo)
  <2>1. CASE ~(event > store.geid /\ log[event] = "known")
    BY <1>6, <2>1, BarrierFailure DEF ApplyEvent
  <2>2. CASE event > store.geid /\ log[event] = "known"
    <3>1. /\ pc = "apply" /\ todo # <<>> /\ todo' = Tail(todo)
          /\ store'.geid = event /\ event = todo[1] /\ event \in Nat
          /\ UNCHANGED <<pc, machine, goLive, status>>
      BY <1>6, <1>t, <2>2 DEF ApplyEvent
    <3>2. ASSUME todo[Len(todo)] = machine.geid
          PROVE  IF Tail(todo) = <<>> THEN machine.geid = event
                 ELSE Tail(todo)[Len(Tail(todo))] = machine.geid
      <4>1. Len(todo) \in Nat /\ Len(todo) > 0
        BY <1>t, <3>1
      <4>2. Tail(todo) \in Seq(Nat) /\ Len(Tail(todo)) = Len(todo) - 1
            /\ \A i \in 1..(Len(todo) - 1) : Tail(todo)[i] = todo[i + 1]
        BY <1>t, <3>1, <4>1
      <4>3. CASE Len(todo) = 1
        BY <3>1, <3>2, <4>2, <4>3
      <4>4. CASE Len(todo) # 1
        <5>1. Len(todo) - 1 \in 1..(Len(todo) - 1) /\ Len(todo) - 1 + 1 = Len(todo)
          BY <4>1, <4>4
        <5>2. Tail(todo)[Len(todo) - 1] = todo[Len(todo) - 1 + 1]
          BY <4>2, <5>1
        <5>3. Tail(todo) # <<>>
          <6>1. Len(Tail(todo)) # 0
            BY <4>1, <4>2, <4>4
          <6>2. QED
            BY <6>1, NotEmpty
        <5>4. QED
          BY <3>2, <4>2, <5>1, <5>2, <5>3
      <4>5. QED
        BY <4>3, <4>4
    <3>3. CASE goLive
      <4>1. /\ machine.phase = "Live" /\ machine.queued = <<>>
            /\ status # "Live" /\ Settled(todo)
        BY <3>1, <3>3 DEF BarrierInv, AtApply
      <4>2. Settled(todo)'
        BY <1>t, <2>2, <3>1, <4>1, SettledTail DEF Settled
      <4>3. QED
        BY <3>1, <3>3, <4>1, <4>2 DEF BarrierInv, AtApply
    <3>4. CASE ~goLive /\ machine.phase = "Live"
      <4>1. machine.queued = <<>> /\ todo = <<machine.geid>>
        BY <3>1, <3>4 DEF BarrierInv, AtApply
      <4>2. todo' = <<>> /\ machine.geid = store'.geid
        BY <3>1, <4>1
      <4>3. QED
        BY <3>1, <3>4, <4>1, <4>2 DEF BarrierInv, AtApply
    <3>5. CASE ~goLive /\ machine.phase = "Syncing"
      <4>1. status # "Live" /\ todo[Len(todo)] = machine.geid
        BY <3>1, <3>5 DEF BarrierInv, AtApply
      <4>2. CASE Tail(todo) # <<>>
        BY <3>1, <3>2, <3>5, <4>1, <4>2 DEF BarrierInv, AtApply
      <4>3. CASE Tail(todo) = <<>>
        <5>1. machine.geid = store'.geid
          BY <3>1, <3>2, <4>1, <4>3
        <5>2. Settled(machine.queued)'
          <6>1. CASE machine.queued = <<>>
            BY <3>1, <5>1, <6>1 DEF Settled
          <6>2. CASE machine.queued # <<>>
            <7>1. 1 \in DOMAIN machine.queued
              BY <1>t, <6>2
            <7>2. machine.queued[1] <= store'.geid
              BY <5>1, <7>1 DEF BarrierInv
            <7>3. QED
              BY <3>1, <7>1, <7>2 DEF Settled
          <6>3. QED
            BY <6>1, <6>2
        <5>3. QED
          BY <3>1, <3>5, <4>1, <4>3, <5>2 DEF BarrierInv, AtApply
      <4>4. QED
        BY <4>2, <4>3
    <3>6. QED
      BY <3>1, <3>3, <3>4, <3>5 DEF BarrierInv, AtApply
  <2>3. QED
    BY <2>1, <2>2
<1>7. CASE FrameDone
  BY <1>7, <1>t DEF FrameDone, BarrierInv, AtApply, AtRecv, Settled, Fresh
<1>8. CASE InstallSnapshot
  <2>1. /\ machine'.queued = <<>> /\ machine'.geid = store'.geid
        /\ machine'.phase = "Syncing"
    BY <1>8, <1>t DEF InstallSnapshot, BeginSync, ReplaceSnapshot, SnapshotAt, Machines
  <2>2. QED
    BY <1>8, <2>1 DEF InstallSnapshot, BarrierInv, AtRecv, Settled
<1>9. QED
  BY <1>1, <1>2, <1>3, <1>4, <1>5, <1>6, <1>7, <1>8

\* Initially nothing is pending.
LEMMA InitBarrier == Init => BarrierInv
BY DEF Init, BarrierInv, NoMachine, New

\* Every step keeps the relation between machine and store.
LEMMA NextBarrier == TypeOK /\ BarrierInv /\ [Next]_vars => BarrierInv'
<1> SUFFICES ASSUME TypeOK, BarrierInv, [Next]_vars PROVE BarrierInv'
  OBVIOUS
<1>1. CASE Server
  <2>1. UNCHANGED <<pc, machine, todo, goLive, store, status>>
    BY <1>1 DEF Server, Commit, ServerHello, ServerReplay, ServerEmptyReplay,
       ServerComplete, ServerLive, ServerPush, ServerTerminal, ServerSnapshot,
       taskVars, innerVars
  <2>2. QED
    BY <2>1, BarrierFrame
<1>2. CASE Task
  BY <1>2, BarrierLifecycle, BarrierHandlers DEF Task
<1>3. CASE TokenFailed \/ SocketFailed
  BY <1>3, BarrierLifecycle
<1>4. CASE RequestClose \/ SignalClose \/ CloseReturns
  BY <1>4, BarrierFrame DEF RequestClose, SignalClose, CloseReturns, taskVars
<1>5. CASE UNCHANGED vars
  BY <1>5, BarrierFrame DEF vars, taskVars, innerVars
<1>6. QED
  BY <1>1, <1>2, <1>3, <1>4, <1>5 DEF Next

\* The publication barrier of sync.complete: whatever the server sends and
\* whenever sockets fail or the host closes, Live is never advertised on a
\* running socket while accepted events wait to be projected.
THEOREM PublicationBarrier == Spec => []LiveBarrier
<1>1. Init => TypeOK /\ BarrierInv
  BY InitTypes, InitBarrier
<1>2. TypeOK /\ BarrierInv /\ [Next]_vars => (TypeOK /\ BarrierInv)'
  BY NextTypes, NextBarrier
<1>3. TypeOK /\ BarrierInv => LiveBarrier
  BY DEF BarrierInv, AtRecv, AtApply, Fresh, LiveBarrier
<1>4. QED
  BY <1>1, <1>2, <1>3, PTL DEF Spec

------------------------------------------------------------------------------
(***************************************************************************)
(* Nothing is skipped.  The inductive invariant follows an event from the  *)
(* server's log to the projection: it is in the running handoff, in a      *)
(* frame on the wire, in the pipe of accepted events, or applied.          *)
(***************************************************************************)

\* The events a replay batch carries, and those any frame carries.
Replayed(f) ==
    IF f.t = "replay" THEN {f.events[k] : k \in DOMAIN f.events} ELSE {}
Carried(f) == IF f.t = "event" THEN {f.geid} ELSE Replayed(f)

\* Whether one of the first i frames of q carries v.
Replays(q, i, v) == \E j \in 1..i : v \in Replayed(q[j])
Carries(q, i, v) == \E j \in 1..i : v \in Carried(q[j])

\* A socket whose frames still count: once a resync is decided they do not,
\* until the new snapshot has been taken.  Handing: its handoff is unfinished.
Streaming ==
    \/ pc \in {"ready", "hello", "recv", "apply"}
    \/ pc = "snapshot" /\ snap # NoSnapshot
Handing == Streaming /\ (pc = "snapshot" \/ machine.phase # "Live")

\* v is in the projection or about to be, by the replay or by the snapshot;
\* v is behind what the machine has accepted, or will have after the snapshot.
Covered(v) ==
    IF pc = "snapshot" THEN v <= snap[1]
    ELSE v <= store.geid \/ \E k \in DOMAIN todo : todo[k] = v
Expected(v) == IF pc = "snapshot" THEN v <= snap[1] ELSE v <= machine.geid

\* No position lies beyond the log.
Positions ==
    /\ store.geid <= Len(log) /\ store.cursor <= Len(log)
    /\ \A i \in DOMAIN toClient :
         /\ Carried(toClient[i]) \subseteq Visible(1, Len(log))
         /\ toClient[i].t = "complete" => toClient[i].cursor <= Len(log)
    /\ session.mode # "none" =>
         /\ session.next <= Len(log) + 1
         /\ session.high <= Len(log) /\ session.live <= Len(log)
    /\ snap # NoSnapshot => store.geid <= snap[1] /\ snap[1] <= Len(log)

\* What is left of a socket outside its generation: nothing.
Sockets ==
    /\ pc \notin {"recv", "apply", "snapshot", "clear"} =>
         session = NoSession /\ toServer = <<>>
    /\ pc \in {"ready", "hello"} =>
         /\ \A i \in DOMAIN toClient : toClient[i].t = "ready"
         /\ machine.cursor = store.cursor
    /\ pc # "snapshot" => snap = NoSnapshot
    /\ pc # "apply" => todo = <<>>

\* A hello resumes where the projection is, up to hidden events.
Hellos ==
    \A i \in DOMAIN toServer :
        toServer[i] <= Len(log) /\ Visible(store.geid + 1, toServer[i]) = {}

\* The projection is the prefix up to its GEID, and so is its cursor.
Content ==
    /\ store.content = Visible(1, store.geid)
    /\ Visible(store.geid + 1, store.cursor) = {}

\* The accepted events not yet applied continue the projection without a gap.
Pipe == IF todo # <<>> THEN todo ELSE machine.queued

Gapless ==
    \A k \in DOMAIN Pipe :
        /\ Pipe[k] \in Visible(1, Len(log))
        /\ \A v \in Visible(1, Pipe[k] - 1) :
             v <= store.geid \/ \E m \in DOMAIN Pipe : Pipe[m] = v

Piped ==
    pc \in {"ready", "hello", "recv", "apply"} =>
        /\ todo = <<>> \/ machine.queued = <<>>
        /\ machine.phase = "Live" => machine.queued = <<>>
        /\ IF Pipe = <<>> THEN machine.geid = store.geid
           ELSE Pipe[Len(Pipe)] = machine.geid
        /\ InOrder(store.geid, Pipe)
        /\ Gapless

\* Replay batches come without a gap, and sync.complete comes after them.
ReplaysInOrder ==
    \A i \in DOMAIN toClient : \A e \in Replayed(toClient[i]) :
        \A v \in Visible(1, e - 1) : Covered(v) \/ Replays(toClient, i, v)
CompletesCover ==
    \A i \in DOMAIN toClient : toClient[i].t = "complete" =>
        \A v \in Visible(1, toClient[i].cursor) :
            Covered(v) \/ Replays(toClient, i, v)
HandoffSent ==
    session.mode = "replay" =>
        \A v \in Visible(1, session.next - 1) :
            Covered(v) \/ Replays(toClient, Len(toClient), v)

\* Live events come without a gap, after everything the handoff replays.
LiveInOrder ==
    \A i \in DOMAIN toClient : toClient[i].t = "event" =>
        \A v \in Visible(1, toClient[i].geid - 1) :
            Expected(v) \/ Carries(toClient, i, v)
LiveSent ==
    session.mode # "none" =>
        \A v \in Visible(1, session.live) :
            \/ Expected(v) \/ v \in Unsent
            \/ Carries(toClient, Len(toClient), v)

Wire ==
    /\ Handing => ReplaysInOrder /\ CompletesCover /\ HandoffSent
    /\ Streaming => LiveInOrder /\ LiveSent

FeedInv == Positions /\ Sockets /\ Hellos /\ Content /\ Piped /\ Wire

\* Committing an event changes nothing below it.
LEMMA LogGrows ==
    ASSUME log \in Seq(Kinds), NEW k \in Kinds, log' = Append(log, k)
    PROVE  /\ Len(log') = Len(log) + 1 /\ Len(log) \in Nat
           /\ \A v \in 1..Len(log) : log'[v] = log[v]
BY DEF Kinds

\* A frame taken from the wire: what it does not carry, a later one does.
LEMMA WireTail ==
    ASSUME NEW q \in Seq(Frames), q # <<>>, NEW i \in DOMAIN Tail(q)
    PROVE  /\ i + 1 \in DOMAIN q /\ Tail(q)[i] = q[i + 1]
           /\ \A v : Replays(q, i + 1, v) =>
                v \in Replayed(Head(q)) \/ Replays(Tail(q), i, v)
           /\ \A v : Carries(q, i + 1, v) =>
                v \in Carried(Head(q)) \/ Carries(Tail(q), i, v)
<1>1. /\ Len(q) \in Nat /\ Len(q) > 0 /\ DOMAIN q = 1..Len(q)
      /\ DOMAIN Tail(q) = 1..(Len(q) - 1) /\ Head(q) = q[1]
      /\ \A j \in 1..(Len(q) - 1) : Tail(q)[j] = q[j + 1]
  OBVIOUS
<1>2. i + 1 \in DOMAIN q /\ Tail(q)[i] = q[i + 1]
  BY <1>1
<1>3. ASSUME NEW j \in 1..(i + 1), j # 1
      PROVE  j - 1 \in 1..i /\ Tail(q)[j - 1] = q[j]
  BY <1>1, <1>3
<1>4. ASSUME NEW v, Replays(q, i + 1, v)
      PROVE  v \in Replayed(Head(q)) \/ Replays(Tail(q), i, v)
  <2>1. PICK j \in 1..(i + 1) : v \in Replayed(q[j])
    BY <1>4 DEF Replays
  <2>2. QED
    BY <1>1, <1>3, <2>1 DEF Replays
<1>5. ASSUME NEW v, Carries(q, i + 1, v)
      PROVE  v \in Carried(Head(q)) \/ Carries(Tail(q), i, v)
  <2>1. PICK j \in 1..(i + 1) : v \in Carried(q[j])
    BY <1>5 DEF Carries
  <2>2. QED
    BY <1>1, <1>3, <2>1 DEF Carries
<1>6. QED
  BY <1>2, <1>4, <1>5

\* The same for the whole wire, which may be empty afterwards.
LEMMA WireTailAll ==
    ASSUME NEW q \in Seq(Frames), q # <<>>
    PROVE  /\ \A v : Replays(q, Len(q), v) =>
                v \in Replayed(Head(q)) \/ Replays(Tail(q), Len(Tail(q)), v)
           /\ \A v : Carries(q, Len(q), v) =>
                v \in Carried(Head(q)) \/ Carries(Tail(q), Len(Tail(q)), v)
<1>1. /\ Len(q) \in Nat /\ Len(q) > 0 /\ Head(q) = q[1]
      /\ Len(Tail(q)) = Len(q) - 1 /\ DOMAIN Tail(q) = 1..(Len(q) - 1)
  OBVIOUS
<1>2. CASE Len(q) = 1
  BY <1>1, <1>2 DEF Replays, Carries
<1>3. CASE Len(q) # 1
  <2>1. Len(q) - 1 \in DOMAIN Tail(q) /\ (Len(q) - 1) + 1 = Len(q)
    BY <1>1, <1>3
  <2>2. QED
    BY <1>1, <2>1, WireTail
<1>4. QED
  BY <1>2, <1>3

\* A frame put on the wire leaves the earlier ones where they are.
LEMMA WireAppend ==
    ASSUME NEW q \in Seq(Frames), NEW f \in Frames
    PROVE  /\ DOMAIN Append(q, f) = DOMAIN q \cup {Len(q) + 1}
           /\ Len(Append(q, f)) = Len(q) + 1 /\ Len(q) + 1 \notin DOMAIN q
           /\ Append(q, f)[Len(q) + 1] = f
           /\ \A i \in DOMAIN q : Append(q, f)[i] = q[i]
           /\ \A i \in DOMAIN q : \A v :
                /\ Replays(q, i, v) => Replays(Append(q, f), i, v)
                /\ Carries(q, i, v) => Carries(Append(q, f), i, v)
           /\ \A v :
                /\ Replays(q, Len(q), v) \/ v \in Replayed(f)
                     => Replays(Append(q, f), Len(q) + 1, v)
                /\ Carries(q, Len(q), v) \/ v \in Carried(f)
                     => Carries(Append(q, f), Len(q) + 1, v)
<1> DEFINE n == Len(q)
           p == Append(q, f)
<1>1. /\ n \in Nat /\ DOMAIN q = 1..n /\ DOMAIN p = 1..(n + 1)
      /\ p[n + 1] = f /\ Len(p) = n + 1
      /\ \A i \in 1..n : p[i] = q[i]
  OBVIOUS
<1> HIDE DEF n, p
<1>2. ASSUME NEW i \in 1..n, NEW v
      PROVE  /\ Replays(q, i, v) => Replays(p, i, v)
             /\ Carries(q, i, v) => Carries(p, i, v)
  BY <1>1, <1>2 DEF Replays, Carries
<1>3. ASSUME NEW v
      PROVE  /\ Replays(q, n, v) \/ v \in Replayed(f) => Replays(p, n + 1, v)
             /\ Carries(q, n, v) \/ v \in Carried(f) => Carries(p, n + 1, v)
  BY <1>1 DEF Replays, Carries
<1>4. DOMAIN p = DOMAIN q \cup {n + 1} /\ n + 1 \notin DOMAIN q
  BY <1>1
<1>5. QED
  BY <1>1, <1>2, <1>3, <1>4 DEF n, p

\* The first frame stands alone.
LEMMA WireHead ==
    ASSUME NEW q \in Seq(Frames), q # <<>>
    PROVE  /\ 1 \in DOMAIN q /\ q[1] = Head(q)
           /\ \A v : Replays(q, 1, v) <=> v \in Replayed(Head(q))
           /\ \A v : Carries(q, 1, v) <=> v \in Carried(Head(q))
<1>1. 1 \in DOMAIN q /\ q[1] = Head(q) /\ 1..1 = {1}
  OBVIOUS
<1>2. QED
  BY <1>1 DEF Replays, Carries

\* The types the arguments below use.
LEMMA FeedTypes ==
    ASSUME TypeOK
    PROVE  /\ log \in Seq(Kinds) /\ Len(log) \in Nat
           /\ toClient \in Seq(Frames) /\ toServer \in Seq(Nat)
           /\ todo \in Seq(Nat) /\ machine.queued \in Seq(Nat)
           /\ machine.geid \in Nat /\ machine.cursor \in Nat
           /\ store.geid \in Nat /\ store.cursor \in Nat
           /\ snap # NoSnapshot => snap[1] \in Nat
           /\ session.next \in Nat /\ session.high \in Nat /\ session.live \in Nat
           /\ session.mode # "none" => session.next - 1 \in Nat
           /\ \A i \in DOMAIN toClient : toClient[i] \in Frames
<1>1. /\ log \in Seq(Kinds) /\ Len(log) \in Nat
      /\ toClient \in Seq(Frames) /\ toServer \in Seq(Nat)
      /\ todo \in Seq(Nat) /\ machine.queued \in Seq(Nat)
      /\ machine.geid \in Nat /\ machine.cursor \in Nat
      /\ store.geid \in Nat /\ store.cursor \in Nat
  BY DEF TypeOK, Machines, Stores
<1>2. snap # NoSnapshot => snap[1] \in Nat
  BY DEF TypeOK, NoSnapshot
<1>3. /\ session.next \in Nat /\ session.high \in Nat /\ session.live \in Nat
      /\ session.mode # "none" => session.next - 1 \in Nat
  BY DEF TypeOK, NoSession
<1>4. QED
  BY <1>1, <1>2, <1>3

\* What a frame carries is a position, and there is one below it.
LEMMA CarriedTypes ==
    ASSUME TypeOK, Positions, NEW i \in DOMAIN toClient
    PROVE  /\ Replayed(toClient[i]) \subseteq Carried(toClient[i])
           /\ \A e \in Carried(toClient[i]) :
                e \in Nat /\ e - 1 \in Nat /\ e <= Len(log) /\ log[e] # "hidden"
           /\ toClient[i].t = "event" =>
                /\ Carried(toClient[i]) = {toClient[i].geid}
                /\ Replayed(toClient[i]) = {}
           /\ toClient[i].t = "complete" =>
                /\ toClient[i].cursor \in Nat /\ toClient[i].cursor <= Len(log)
                /\ Carried(toClient[i]) = {} /\ Replayed(toClient[i]) = {}
<1>1. toClient[i] \in Frames /\ Len(log) \in Nat
  BY FeedTypes
<1>2. Replayed(toClient[i]) \subseteq Carried(toClient[i])
  BY DEF Replayed, Carried
<1>3. \A e \in Carried(toClient[i]) :
        e \in Nat /\ e - 1 \in Nat /\ e <= Len(log) /\ log[e] # "hidden"
  BY <1>1 DEF Positions, Visible
<1>4. toClient[i].t = "event" =>
        Carried(toClient[i]) = {toClient[i].geid} /\ Replayed(toClient[i]) = {}
  BY DEF Carried, Replayed
<1>5. toClient[i].t = "complete" =>
        /\ toClient[i].cursor \in Nat /\ toClient[i].cursor <= Len(log)
        /\ Carried(toClient[i]) = {} /\ Replayed(toClient[i]) = {}
  BY <1>1, FrameFields DEF Carried, Replayed, Positions
<1>6. QED
  BY <1>2, <1>3, <1>4, <1>5

\* Steps that leave the wire alone: the log may grow, the client advance.
LEMMA WireKept ==
    ASSUME TypeOK, Positions, Wire,
           UNCHANGED <<toClient, session>>,
           \A v \in 1..Len(log) : log'[v] = log[v],
           Streaming' => Streaming, Handing' => Handing,
           \A v \in Nat : Handing' /\ Covered(v) => Covered(v)',
           \A v \in Nat : Streaming' /\ Expected(v) => Expected(v)'
    PROVE  Wire'
<1>t. /\ Len(log) \in Nat /\ session.next \in Nat /\ session.high \in Nat
      /\ session.live \in Nat
      /\ session.mode # "none" => session.next - 1 \in Nat
  BY FeedTypes
<1>v. ASSUME NEW x \in Nat, x <= Len(log), NEW v
      PROVE  v \in Visible(1, x)' <=> v \in Visible(1, x) /\ v \in Nat
  BY <1>t, <1>v DEF Visible
<1>1. ASSUME Handing' PROVE ReplaysInOrder'
  <2> SUFFICES ASSUME NEW i \in DOMAIN toClient, NEW e \in Replayed(toClient[i]),
                      NEW v \in Visible(1, e - 1)'
               PROVE  Covered(v)' \/ Replays(toClient, i, v)
    BY DEF ReplaysInOrder
  <2>1. e \in Nat /\ e - 1 \in Nat /\ e <= Len(log)
    BY CarriedTypes
  <2>2. v \in Visible(1, e - 1) /\ v \in Nat
    BY <1>t, <1>v, <2>1
  <2>3. Covered(v) \/ Replays(toClient, i, v)
    BY <1>1, <2>2 DEF Wire, ReplaysInOrder
  <2>4. QED
    BY <1>1, <2>2, <2>3
<1>2. ASSUME Handing' PROVE CompletesCover'
  <2> SUFFICES ASSUME NEW i \in DOMAIN toClient, toClient[i].t = "complete",
                      NEW v \in Visible(1, toClient[i].cursor)'
               PROVE  Covered(v)' \/ Replays(toClient, i, v)
    BY DEF CompletesCover
  <2>1. toClient[i].cursor \in Nat /\ toClient[i].cursor <= Len(log)
    BY CarriedTypes
  <2>2. v \in Visible(1, toClient[i].cursor) /\ v \in Nat
    BY <1>v, <2>1
  <2>3. Covered(v) \/ Replays(toClient, i, v)
    BY <1>2, <2>2 DEF Wire, CompletesCover
  <2>4. QED
    BY <1>2, <2>2, <2>3
<1>3. ASSUME Handing' PROVE HandoffSent'
  <2> SUFFICES ASSUME session.mode = "replay",
                      NEW v \in Visible(1, session.next - 1)'
               PROVE  Covered(v)' \/ Replays(toClient, Len(toClient), v)
    BY DEF HandoffSent
  <2>1. session.next - 1 \in Nat /\ session.next - 1 <= Len(log)
    BY <1>t DEF Positions
  <2>2. v \in Visible(1, session.next - 1) /\ v \in Nat
    BY <1>v, <2>1
  <2>3. Covered(v) \/ Replays(toClient, Len(toClient), v)
    BY <1>3, <2>2 DEF Wire, HandoffSent
  <2>4. QED
    BY <1>3, <2>2, <2>3
<1>4. ASSUME Streaming' PROVE LiveInOrder'
  <2> SUFFICES ASSUME NEW i \in DOMAIN toClient, toClient[i].t = "event",
                      NEW v \in Visible(1, toClient[i].geid - 1)'
               PROVE  Expected(v)' \/ Carries(toClient, i, v)
    BY DEF LiveInOrder
  <2>1. /\ toClient[i].geid \in Nat /\ toClient[i].geid - 1 \in Nat
        /\ toClient[i].geid <= Len(log)
    BY CarriedTypes
  <2>2. v \in Visible(1, toClient[i].geid - 1) /\ v \in Nat
    BY SMTT(40), <1>t, <1>v, <2>1
  <2>3. Expected(v) \/ Carries(toClient, i, v)
    BY <1>4, <2>2 DEF Wire, LiveInOrder
  <2>4. QED
    BY <1>4, <2>2, <2>3
<1>5. ASSUME Streaming' PROVE LiveSent'
  <2> SUFFICES ASSUME session.mode # "none", NEW v \in Visible(1, session.live)'
               PROVE  \/ Expected(v)' \/ v \in Unsent'
                      \/ Carries(toClient, Len(toClient), v)
    BY DEF LiveSent
  <2>1. session.live <= Len(log) /\ session.high <= Len(log)
    BY DEF Positions
  <2>2. v \in Visible(1, session.live) /\ v \in Nat
    BY <1>t, <1>v, <2>1
  <2>3. Expected(v) \/ v \in Unsent \/ Carries(toClient, Len(toClient), v)
    BY <1>5, <2>2 DEF Wire, LiveSent
  <2>4. v \in Unsent => v \in Unsent'
    BY <1>t, <2>1, <2>2 DEF Unsent, Visible
  <2>5. QED
    BY <1>5, <2>2, <2>3, <2>4
<1>6. QED
  BY <1>1, <1>2, <1>3, <1>4, <1>5 DEF Wire

\* The client takes a frame: its events become covered, and expected.
LEMMA WireTaken ==
    ASSUME TypeOK, Positions, Wire, toClient # <<>>, toClient' = Tail(toClient),
           UNCHANGED <<log, session>>,
           Streaming' => Streaming, Handing' => Handing,
           \A v \in Nat : Handing' /\ (Covered(v) \/ v \in Replayed(Head(toClient)))
                            => Covered(v)',
           \A v \in Nat : Streaming' /\ (Expected(v) \/ v \in Carried(Head(toClient)))
                            => Expected(v)'
    PROVE  Wire'
<1> DEFINE q == toClient
<1>t. /\ Len(log) \in Nat /\ q \in Seq(Frames)
  BY FeedTypes
<1>v. ASSUME NEW x, NEW v
      PROVE  /\ v \in Visible(1, x)' <=> v \in Visible(1, x)
             /\ v \in Visible(1, x) => v \in Nat
  BY DEF Visible
<1>q. ASSUME NEW i \in DOMAIN Tail(q)
      PROVE  i + 1 \in DOMAIN q /\ Tail(q)[i] = q[i + 1]
  BY <1>t, WireTail
<1>1. ASSUME Handing' PROVE ReplaysInOrder'
  <2> SUFFICES ASSUME NEW i \in DOMAIN Tail(q), NEW e \in Replayed(Tail(q)[i]),
                      NEW v \in Visible(1, e - 1)
               PROVE  Covered(v)' \/ Replays(Tail(q), i, v)
    BY <1>v DEF ReplaysInOrder
  <2>1. Covered(v) \/ Replays(q, i + 1, v)
    BY <1>1, <1>q DEF Wire, ReplaysInOrder
  <2>2. QED
    BY <1>1, <1>v, <1>t, <2>1, WireTail
<1>2. ASSUME Handing' PROVE CompletesCover'
  <2> SUFFICES ASSUME NEW i \in DOMAIN Tail(q), Tail(q)[i].t = "complete",
                      NEW v \in Visible(1, Tail(q)[i].cursor)
               PROVE  Covered(v)' \/ Replays(Tail(q), i, v)
    BY <1>v DEF CompletesCover
  <2>1. Covered(v) \/ Replays(q, i + 1, v)
    BY <1>2, <1>q DEF Wire, CompletesCover
  <2>2. QED
    BY <1>2, <1>v, <1>t, <2>1, WireTail
<1>3. ASSUME Handing' PROVE HandoffSent'
  <2> SUFFICES ASSUME session.mode = "replay", NEW v \in Visible(1, session.next - 1)
               PROVE  Covered(v)' \/ Replays(Tail(q), Len(Tail(q)), v)
    BY <1>v DEF HandoffSent
  <2>1. Covered(v) \/ Replays(q, Len(q), v)
    BY <1>3 DEF Wire, HandoffSent
  <2>2. QED
    BY <1>3, <1>v, <1>t, <2>1, WireTailAll
<1>4. ASSUME Streaming' PROVE LiveInOrder'
  <2> SUFFICES ASSUME NEW i \in DOMAIN Tail(q), Tail(q)[i].t = "event",
                      NEW v \in Visible(1, Tail(q)[i].geid - 1)
               PROVE  Expected(v)' \/ Carries(Tail(q), i, v)
    BY <1>v DEF LiveInOrder
  <2>1. Expected(v) \/ Carries(q, i + 1, v)
    BY <1>4, <1>q DEF Wire, LiveInOrder
  <2>2. QED
    BY <1>4, <1>v, <1>t, <2>1, WireTail
<1>5. ASSUME Streaming' PROVE LiveSent'
  <2> SUFFICES ASSUME session.mode # "none", NEW v \in Visible(1, session.live)
               PROVE  \/ Expected(v)' \/ v \in Unsent
                      \/ Carries(Tail(q), Len(Tail(q)), v)
    BY <1>v DEF LiveSent, Unsent, Visible
  <2>1. Expected(v) \/ v \in Unsent \/ Carries(q, Len(q), v)
    BY <1>5 DEF Wire, LiveSent
  <2>2. QED
    BY <1>5, <1>v, <1>t, <2>1, WireTailAll
<1>6. QED
  BY <1>1, <1>2, <1>3, <1>4, <1>5 DEF Wire

\* The server sends a frame.
LEMMA WireSent ==
    ASSUME TypeOK, Positions, Wire, NEW f \in Frames,
           toClient' = Append(toClient, f),
           UNCHANGED <<log, pc, machine, todo, store, snap>>,
           Handing => \A e \in Replayed(f) : \A v \in Visible(1, e - 1) :
             Covered(v) \/ Replays(toClient, Len(toClient), v) \/ v \in Replayed(f),
           Handing /\ f.t = "complete" => \A v \in Visible(1, f.cursor) :
             Covered(v) \/ Replays(toClient, Len(toClient), v),
           Streaming /\ f.t = "event" => \A v \in Visible(1, f.geid - 1) :
             Expected(v) \/ Carries(toClient, Len(toClient), v),
           Handing => HandoffSent', Streaming => LiveSent'
    PROVE  Wire'
<1> DEFINE q == toClient
           n == Len(toClient) + 1
<1>t. q \in Seq(Frames)
  BY FeedTypes
<1>v. /\ \A x, v : v \in Visible(1, x)' <=> v \in Visible(1, x)
      /\ Handing' = Handing /\ Streaming' = Streaming
      /\ \A v : (Covered(v)' <=> Covered(v)) /\ (Expected(v)' <=> Expected(v))
  BY DEF Visible, Handing, Streaming, Covered, Expected
<1>q. /\ DOMAIN toClient' = DOMAIN q \cup {n} /\ toClient'[n] = f
      /\ \A i \in DOMAIN q : toClient'[i] = q[i]
      /\ \A i \in DOMAIN q : \A v :
           /\ Replays(q, i, v) => Replays(toClient', i, v)
           /\ Carries(q, i, v) => Carries(toClient', i, v)
      /\ \A v :
           /\ Replays(q, Len(q), v) \/ v \in Replayed(f) => Replays(toClient', n, v)
           /\ Carries(q, Len(q), v) \/ v \in Carried(f) => Carries(toClient', n, v)
  BY <1>t, WireAppend
<1> HIDE DEF n
<1>1. ASSUME Handing PROVE ReplaysInOrder'
  <2> SUFFICES ASSUME NEW i \in DOMAIN toClient', NEW e \in Replayed(toClient'[i]),
                      NEW v \in Visible(1, e - 1)
               PROVE  Covered(v) \/ Replays(toClient', i, v)
    BY <1>v DEF ReplaysInOrder
  <2>1. CASE i \in DOMAIN q
    BY <1>1, <1>q, <2>1 DEF Wire, ReplaysInOrder
  <2>2. CASE i = n
    BY <1>1, <1>q, <2>2
  <2>3. QED
    BY <1>q, <2>1, <2>2
<1>2. ASSUME Handing PROVE CompletesCover'
  <2> SUFFICES ASSUME NEW i \in DOMAIN toClient', toClient'[i].t = "complete",
                      NEW v \in Visible(1, toClient'[i].cursor)
               PROVE  Covered(v) \/ Replays(toClient', i, v)
    BY <1>v DEF CompletesCover
  <2>1. CASE i \in DOMAIN q
    BY <1>2, <1>q, <2>1 DEF Wire, CompletesCover
  <2>2. CASE i = n
    BY <1>2, <1>q, <2>2
  <2>3. QED
    BY <1>q, <2>1, <2>2
<1>3. ASSUME Streaming PROVE LiveInOrder'
  <2> SUFFICES ASSUME NEW i \in DOMAIN toClient', toClient'[i].t = "event",
                      NEW v \in Visible(1, toClient'[i].geid - 1)
               PROVE  Expected(v) \/ Carries(toClient', i, v)
    BY <1>v DEF LiveInOrder
  <2>1. CASE i \in DOMAIN q
    BY <1>3, <1>q, <2>1 DEF Wire, LiveInOrder
  <2>2. CASE i = n
    BY <1>3, <1>q, <2>2
  <2>3. QED
    BY <1>q, <2>1, <2>2
<1>4. QED
  BY <1>v, <1>1, <1>2, <1>3 DEF Wire

\* A server step is invisible to the projection and to the pipe.
LEMMA ServerQuiet ==
    ASSUME FeedInv, UNCHANGED <<log, pc, machine, todo, store>>
    PROVE  Content' /\ Piped'
           /\ (toServer' = toServer => Hellos')
           /\ (snap' = snap /\ pc \in {"recv", "apply", "snapshot", "clear"}
                 => Sockets')
BY SMTT(40) DEF FeedInv, Content, Piped, Pipe, Gapless, Visible, Hellos, Sockets

\* The machine never lags behind the projection.
LEMMA MachineAhead ==
    ASSUME TypeOK, Piped, pc \in {"ready", "hello", "recv", "apply"}
    PROVE  /\ store.geid <= machine.geid
           /\ \A k \in DOMAIN Pipe : Pipe[k] <= machine.geid
<1>t. Pipe \in Seq(Nat) /\ machine.geid \in Nat /\ store.geid \in Nat
  BY FeedTypes DEF Pipe
<1>1. CASE Pipe = <<>>
  BY <1>t, <1>1 DEF Piped
<1>2. CASE Pipe # <<>>
  <2>1. Len(Pipe) \in DOMAIN Pipe /\ DOMAIN Pipe = 1..Len(Pipe) /\ Len(Pipe) \in Nat
    BY <1>t, <1>2
  <2>2. /\ Pipe[Len(Pipe)] = machine.geid /\ machine.geid > store.geid
        /\ \A k \in DOMAIN Pipe : k < Len(Pipe) => Pipe[k] < machine.geid
    BY <1>2, <2>1 DEF Piped, InOrder
  <2>3. \A k \in DOMAIN Pipe : Pipe[k] \in Nat
    BY <1>t
  <2>4. QED
    BY <1>t, <2>1, <2>2, <2>3
<1>3. QED
  BY <1>1, <1>2

\* What the projection has, the client neither waits for nor will accept.
LEMMA AppliedIsCovered ==
    ASSUME TypeOK, FeedInv, Streaming, NEW v \in Nat, v <= store.geid
    PROVE  Covered(v) /\ Expected(v)
<1>t. /\ machine.geid \in Nat /\ store.geid \in Nat
      /\ snap # NoSnapshot => snap[1] \in Nat
  BY FeedTypes
<1>1. CASE pc = "snapshot"
  BY <1>t, <1>1 DEF Streaming, FeedInv, Positions, Covered, Expected
<1>2. CASE pc # "snapshot"
  <2>1. store.geid <= machine.geid
    BY <1>2, MachineAhead DEF Streaming, FeedInv
  <2>2. QED
    BY <1>t, <1>2, <2>1 DEF Covered, Expected
<1>3. QED
  BY <1>1, <1>2

\* A new event of the log.
LEMMA FeedCommit ==
    ASSUME TypeOK, FeedInv, NEW k \in Kinds, Commit(k)
    PROVE  FeedInv'
<1>1. /\ log' = Append(log, k)
      /\ UNCHANGED <<session, toServer, toClient, snap, pc, machine, todo, store>>
  BY DEF Commit, taskVars, innerVars
<1>2. /\ Len(log') = Len(log) + 1 /\ Len(log) \in Nat
      /\ \A v \in 1..Len(log) : log'[v] = log[v]
  BY <1>1, LogGrows, FeedTypes
<1>t. /\ store.geid \in Nat /\ store.cursor \in Nat
      /\ toServer \in Seq(Nat) /\ Pipe \in Seq(Nat)
      /\ session.next \in Nat /\ session.high \in Nat /\ session.live \in Nat
      /\ snap # NoSnapshot => snap[1] \in Nat
  BY FeedTypes DEF Pipe
<1>v. ASSUME NEW lo \in Nat, NEW hi \in Nat, hi <= Len(log), lo > 0
      PROVE  Visible(lo, hi)' = Visible(lo, hi)
  BY <1>2, <1>v DEF Visible
<1>w. Visible(1, Len(log)) \subseteq Visible(1, Len(log))'
  BY <1>2 DEF Visible
<1>3. Positions'
  <2>1. \A i \in DOMAIN toClient :
          toClient[i].t = "complete" =>
            toClient[i].cursor \in Nat /\ toClient[i].cursor <= Len(log)
    BY CarriedTypes DEF FeedInv
  <2>2. /\ store.geid <= Len(log') /\ store.cursor <= Len(log')
        /\ snap # NoSnapshot => store.geid <= snap[1] /\ snap[1] <= Len(log')
    BY <1>2, <1>t DEF FeedInv, Positions
  <2>3. \A i \in DOMAIN toClient :
         /\ Carried(toClient[i]) \subseteq Visible(1, Len(log))'
         /\ toClient[i].t = "complete" => toClient[i].cursor <= Len(log')
    <3>1. \A i \in DOMAIN toClient :
             Carried(toClient[i]) \subseteq Visible(1, Len(log))'
      BY <1>w DEF FeedInv, Positions
    <3>2. QED
      BY <1>2, <2>1, <3>1
  <2>4. session.mode # "none" =>
         /\ session.next <= Len(log') + 1
         /\ session.high <= Len(log') /\ session.live <= Len(log')
    BY <1>2, <1>t DEF FeedInv, Positions
  <2>5. QED
    BY <1>1, <2>2, <2>3, <2>4 DEF Positions
<1>4. Sockets'
  BY <1>1 DEF FeedInv, Sockets
<1>5. Hellos'
  <2> SUFFICES ASSUME NEW i \in DOMAIN toServer
               PROVE  toServer[i] <= Len(log')
                      /\ Visible(store.geid + 1, toServer[i])' = {}
    BY <1>1 DEF Hellos
  <2>1. toServer[i] \in Nat /\ toServer[i] <= Len(log)
        /\ Visible(store.geid + 1, toServer[i]) = {}
    BY <1>t DEF FeedInv, Hellos
  <2>2. QED
    BY SMTT(40), <1>1, <1>2, <1>t, <2>1 DEF Visible
<1>6. Content'
  <2>1. store.geid <= Len(log) /\ store.cursor <= Len(log)
    BY DEF FeedInv, Positions
  <2>2. QED
    BY SMTT(40), <1>1, <1>2, <1>t, <2>1 DEF FeedInv, Content, Visible
<1>7. Piped'
  <2> SUFFICES ASSUME pc \in {"ready", "hello", "recv", "apply"} PROVE Gapless'
    BY <1>1 DEF FeedInv, Piped, Pipe
  <2> SUFFICES ASSUME NEW i \in DOMAIN Pipe
               PROVE  /\ Pipe[i] \in Visible(1, Len(log))'
                      /\ \A v \in Visible(1, Pipe[i] - 1)' :
                           v <= store.geid \/ \E m \in DOMAIN Pipe : Pipe[m] = v
    BY <1>1 DEF Gapless, Pipe
  <2>1. /\ Pipe[i] \in Visible(1, Len(log))
        /\ \A v \in Visible(1, Pipe[i] - 1) :
             v <= store.geid \/ \E m \in DOMAIN Pipe : Pipe[m] = v
    BY DEF FeedInv, Piped, Gapless
  <2>2. Pipe[i] - 1 \in Nat /\ Pipe[i] - 1 <= Len(log)
    BY <1>2, <2>1 DEF Visible
  <2>3. PICK x : x = Pipe[i] - 1
    OBVIOUS
  <2>4. Visible(1, x)' = Visible(1, x)
    BY <1>v, <2>2, <2>3
  <2>5. Pipe' = Pipe
    BY <1>1 DEF Pipe
  <2>6. Visible(1, Pipe[i] - 1)' = Visible(1, x)
    BY <2>3, <2>4, <2>5 DEF Visible
  <2>7. QED
    BY <1>w, <2>1, <2>3, <2>6
<1>8. Wire'
  <2>1. /\ Streaming' = Streaming /\ Handing' = Handing
        /\ \A v : Covered(v)' <=> Covered(v)
        /\ \A v : Expected(v)' <=> Expected(v)
    BY <1>1 DEF Streaming, Handing, Covered, Expected
  <2>2. QED
    BY <1>1, <1>2, <2>1, WireKept DEF FeedInv
<1>9. QED
  BY <1>3, <1>4, <1>5, <1>6, <1>7, <1>8 DEF FeedInv

\* The server takes up a hello: the handoff resumes where the projection is.
LEMMA FeedHello ==
    ASSUME TypeOK, FeedInv, ServerHello
    PROVE  FeedInv'
<1> DEFINE h == Head(toServer)
<1>1. /\ toServer # <<>> /\ toServer' = Tail(toServer)
      /\ session' = [mode |-> "replay", next |-> h + 1,
                     high |-> Len(log), live |-> Len(log)]
      /\ UNCHANGED <<log, toClient, snap, pc, machine, todo, store>>
  BY DEF ServerHello, taskVars, innerVars
<1>t. /\ store.geid \in Nat /\ Len(log) \in Nat /\ toServer \in Seq(Nat)
  BY FeedTypes
<1>2. /\ h \in Nat /\ h <= Len(log) /\ Visible(store.geid + 1, h) = {}
      /\ \A i \in DOMAIN Tail(toServer) : \E j \in DOMAIN toServer :
           Tail(toServer)[i] = toServer[j]
  <2>1. h = toServer[1] /\ 1 \in DOMAIN toServer /\ h \in Nat
    BY <1>1, <1>t
  <2>2. \A i \in DOMAIN Tail(toServer) : \E j \in DOMAIN toServer :
           Tail(toServer)[i] = toServer[j]
    <3>1. ASSUME NEW i \in DOMAIN Tail(toServer)
          PROVE  i + 1 \in DOMAIN toServer /\ Tail(toServer)[i] = toServer[i + 1]
      BY <1>1, <1>t
    <3>2. QED
      BY <3>1
  <2>3. QED
    BY <2>1, <2>2 DEF FeedInv, Hellos
<1>3. pc \in {"recv", "apply", "snapshot", "clear"}
  BY <1>1 DEF FeedInv, Sockets
<1>4. Positions'
  BY <1>1, <1>2, <1>t DEF FeedInv, Positions, Visible
<1>5. Hellos'
  BY <1>1, <1>2 DEF FeedInv, Hellos, Visible
<1>6. Content' /\ Piped' /\ Sockets'
  BY <1>1, <1>3, ServerQuiet
<1>7. Wire'
  <2>1. /\ Streaming' = Streaming /\ Handing' = Handing
        /\ \A v : (Covered(v)' <=> Covered(v)) /\ (Expected(v)' <=> Expected(v))
        /\ \A x, v : v \in Visible(1, x)' <=> v \in Visible(1, x)
    BY <1>1 DEF Streaming, Handing, Covered, Expected, Visible
  <2>2. /\ ReplaysInOrder' <=> ReplaysInOrder
        /\ CompletesCover' <=> CompletesCover
        /\ LiveInOrder' <=> LiveInOrder
    BY <1>1, <2>1 DEF ReplaysInOrder, CompletesCover, LiveInOrder
  <2>3. ASSUME NEW v \in Visible(1, h)
        PROVE  v \in Nat /\ v <= store.geid
    <3>1. v \notin Visible(store.geid + 1, h) /\ v \in Visible(1, h)
      BY <1>2
    <3>2. QED
      BY <1>t, <1>2, <3>1 DEF Visible
  <2>4. ASSUME Handing PROVE HandoffSent'
    <3>1. \A v \in Visible(1, h) : Covered(v)
      BY <2>3, <2>4, AppliedIsCovered DEF Handing
    <3>2. session'.next - 1 = h
      BY <1>1, <1>2
    <3>3. QED
      BY <2>1, <3>1, <3>2 DEF HandoffSent
  <2>5. ASSUME Streaming PROVE LiveSent'
    <3>1. ASSUME NEW v \in Visible(1, Len(log)), ~Expected(v)
          PROVE  v \in Visible(h + 1, Len(log))
      <4>1. v \notin Visible(1, h)
        BY <2>3, <2>5, <3>1, AppliedIsCovered
      <4>2. QED
        BY <1>2, <1>t, <4>1 DEF Visible
    <3>2. Unsent' = Visible(h + 1, Len(log))
      BY <1>1 DEF Unsent, Visible
    <3>3. session'.live = Len(log)
      BY <1>1
    <3>4. QED
      BY <2>1, <3>1, <3>2, <3>3 DEF LiveSent
  <2>6. QED
    BY <2>1, <2>2, <2>4, <2>5 DEF Wire, FeedInv
<1>8. QED
  BY <1>4, <1>5, <1>6, <1>7 DEF FeedInv

\* A session that streams: its positions are natural numbers.
LEMMA SessionTypes ==
    ASSUME TypeOK, session.mode # "none"
    PROVE  /\ session \in [mode : {"replay", "live"}, next : Nat \ {0},
                           high : Nat, live : Nat]
           /\ session.next - 1 \in Nat
<1>1. session # NoSession
  BY DEF NoSession
<1>2. QED
  BY <1>1 DEF TypeOK

\* The positions after a frame has been sent.
LEMMA PositionsSent ==
    ASSUME TypeOK, Positions, NEW f \in Frames, toClient' = Append(toClient, f),
           UNCHANGED <<log, store, snap>>,
           Carried(f) \subseteq Visible(1, Len(log)),
           f.t = "complete" => f.cursor <= Len(log),
           session'.mode # "none" =>
             /\ session'.next <= Len(log) + 1
             /\ session'.high <= Len(log) /\ session'.live <= Len(log)
    PROVE  Positions'
<1>1. /\ DOMAIN toClient' = DOMAIN toClient \cup {Len(toClient) + 1}
      /\ toClient'[Len(toClient) + 1] = f
      /\ \A i \in DOMAIN toClient : toClient'[i] = toClient[i]
  BY SMTT(40), WireAppend, FeedTypes
<1>2. Visible(1, Len(log))' = Visible(1, Len(log))
  BY DEF Visible
<1>3. \A i \in DOMAIN toClient' :
         /\ Carried(toClient'[i]) \subseteq Visible(1, Len(log))
         /\ toClient'[i].t = "complete" => toClient'[i].cursor <= Len(log)
  BY <1>1 DEF Positions
<1>4. QED
  BY <1>2, <1>3 DEF Positions

\* What the wire carries after a frame has been sent.
LEMMA CarriedSent ==
    ASSUME TypeOK, NEW f \in Frames, toClient' = Append(toClient, f)
    PROVE  \A v :
             /\ Replays(toClient, Len(toClient), v) \/ v \in Replayed(f)
                  => Replays(toClient', Len(toClient'), v)
             /\ Carries(toClient, Len(toClient), v) \/ v \in Carried(f)
                  => Carries(toClient', Len(toClient'), v)
<1>1. toClient \in Seq(Frames)
  BY FeedTypes
<1>2. Len(toClient') = Len(toClient) + 1
  BY <1>1
<1>3. QED
  BY <1>1, <1>2, WireAppend

\* A replay batch, in order and without a gap.
LEMMA FeedReplay ==
    ASSUME TypeOK, FeedInv, ServerReplay
    PROVE  FeedInv'
<1>1. PICK n \in 1..MaxLog : \E events \in [1..n -> Unsent] :
         /\ InOrder(session.next - 1, events)
         /\ \A g \in Unsent : g < events[n] => \E i \in 1..n : events[i] = g
         /\ toClient' = Append(toClient,
               [t |-> "replay", from |-> events[1], to |-> events[n],
                events |-> events])
         /\ session' = [session EXCEPT !.next = events[n] + 1]
  BY DEF ServerReplay
<1>2. PICK events \in [1..n -> Unsent] :
         /\ InOrder(session.next - 1, events)
         /\ \A g \in Unsent : g < events[n] => \E i \in 1..n : events[i] = g
         /\ toClient' = Append(toClient,
               [t |-> "replay", from |-> events[1], to |-> events[n],
                events |-> events])
         /\ session' = [session EXCEPT !.next = events[n] + 1]
  BY <1>1
<1> DEFINE f == [t |-> "replay", from |-> events[1], to |-> events[n],
                 events |-> events]
           last == events[n]
<1>3. UNCHANGED <<log, toServer, snap, pc, machine, todo, store>>
  BY DEF ServerReplay, taskVars, innerVars
<1>4. n \in Nat /\ 1 \in 1..n /\ n \in 1..n
  BY BoundsAssumption DEF BoundsAssumption
<1>5. session.mode = "replay" /\ Unsent = Visible(session.next, session.high)
  BY <1>4, <1>2 DEF Unsent
<1>t. /\ session.next \in Nat /\ session.next > 0 /\ session.high \in Nat
      /\ session.live \in Nat /\ Len(log) \in Nat /\ session.high <= Len(log)
      /\ session.live <= Len(log)
      /\ session \in [mode : {"replay", "live"}, next : Nat \ {0},
                      high : Nat, live : Nat]
  BY <1>5, SessionTypes, FeedTypes DEF FeedInv, Positions
<1>6. \A g \in Unsent : /\ g \in Nat /\ session.next <= g /\ g <= session.high
                        /\ log[g] # "hidden" /\ g \in Visible(1, Len(log))
  BY <1>5, <1>t DEF Visible
<1>7. /\ \A i \in 1..n : events[i] \in Nat /\ events[i] \in Unsent
      /\ last \in Nat /\ last \in Unsent /\ last <= session.high
      /\ session.next <= last
  BY <1>4, <1>6
<1>8. f \in Frames /\ Replayed(f) = {events[i] : i \in 1..n} /\ Carried(f) = Replayed(f)
  <2>1. events \in Seq(Nat) /\ DOMAIN events = 1..n
    BY <1>4, <1>7
  <2>2. f \in Frames
    BY <1>4, <1>7, <2>1 DEF Frames
  <2>3. QED
    BY <2>1, <2>2 DEF Replayed, Carried
<1>9. \A e \in Replayed(f) : e \in Unsent /\ e \in Nat /\ e <= last
  <2>1. \A i \in 1..n : events[i] <= last
    <3>1. \A i \in 1..n : i < n => events[i] < last
      BY <1>2, <1>4 DEF InOrder
    <3>2. QED
      BY <1>4, <1>7, <3>1
  <2>2. QED
    BY <1>7, <1>8, <2>1
<1>10. session' = [session EXCEPT !.next = last + 1] /\ toClient' = Append(toClient, f)
  BY <1>2
<1>11. \A g \in Unsent : g <= last => g \in Replayed(f)
  BY <1>2, <1>4, <1>6, <1>7, <1>8
<1> HIDE DEF f, last
<1>12. /\ session'.mode = "replay" /\ session'.next = last + 1
       /\ session'.high = session.high /\ session'.live = session.live
  BY <1>t, <1>10, <1>5
<1>13. Positions'
  <2>1. Carried(f) \subseteq Visible(1, Len(log)) /\ f.t # "complete"
    <3>1. f.t = "replay"
      BY DEF f
    <3>2. QED
      BY <1>6, <1>8, <1>9, <3>1
  <2>2. last + 1 <= Len(log) + 1
    BY <1>t, <1>7 DEF last
  <2>3. QED
    BY <1>3, <1>8, <1>10, <1>12, <1>t, <2>1, <2>2, PositionsSent DEF FeedInv
<1>14. pc \in {"recv", "apply", "snapshot", "clear"}
  BY <1>5 DEF FeedInv, Sockets, NoSession
<1>15. Content' /\ Piped' /\ Hellos' /\ Sockets'
  BY <1>3, <1>14, ServerQuiet
<1>16. \A v :
         /\ Replays(toClient, Len(toClient), v) \/ v \in Replayed(f)
              => Replays(toClient', Len(toClient'), v)
         /\ Carries(toClient, Len(toClient), v) \/ v \in Carried(f)
              => Carries(toClient', Len(toClient'), v)
  BY <1>8, <1>10, CarriedSent
<1>17. ASSUME Handing, NEW v \in Visible(1, last)
       PROVE  \/ Covered(v) \/ Replays(toClient, Len(toClient), v)
              \/ v \in Replayed(f)
  <2>0. v \in Nat /\ v <= last /\ last <= session.high /\ last \in Nat
    BY <1>7, <1>17 DEF Visible, last
  <2>1. CASE v <= session.next - 1
    <3>1. v \in Visible(1, session.next - 1)
      BY <1>t, <1>17, <2>1 DEF Visible
    <3>2. QED
      BY <1>5, <1>17, <3>1 DEF FeedInv, Wire, HandoffSent
  <2>2. CASE v >= session.next
    <3>1. v \in Unsent
      BY <1>t, <1>5, <1>17, <2>0, <2>2 DEF Visible
    <3>2. QED
      BY <1>11, <2>0, <3>1
  <2>3. QED
    BY <1>t, <2>0, <2>1, <2>2
<1>18. \A x, v : v \in Visible(1, x)' <=> v \in Visible(1, x)
  BY <1>3 DEF Visible
<1>19. /\ Streaming' = Streaming /\ Handing' = Handing
       /\ \A v : (Covered(v)' <=> Covered(v)) /\ (Expected(v)' <=> Expected(v))
  BY <1>3 DEF Streaming, Handing, Covered, Expected
<1>20. Handing => HandoffSent'
  <2>1. session'.next - 1 = last
    BY <1>12, <1>7 DEF last
  <2>2. QED
    BY <1>16, <1>17, <1>18, <1>19, <2>1 DEF HandoffSent
<1>21. Streaming => LiveSent'
  <2> SUFFICES ASSUME Streaming, NEW v \in Visible(1, session.live)
               PROVE  \/ Expected(v) \/ v \in Unsent'
                      \/ Carries(toClient', Len(toClient'), v)
    BY <1>12, <1>18, <1>19 DEF LiveSent
  <2>1. Expected(v) \/ v \in Unsent \/ Carries(toClient, Len(toClient), v)
    BY <1>5 DEF FeedInv, Wire, LiveSent
  <2>2. ASSUME v \in Unsent PROVE v \in Unsent' \/ v \in Carried(f)
    <3>1. CASE v <= last
      BY <1>8, <1>11, <2>2, <3>1
    <3>2. CASE ~(v <= last)
      <4>1. last \in Nat
        BY <1>7 DEF last
      <4>2. Unsent' = Visible(last + 1, session.high)
        BY <1>3, <1>12 DEF Unsent, Visible
      <4>3. QED
        BY <1>6, <1>t, <2>2, <3>2, <4>1, <4>2 DEF Visible
    <3>3. QED
      BY <3>1, <3>2
  <2>3. QED
    BY <1>16, <2>1, <2>2
<1>22. Wire'
  <2>1. f.t = "replay"
    BY DEF f
  <2>2. ASSUME Handing, NEW e \in Replayed(f), NEW v \in Visible(1, e - 1)
        PROVE  \/ Covered(v) \/ Replays(toClient, Len(toClient), v)
               \/ v \in Replayed(f)
    <3>1. v \in Visible(1, last)
      <4>1. last \in Nat /\ e \in Nat /\ e <= last
        BY <1>7, <1>9 DEF last
      <4>2. QED
        BY <4>1 DEF Visible
    <3>2. QED
      BY <1>17, <2>2, <3>1
  <2>3. QED
    BY <1>3, <1>8, <1>10, <1>20, <1>21, <2>1, <2>2, WireSent DEF FeedInv
<1>23. QED
  BY <1>13, <1>15, <1>22 DEF FeedInv

\* The end of a handoff, a live event, and frames that carry no event.
LEMMA FeedFrames ==
    ASSUME TypeOK, FeedInv, ~LiveDuringReplay, ~CompleteCoversLive,
           \/ ServerEmptyReplay \/ ServerComplete \/ ServerLive
           \/ ServerPush \/ ServerTerminal
    PROVE  FeedInv'
<1>1. UNCHANGED <<log, toServer, snap, pc, machine, todo, store>>
  BY DEF ServerEmptyReplay, ServerComplete, ServerLive, ServerPush,
         ServerTerminal, taskVars, innerVars
<1>2. session.mode # "none"
  BY DEF ServerEmptyReplay, ServerComplete, ServerLive, ServerPush, ServerTerminal
<1>t. /\ session.next \in Nat /\ session.next > 0 /\ session.high \in Nat
      /\ session.live \in Nat /\ Len(log) \in Nat /\ session.high <= Len(log)
      /\ session.live <= Len(log) /\ session.next <= Len(log) + 1
      /\ session \in [mode : {"replay", "live"}, next : Nat \ {0},
                      high : Nat, live : Nat]
  BY <1>2, SessionTypes, FeedTypes DEF FeedInv, Positions
<1>3. pc \in {"recv", "apply", "snapshot", "clear"}
  BY <1>2 DEF FeedInv, Sockets, NoSession
<1>4. Content' /\ Piped' /\ Hellos' /\ Sockets'
  BY <1>1, <1>3, ServerQuiet
<1>5. \A x, y, v : v \in Visible(x, y)' <=> v \in Visible(x, y)
  BY <1>1 DEF Visible
<1>6. /\ Streaming' = Streaming /\ Handing' = Handing
      /\ \A v : (Covered(v)' <=> Covered(v)) /\ (Expected(v)' <=> Expected(v))
  BY <1>1 DEF Streaming, Handing, Covered, Expected
<1>7. Handing => Streaming
  BY DEF Handing
\* While a handoff has nothing left to send, it has covered its high-water.
<1>8. ASSUME Handing, session.mode = "replay", Unsent = {},
             NEW v \in Visible(1, session.high)
      PROVE  Covered(v) \/ Replays(toClient, Len(toClient), v)
  <2>1. v \in Visible(1, session.next - 1)
    <3>1. v \notin Visible(session.next, session.high)
      BY <1>8 DEF Unsent
    <3>2. QED
      BY <1>t, <1>8, <3>1 DEF Visible
  <2>2. QED
    BY <1>8, <2>1 DEF FeedInv, Wire, HandoffSent
\* A frame without events, in a session that goes on unharmed.
<1>9. ASSUME NEW f \in Frames, toClient' = Append(toClient, f),
             Replayed(f) = {}, Carried(f) = {},
             f.t # "event",
             f.t = "complete" => f.cursor <= Len(log),
             Handing /\ f.t = "complete" => \A v \in Visible(1, f.cursor) :
               Covered(v) \/ Replays(toClient, Len(toClient), v),
             session'.mode # "none" =>
               /\ session'.next <= Len(log) + 1
               /\ session'.high <= Len(log) /\ session'.live = session.live,
             Handing /\ session'.mode = "replay" => \A v \in Visible(1, session'.next - 1) :
               Covered(v) \/ Replays(toClient, Len(toClient), v),
             session'.mode # "none" => Unsent \subseteq Unsent'
      PROVE  FeedInv'
  <2>1. Positions'
    BY <1>1, <1>9, <1>t, PositionsSent DEF FeedInv
  <2>2. \A v :
         /\ Replays(toClient, Len(toClient), v) => Replays(toClient', Len(toClient'), v)
         /\ Carries(toClient, Len(toClient), v) => Carries(toClient', Len(toClient'), v)
    BY <1>9, CarriedSent
  <2>3. Handing => HandoffSent'
    BY <1>5, <1>6, <1>9, <2>2 DEF HandoffSent
  <2>4. Streaming => LiveSent'
    <3> SUFFICES ASSUME Streaming, session'.mode # "none",
                        NEW v \in Visible(1, session.live)
                 PROVE  \/ Expected(v) \/ v \in Unsent'
                        \/ Carries(toClient', Len(toClient'), v)
      BY <1>5, <1>6, <1>9 DEF LiveSent
    <3>1. Expected(v) \/ v \in Unsent \/ Carries(toClient, Len(toClient), v)
      BY <1>2 DEF FeedInv, Wire, LiveSent
    <3>2. QED
      BY <1>9, <2>2, <3>1
  <2>5. Wire'
    BY <1>1, <1>9, <2>3, <2>4, WireSent DEF FeedInv
  <2>6. QED
    BY <1>4, <2>1, <2>5 DEF FeedInv
<1>10. CASE ServerEmptyReplay
  <2> DEFINE f == [t |-> "replay", from |-> session.next - 1,
                   to |-> session.next - 1, events |-> <<>>]
  <2>1. /\ session.mode = "replay" /\ Unsent = {} /\ toClient' = Append(toClient, f)
        /\ session' = [session EXCEPT !.next = session.high + 1]
    BY <1>10 DEF ServerEmptyReplay
  <2>2. f \in Frames
    BY <1>t DEF Frames
  <2>3. Replayed(f) = {} /\ Carried(f) = {} /\ f.t = "replay"
    BY DEF Replayed, Carried
  <2> HIDE DEF f
  <2>4. /\ session'.mode = "replay" /\ session'.next = session.high + 1
        /\ session'.high = session.high /\ session'.live = session.live
        /\ session'.next - 1 = session.high
    BY <1>t, <2>1
  <2>5. QED
    BY <1>t, <1>8, <1>9, <2>1, <2>2, <2>3, <2>4
<1>11. CASE ServerComplete
  <2> DEFINE f == [t |-> "complete", cursor |-> session.high]
  <2>1. /\ session.mode = "replay" /\ Unsent = {} /\ toClient' = Append(toClient, f)
        /\ session' = [session EXCEPT !.mode = "live"]
    BY <1>11 DEF ServerComplete
  <2>2. f \in Frames
    BY <1>t DEF Frames
  <2>3. Replayed(f) = {} /\ Carried(f) = {} /\ f.t = "complete" /\ f.cursor = session.high
    BY DEF Replayed, Carried
  <2> HIDE DEF f
  <2>4. /\ session'.mode = "live" /\ session'.next = session.next
        /\ session'.high = session.high /\ session'.live = session.live
    BY <1>t, <2>1
  <2>5. QED
    BY <1>t, <1>8, <1>9, <2>1, <2>2, <2>3, <2>4
<1>12. CASE ServerLive
  <2>1. Unsent = {}
    BY <1>12 DEF ServerLive
  <2>2. PICK g \in Visible(session.live + 1, Len(log)) :
          /\ Visible(session.live + 1, g - 1) = {}
          /\ toClient' = Append(toClient, [t |-> "event", geid |-> g])
          /\ session' = [session EXCEPT !.live = g]
    BY <1>12 DEF ServerLive
  <2> DEFINE f == [t |-> "event", geid |-> g]
  <2>3. g \in Nat /\ g <= Len(log) /\ session.live < g /\ g \in Visible(1, Len(log))
    BY <1>t DEF Visible
  <2>4. /\ f \in Frames /\ f.t = "event" /\ f.geid = g
        /\ Replayed(f) = {} /\ Carried(f) = {g}
    BY <2>3 DEF Frames, Replayed, Carried
  <2> HIDE DEF f
  <2>5. toClient' = Append(toClient, f)
    BY <2>2 DEF f
  <2>6. /\ session'.mode = session.mode /\ session'.next = session.next
        /\ session'.high = session.high /\ session'.live = g
    BY <1>t, <2>2
  <2>7. Positions'
    BY <1>1, <1>t, <2>3, <2>4, <2>5, <2>6, PositionsSent DEF FeedInv
  <2>8. \A v :
         /\ Replays(toClient, Len(toClient), v) => Replays(toClient', Len(toClient'), v)
         /\ Carries(toClient, Len(toClient), v) \/ v = g
              => Carries(toClient', Len(toClient'), v)
    BY <2>4, <2>5, CarriedSent
  <2>9. ASSUME Streaming, NEW v \in Visible(1, g - 1)
        PROVE  Expected(v) \/ Carries(toClient, Len(toClient), v)
    <3>1. v \notin Visible(session.live + 1, g - 1)
      BY <2>2
    <3>2. v \in Visible(1, session.live)
      BY <1>t, <2>3, <2>9, <3>1 DEF Visible
    <3>3. QED
      BY <1>2, <2>1, <2>9, <3>2 DEF FeedInv, Wire, LiveSent
  <2>10. Streaming => LiveSent'
    <3> SUFFICES ASSUME Streaming, NEW v \in Visible(1, g)
                 PROVE  Expected(v) \/ Carries(toClient', Len(toClient'), v)
      BY <1>5, <1>6, <2>6 DEF LiveSent
    <3>1. v = g \/ v \in Visible(1, g - 1)
      BY <2>3 DEF Visible
    <3>2. QED
      BY <2>8, <2>9, <3>1
  <2>11. Handing => HandoffSent'
    <3> SUFFICES ASSUME Handing, session.mode = "replay",
                        NEW v \in Visible(1, session.next - 1)
                 PROVE  Covered(v) \/ Replays(toClient', Len(toClient'), v)
      BY <1>5, <1>6, <2>6 DEF HandoffSent
    <3>1. Covered(v) \/ Replays(toClient, Len(toClient), v)
      BY DEF FeedInv, Wire, HandoffSent
    <3>2. QED
      BY <2>8, <3>1
  <2>12. Wire'
    BY <1>1, <2>4, <2>5, <2>9, <2>10, <2>11, WireSent DEF FeedInv
  <2>13. QED
    BY <1>4, <2>7, <2>12 DEF FeedInv
<1>a. Handing /\ session.mode = "replay" => \A v \in Visible(1, session.next - 1) :
        Covered(v) \/ Replays(toClient, Len(toClient), v)
  BY DEF FeedInv, Wire, HandoffSent
<1>b. session' = session => Unsent \subseteq Unsent'
  BY <1>1 DEF Unsent, Visible
<1>13. CASE ServerPush
  <2>1. PICK f \in {[t |-> "required"], [t |-> "state_unknown"]} :
          toClient' = Append(toClient, f) /\ (session' = NoSession \/ session' = session)
    BY <1>13 DEF ServerPush
  <2>2. /\ f \in Frames /\ Replayed(f) = {} /\ Carried(f) = {}
        /\ f.t # "event" /\ f.t # "complete"
    BY DEF Frames, Replayed, Carried
  <2>3. CASE session' = NoSession
    <3>1. session'.mode = "none"
      BY <2>3 DEF NoSession
    <3>2. QED
      BY <1>9, <2>1, <2>2, <3>1
  <2>4. CASE session' = session
    BY <1>a, <1>b, <1>t, <1>9, <2>1, <2>2, <2>4
  <2>5. QED
    BY <2>1, <2>3, <2>4
<1>14. CASE ServerTerminal
  <2> DEFINE f == [t |-> "terminal"]
  <2>1. toClient' = Append(toClient, f) /\ session' = session
    BY <1>14 DEF ServerTerminal
  <2>2. /\ f \in Frames /\ Replayed(f) = {} /\ Carried(f) = {}
        /\ f.t # "event" /\ f.t # "complete"
    BY DEF Frames, Replayed, Carried
  <2> HIDE DEF f
  <2>3. QED
    BY <1>a, <1>b, <1>t, <1>9, <2>1, <2>2
<1>15. QED
  BY <1>10, <1>11, <1>12, <1>13, <1>14

\* The snapshot is taken: it covers every event there is.
LEMMA FeedSnapshot ==
    ASSUME TypeOK, FeedInv, ServerSnapshot
    PROVE  FeedInv'
<1>1. /\ pc = "snapshot" /\ snap' = <<Len(log)>>
      /\ UNCHANGED <<log, session, toServer, toClient, pc, machine, todo, store>>
  BY DEF ServerSnapshot, taskVars, innerVars
<1>t. Len(log) \in Nat /\ store.geid \in Nat
  BY FeedTypes
<1>2. snap' # NoSnapshot /\ snap'[1] = Len(log)
  BY <1>1 DEF NoSnapshot
<1>3. Content' /\ Piped' /\ Hellos'
  BY <1>1, ServerQuiet
<1>4. Sockets'
  BY <1>1 DEF FeedInv, Sockets
<1>5. Positions'
  BY <1>1, <1>2, <1>t DEF FeedInv, Positions, Visible
<1>6. \A v \in Nat : v <= Len(log) => Covered(v)' /\ Expected(v)'
  BY <1>1, <1>2 DEF Covered, Expected
<1>7. \A x, v : v \in Visible(1, x)' <=> v \in Visible(1, x)
  BY <1>1 DEF Visible
<1>8. ASSUME NEW x \in Nat, x <= Len(log), NEW v \in Visible(1, x)
      PROVE  Covered(v)' /\ Expected(v)'
  BY <1>6, <1>8, <1>t DEF Visible
<1>9. ReplaysInOrder' /\ CompletesCover' /\ LiveInOrder'
  <2>1. ASSUME NEW i \in DOMAIN toClient, NEW e \in Carried(toClient[i]),
               NEW v \in Visible(1, e - 1)
        PROVE  Covered(v)' /\ Expected(v)'
    <3>1. e - 1 \in Nat /\ e - 1 <= Len(log)
      BY <1>t, CarriedTypes DEF FeedInv
    <3>2. QED
      BY <1>8, <3>1
  <2>2. \A i \in DOMAIN toClient :
          /\ Replayed(toClient[i]) \subseteq Carried(toClient[i])
          /\ toClient[i].t = "event" => toClient[i].geid \in Carried(toClient[i])
          /\ toClient[i].t = "complete" =>
               toClient[i].cursor \in Nat /\ toClient[i].cursor <= Len(log)
    BY CarriedTypes DEF FeedInv
  <2>3. ReplaysInOrder'
    BY <1>1, <1>7, <2>1, <2>2 DEF ReplaysInOrder
  <2>4. CompletesCover'
    BY <1>1, <1>7, <1>8, <2>2 DEF CompletesCover
  <2>5. LiveInOrder'
    BY <1>1, <1>7, <2>1, <2>2 DEF LiveInOrder
  <2>6. QED
    BY <2>3, <2>4, <2>5
<1>10. HandoffSent' /\ LiveSent'
  <2>1. session.mode # "none" =>
          /\ session.next - 1 \in Nat /\ session.next - 1 <= Len(log)
          /\ session.live \in Nat /\ session.live <= Len(log)
    BY FeedTypes DEF FeedInv, Positions
  <2>2. QED
    BY <1>1, <1>7, <1>8, <2>1 DEF HandoffSent, LiveSent
<1>11. QED
  BY <1>3, <1>4, <1>5, <1>9, <1>10 DEF FeedInv, Wire

\* The positions after a frame has been taken.
LEMMA PositionsTaken ==
    ASSUME TypeOK, Positions, UNCHANGED <<log, session>>,
           \/ toClient' = toClient
           \/ toClient # <<>> /\ toClient' = Tail(toClient),
           store'.geid <= Len(log), store'.cursor <= Len(log),
           \/ snap' = NoSnapshot
           \/ snap' = snap /\ store'.geid = store.geid
    PROVE  Positions'
<1>1. \A i \in DOMAIN toClient' : \E j \in DOMAIN toClient : toClient'[i] = toClient[j]
  <2>1. CASE toClient' = toClient
    BY <2>1
  <2>2. CASE toClient # <<>> /\ toClient' = Tail(toClient)
    BY <2>2, WireTail, FeedTypes
  <2>3. QED
    BY <2>1, <2>2
<1>2. Visible(1, Len(log))' = Visible(1, Len(log))
  BY DEF Visible
<1>3. \A i \in DOMAIN toClient' :
         /\ Carried(toClient'[i]) \subseteq Visible(1, Len(log))'
         /\ toClient'[i].t = "complete" => toClient'[i].cursor <= Len(log)
  BY <1>1, <1>2 DEF Positions
<1>4. QED
  BY <1>3 DEF Positions

\* The generation ends, or a resync begins: the wire no longer counts.
LEMMA FeedEnds ==
    ASSUME TypeOK, FeedInv, UNCHANGED <<log, session, toServer, store>>,
           \/ toClient' = toClient
           \/ toClient # <<>> /\ toClient' = Tail(toClient),
           \/ pc # "snapshot" /\ Resync /\ snap' = snap
           \/ \E r : EndSocket(r)
    PROVE  FeedInv'
<1>1. /\ pc' \in {"snapshot", "clear"} /\ todo' = <<>> /\ snap' = NoSnapshot
  BY DEF Resync, EndSocket, FeedInv, Sockets
<1>2. Positions'
  BY <1>1, PositionsTaken DEF FeedInv, Positions
<1>3. Sockets'
  BY <1>1 DEF Sockets
<1>4. Hellos' /\ Content'
  BY DEF FeedInv, Hellos, Content, Visible
<1>5. Piped' /\ Wire'
  BY <1>1 DEF Piped, Wire, Handing, Streaming
<1>6. QED
  BY <1>2, <1>3, <1>4, <1>5 DEF FeedInv

\* Outside a socket generation there is nothing to keep but the projection.
LEMMA FeedOutside ==
    ASSUME FeedInv,
           pc \notin {"recv", "apply", "snapshot", "clear"},
           pc' \notin {"ready", "hello", "recv", "apply", "snapshot"},
           UNCHANGED <<log, session, toServer, toClient, snap, machine, todo, store>>
    PROVE  FeedInv'
<1>1. Positions' /\ Hellos' /\ Content'
  BY DEF FeedInv, Positions, Hellos, Content, Visible
<1>2. Sockets' /\ Piped' /\ Wire'
  BY DEF FeedInv, Sockets, Piped, Wire, Handing, Streaming
<1>3. QED
  BY <1>1, <1>2 DEF FeedInv

\* A new socket, and its first frame.
LEMMA FeedConnected ==
    ASSUME TypeOK, FeedInv, pc = "connect", pc' = "ready",
           toClient' = <<[t |-> "ready"]>>,
           machine' = BeginConnecting(New(store)),
           UNCHANGED <<log, session, toServer, snap, todo, store>>
    PROVE  FeedInv'
<1>1. /\ machine'.cursor = store.cursor /\ machine'.geid = store.geid
      /\ machine'.queued = <<>> /\ machine'.phase = "Connecting"
  BY DEF BeginConnecting, New
<1>2. /\ DOMAIN toClient' = {1} /\ toClient'[1].t = "ready"
      /\ Replayed(toClient'[1]) = {} /\ Carried(toClient'[1]) = {}
  BY DEF Replayed, Carried
<1>3. session' = NoSession /\ session'.mode = "none" /\ toServer' = <<>>
      /\ todo' = <<>> /\ snap' = NoSnapshot
  BY DEF FeedInv, Sockets, NoSession
<1>4. Positions'
  BY <1>2, <1>3 DEF FeedInv, Positions
<1>5. Sockets'
  BY <1>1, <1>2, <1>3 DEF FeedInv, Sockets
<1>6. Hellos' /\ Content'
  BY <1>3 DEF FeedInv, Hellos, Content, Visible
<1>7. Piped'
  <2>1. Pipe' = <<>>
    BY <1>1, <1>3 DEF Pipe
  <2>2. QED
    BY <1>1, <1>3, <2>1 DEF Piped, Gapless, InOrder
<1>8. Wire'
  BY <1>2, <1>3 DEF Wire, ReplaysInOrder, CompletesCover, HandoffSent,
                    LiveInOrder, LiveSent
<1>9. QED
  BY <1>4, <1>5, <1>6, <1>7, <1>8 DEF FeedInv

\* connection.ready, and the hello that follows it.
LEMMA FeedReady ==
    ASSUME TypeOK, BarrierInv, FeedInv, ReceiveReady
    PROVE  FeedInv'
<1>1. /\ pc = "ready" /\ pc' = "hello"
      /\ toClient # <<>> /\ toClient' = Tail(toClient)
      /\ machine' = BeginSync(AcceptReady(machine))
      /\ UNCHANGED <<log, session, toServer, snap, todo, store>>
  BY DEF ReceiveReady
<1>2. /\ machine'.cursor = machine.cursor /\ machine'.geid = machine.geid
      /\ machine'.queued = <<>> /\ machine'.phase = "Syncing"
  BY <1>1 DEF BeginSync, AcceptReady, TypeOK, Machines
<1>3. /\ session = NoSession /\ session.mode = "none" /\ todo = <<>>
      /\ snap = NoSnapshot /\ toServer = <<>>
  BY <1>1 DEF FeedInv, Sockets, NoSession
<1>4. \A i \in DOMAIN toClient : toClient[i].t = "ready"
  BY <1>1 DEF FeedInv, Sockets
<1>5. \A i \in DOMAIN toClient' : toClient'[i].t = "ready"
  BY <1>1, <1>4, WireTail, FeedTypes
<1>6. Positions'
  BY <1>1, PositionsTaken DEF FeedInv, Positions
<1>7. Sockets'
  BY <1>1, <1>2, <1>3, <1>5 DEF FeedInv, Sockets
<1>8. Hellos' /\ Content'
  BY <1>1 DEF FeedInv, Hellos, Content, Visible
<1>9. Piped'
  <2>1. Pipe' = <<>> /\ machine'.geid = store'.geid
    BY <1>1, <1>2, <1>3 DEF Pipe, BarrierInv, Fresh
  <2>2. QED
    BY <1>1, <1>2, <1>3, <2>1 DEF Piped, Gapless, InOrder
<1>10. Wire'
  BY <1>1, <1>3, <1>5 DEF Wire, ReplaysInOrder, CompletesCover, HandoffSent,
                    LiveInOrder, LiveSent, Replayed, Carried
<1>11. QED
  BY <1>6, <1>7, <1>8, <1>9, <1>10 DEF FeedInv

\* sync.hello asks to resume at the cursor of the projection.
LEMMA FeedSendHello ==
    ASSUME TypeOK, FeedInv, SendHello
    PROVE  FeedInv'
<1>1. /\ pc = "hello" /\ pc' = "recv"
      /\ toServer' = Append(toServer, machine.cursor)
      /\ UNCHANGED <<log, session, toClient, snap, machine, todo, store>>
  BY DEF SendHello
<1>2. toServer = <<>> /\ machine.cursor = store.cursor /\ toServer' = <<store.cursor>>
  BY <1>1 DEF FeedInv, Sockets
<1>3. Positions' /\ Sockets' /\ Content' /\ Piped'
  BY <1>1 DEF FeedInv, Positions, Sockets, Content, Piped, Pipe, Gapless, Visible
<1>4. Hellos'
  BY <1>1, <1>2 DEF FeedInv, Hellos, Content, Positions, Visible
<1>5. Wire'
  <2>1. /\ Streaming' /\ Streaming /\ Handing' = Handing
        /\ \A v : Covered(v)' <=> Covered(v)
        /\ \A v : Expected(v)' <=> Expected(v)
    BY <1>1 DEF Streaming, Handing, Covered, Expected
  <2>2. QED
    BY <1>1, <2>1, WireKept DEF FeedInv
<1>6. QED
  BY <1>3, <1>4, <1>5 DEF FeedInv

\* A replay batch that is accepted continues the projection: a queued live
\* event below it would be a gap the batch does not have.
LEMMA FeedReplayed ==
    ASSUME TypeOK, FeedInv, Receive("replay"),
           ReplayVerdict(machine, Head(toClient)) = "ok",
           machine' = AcceptReplay(machine, Head(toClient)),
           Accept(Head(toClient).events, FALSE), UNCHANGED store
    PROVE  FeedInv'
<1> DEFINE f == Head(toClient)
           es == f.events
           n == Len(es)
<1>1. /\ pc = "recv" /\ pc' = "apply" /\ toClient # <<>> /\ f.t = "replay"
      /\ toClient' = Tail(toClient) /\ todo' = es
      /\ UNCHANGED <<log, session, toServer, snap, store>>
  BY DEF Receive, Accept
<1>t. /\ toClient \in Seq(Frames) /\ f \in Frames /\ es \in Seq(Nat)
      /\ machine \in Machines /\ machine.queued \in Seq(Nat) /\ machine.geid \in Nat
      /\ store.geid \in Nat /\ Len(log) \in Nat /\ store.cursor \in Nat
      /\ n \in Nat /\ DOMAIN es = 1..n
  <2>1. toClient \in Seq(Frames) /\ f \in Frames
    BY <1>1, FeedTypes
  <2>2. es \in Seq(Nat)
    BY <1>1, <2>1, FrameFields
  <2>3. machine \in Machines
    BY DEF TypeOK
  <2>4. QED
    BY <2>1, <2>2, <2>3, FeedTypes
<1>2. machine.phase = "Syncing" /\ todo = <<>> /\ Streaming /\ Handing /\ snap = NoSnapshot
  BY <1>1 DEF ReplayVerdict, FeedInv, Sockets, Streaming, Handing
<1>3. /\ 1 \in DOMAIN toClient /\ toClient[1] = f
      /\ \A v : Replays(toClient, 1, v) <=> v \in Replayed(f)
      /\ Replayed(f) = {es[k] : k \in 1..n} /\ Carried(f) = Replayed(f)
  <2>1. Replayed(f) = {es[k] : k \in 1..n} /\ Carried(f) = Replayed(f)
    BY <1>1, <1>t DEF Replayed, Carried
  <2>2. QED
    BY <1>1, <1>t, <2>1, WireHead
<1>4. \A k \in 1..n : /\ es[k] \in Nat /\ es[k] - 1 \in Nat /\ es[k] <= Len(log)
                      /\ log[es[k]] # "hidden"
                      /\ \A v \in Visible(1, es[k] - 1) :
                           v <= store.geid \/ \E m \in 1..n : es[m] = v
  <2> SUFFICES ASSUME NEW k \in 1..n
               PROVE  /\ es[k] \in Nat /\ es[k] - 1 \in Nat /\ es[k] <= Len(log)
                      /\ log[es[k]] # "hidden"
                      /\ \A v \in Visible(1, es[k] - 1) :
                           v <= store.geid \/ \E m \in 1..n : es[m] = v
    OBVIOUS
  <2>1. es[k] \in Replayed(toClient[1]) /\ es[k] \in Carried(toClient[1])
    BY <1>3
  <2>2. /\ es[k] \in Nat /\ es[k] - 1 \in Nat /\ es[k] <= Len(log)
        /\ log[es[k]] # "hidden"
    BY <1>3, <2>1, CarriedTypes DEF FeedInv
  <2>3. \A v \in Visible(1, es[k] - 1) : Covered(v) \/ Replays(toClient, 1, v)
    BY <1>2, <1>3, <2>1 DEF FeedInv, Wire, ReplaysInOrder
  <2>4. \A v : Covered(v) => v <= store.geid
    BY <1>1, <1>2 DEF Covered
  <2>5. QED
    BY <1>3, <2>2, <2>3, <2>4
<1> HIDE DEF es, n
<1>5. ASSUME n # 0
      PROVE  /\ InOrder(machine.geid, es) /\ n \in 1..n /\ 1 \in 1..n
             /\ machine' = [machine EXCEPT !.geid = es[n], !.cursor = es[n]]
  <2>1. es # <<>>
    BY <1>5, NotEmpty DEF n
  <2>2. QED
    BY <1>2, <1>5, <1>t, <2>1 DEF ReplayVerdict, AcceptReplay, es, n
<1>6. ASSUME n = 0 PROVE machine' = machine /\ es = <<>>
  BY <1>6, <1>t DEF AcceptReplay, es, n
<1>7. /\ machine'.phase = "Syncing" /\ machine'.queued = machine.queued
      /\ n # 0 => machine'.geid = es[n]
      /\ n = 0 => machine'.geid = machine.geid
  BY <1>2, <1>5, <1>6, <1>t DEF Machines
<1>8. \A k \in 1..n : es[k] <= es[n] /\ machine.geid < es[k]
  <2> SUFFICES ASSUME NEW k \in 1..n PROVE es[k] <= es[n] /\ machine.geid < es[k]
    OBVIOUS
  <2>1. n # 0 /\ InOrder(machine.geid, es) /\ n \in 1..n
    BY <1>5, <1>t
  <2>2. (k < n => es[k] < es[n]) /\ machine.geid < es[k]
    BY <1>t, <2>1 DEF InOrder
  <2>3. QED
    BY SMTT(40), <1>4, <1>t, <2>1, <2>2
<1>9. store.geid <= machine.geid /\ (\A k \in DOMAIN Pipe : Pipe[k] <= machine.geid)
      /\ Pipe = machine.queued
  BY <1>1, <1>2, MachineAhead DEF FeedInv, Pipe
<1>10. n # 0 => machine.queued = <<>>
  <2> SUFFICES ASSUME n # 0, machine.queued # <<>> PROVE FALSE
    OBVIOUS
  <2> DEFINE g == machine.queued[1]
  <2>1. 1 \in DOMAIN machine.queued /\ g \in Nat
    BY <1>t
  <2>2. /\ g > store.geid /\ g <= machine.geid /\ g \in Visible(1, Len(log))
    BY <1>1, <1>9, <2>1 DEF FeedInv, Piped, InOrder, Gapless
  <2> HIDE DEF g
  <2>3. es[1] \in Nat /\ g < es[1] /\ 1 \in 1..n
    <3>1. 1 \in 1..n
      BY <1>5
    <3>2. es[1] \in Nat /\ machine.geid < es[1]
      BY <1>4, <1>8, <3>1
    <3>3. QED
      BY <1>t, <2>1, <2>2, <3>1, <3>2
  <2>4. g \in Visible(1, es[1] - 1)
    BY <1>t, <2>1, <2>2, <2>3 DEF Visible
  <2>5. PICK m \in 1..n : es[m] = g
    <3>1. g <= store.geid \/ \E m \in 1..n : es[m] = g
      BY <1>4, <2>3, <2>4
    <3>2. QED
      BY <1>t, <2>1, <2>2, <3>1
  <2>6. QED
    BY <1>8, <1>t, <2>1, <2>2, <2>5
<1>11. Positions'
  BY <1>1, PositionsTaken DEF FeedInv, Positions
<1>12. Sockets' /\ Hellos' /\ Content'
  BY <1>1, <1>2 DEF FeedInv, Sockets, Hellos, Content, Visible
<1>13. Piped'
  <2>1. CASE n = 0
    <3>1. todo' = <<>> /\ machine' = machine /\ todo = <<>>
      BY <1>1, <1>2, <1>6, <2>1 DEF es
    <3>2. QED
      BY <1>1, <3>1 DEF FeedInv, Piped, Pipe, Gapless, Visible
  <2>2. CASE n # 0
    <3>1. es # <<>> /\ todo' = es /\ Pipe' = es /\ machine'.queued = <<>>
      <4>1. es # <<>>
        BY <2>2, NotEmpty DEF n
      <4>2. QED
        BY <1>1, <1>7, <1>10, <2>2, <4>1 DEF Pipe, es
    <3>2. InOrder(store.geid, es)
      BY SMTT(40), <1>5, <1>4, <1>9, <1>t, <2>2 DEF InOrder
    <3>3. Pipe'[Len(Pipe')] = machine'.geid
      BY <1>7, <2>2, <3>1 DEF n
    <3>4. Gapless'
      <4>1. \A k \in 1..n : es[k] \in Visible(1, Len(log))
        BY SMTT(40), <1>4, <1>t DEF Visible
      <4>2. QED
        BY <1>1, <1>4, <1>t, <3>1, <4>1 DEF Gapless, Visible
    <3>5. QED
      BY <1>1, <3>1, <3>2, <3>3, <3>4 DEF Piped
  <2>3. QED
    BY <2>1, <2>2
<1>14. Wire'
  <2>1. Streaming' /\ Handing'
    BY <1>1, <1>7 DEF Streaming, Handing
  <2>2. \A v \in Nat : Covered(v) \/ v \in Replayed(f) => Covered(v)'
    <3>1. \A v : Covered(v)' <=> v <= store.geid \/ \E k \in 1..n : es[k] = v
      BY <1>1, <1>t DEF Covered, es
    <3>2. \A v : Covered(v) => v <= store.geid
      BY <1>1, <1>2 DEF Covered
    <3>3. QED
      BY <1>3, <3>1, <3>2
  <2>3. \A v \in Nat : Expected(v) \/ v \in Carried(f) => Expected(v)'
    <3>1. \A v : (Expected(v) <=> v <= machine.geid) /\ (Expected(v)' <=> v <= machine'.geid)
      BY <1>1 DEF Expected
    <3>2. CASE n = 0
      BY <1>3, <1>7, <3>1, <3>2
    <3>3. CASE n # 0
      <4>1. es[n] \in Nat /\ machine.geid < es[n] /\ machine'.geid = es[n]
        BY <1>4, <1>5, <1>7, <1>8, <3>3
      <4>2. \A v \in Carried(f) : v <= es[n]
        BY <1>3, <1>8
      <4>3. QED
        BY <1>t, <3>1, <4>1, <4>2
    <3>4. QED
      BY <3>2, <3>3
  <2>4. QED
    BY <1>1, <1>2, <2>1, <2>2, <2>3, WireTaken DEF FeedInv
<1>15. QED
  BY <1>11, <1>12, <1>13, <1>14 DEF FeedInv

\* sync.complete is accepted: its cursor passes nothing the state lacks.
LEMMA FeedCompleted ==
    ASSUME TypeOK, FeedInv, Receive("complete"),
           CompleteVerdict(machine) = "ok",
           machine' = AcceptComplete(machine, Head(toClient).cursor),
           store' = [store EXCEPT !.cursor = Head(toClient).cursor],
           Accept(machine.queued, TRUE)
    PROVE  FeedInv'
<1> DEFINE f == Head(toClient)
<1>1. /\ pc = "recv" /\ pc' = "apply" /\ toClient # <<>> /\ f.t = "complete"
      /\ toClient' = Tail(toClient) /\ todo' = machine.queued
      /\ UNCHANGED <<log, session, toServer, snap>>
  BY DEF Receive, Accept
<1>2. machine.phase = "Syncing" /\ todo = <<>> /\ Streaming /\ Handing
      /\ snap = NoSnapshot
  BY <1>1 DEF CompleteVerdict, FeedInv, Sockets, Streaming, Handing
<1>3. /\ 1 \in DOMAIN toClient /\ toClient[1] = f
      /\ \A v : Replays(toClient, 1, v) <=> v \in Replayed(f)
  BY <1>1, WireHead, FeedTypes
<1>4. /\ f.cursor \in Nat /\ f.cursor <= Len(log)
      /\ Carried(f) = {} /\ Replayed(f) = {}
  BY <1>1, <1>3, CarriedTypes DEF FeedInv
<1>5. /\ machine'.phase = "Live" /\ machine'.queued = <<>>
      /\ machine'.geid = machine.geid
      /\ store'.geid = store.geid /\ store'.content = store.content
      /\ store'.cursor = f.cursor
  BY DEF AcceptComplete, TypeOK, Machines, Stores
<1>6. Visible(store.geid + 1, f.cursor) = {}
  <2>1. \A v \in Visible(1, f.cursor) : Covered(v) \/ Replays(toClient, 1, v)
    BY <1>1, <1>2, <1>3 DEF FeedInv, Wire, CompletesCover
  <2>2. \A v \in Visible(1, f.cursor) : v <= store.geid
    BY <1>1, <1>2, <1>3, <1>4, <2>1 DEF Covered
  <2>3. store.geid \in Nat
    BY FeedTypes
  <2>4. QED
    BY <1>4, <2>2, <2>3 DEF Visible
<1> HIDE DEF f
<1>7. Positions'
  BY <1>1, <1>4, <1>5, PositionsTaken DEF FeedInv, Positions
<1>8. Sockets' /\ Hellos' /\ Content'
  BY <1>1, <1>2, <1>5, <1>6 DEF FeedInv, Sockets, Hellos, Content, Visible
<1>9. Piped'
  <2>1. Pipe' = Pipe
    BY <1>1, <1>2, <1>5 DEF Pipe
  <2>2. QED
    BY <1>1, <1>5, <2>1 DEF FeedInv, Piped, Gapless, Visible
<1>10. Wire'
  <2>1. ~Handing' /\ Streaming'
    BY <1>1, <1>5 DEF Streaming, Handing
  <2>2. \A v : Expected(v) => Expected(v)'
    BY <1>1, <1>5 DEF Expected
  <2>3. QED
    BY <1>1, <1>2, <1>4, <2>1, <2>2, WireTaken DEF FeedInv, f
<1>11. QED
  BY <1>7, <1>8, <1>9, <1>10 DEF FeedInv

\* A live event is accepted: queued during the handoff, passed on after it.
LEMMA FeedLive ==
    ASSUME TypeOK, FeedInv, Receive("event"),
           LiveVerdict(machine, Head(toClient).geid) = "ok",
           machine' = AcceptLiveEvent(machine, Head(toClient).geid),
           Accept(ReleasedByLive(machine, Head(toClient).geid), FALSE),
           UNCHANGED store
    PROVE  FeedInv'
<1> DEFINE f == Head(toClient)
           g == f.geid
           q == machine.queued
<1>1. /\ pc = "recv" /\ pc' = "apply" /\ toClient # <<>> /\ f.t = "event"
      /\ toClient' = Tail(toClient) /\ todo' = ReleasedByLive(machine, g)
      /\ UNCHANGED <<log, session, toServer, snap, store>>
  BY DEF Receive, Accept
<1>2. /\ machine.phase \in {"Syncing", "Live"} /\ g > machine.geid
      /\ todo = <<>> /\ Streaming /\ snap = NoSnapshot /\ Pipe = q
  BY <1>1 DEF LiveVerdict, FeedInv, Sockets, Streaming, Pipe
<1>3. /\ 1 \in DOMAIN toClient /\ toClient[1] = f
      /\ \A v : Carries(toClient, 1, v) <=> v \in Carried(f)
  BY <1>1, WireHead, FeedTypes
<1>4. Carried(f) = {g} /\ Replayed(f) = {}
  BY <1>1, <1>3, CarriedTypes DEF FeedInv
<1>t. /\ machine \in Machines /\ q \in Seq(Nat) /\ machine.geid \in Nat
      /\ store.geid \in Nat /\ Len(log) \in Nat
  BY FeedTypes DEF TypeOK
<1>5. g \in Nat /\ g - 1 \in Nat /\ g <= Len(log) /\ log[g] # "hidden"
  BY <1>3, <1>4, CarriedTypes DEF FeedInv
<1>6. /\ machine'.geid = g /\ machine'.phase = machine.phase
      /\ machine.phase = "Syncing" => machine'.queued = Append(q, g)
      /\ machine.phase = "Live" => machine'.queued = q
  BY <1>t, <1>2 DEF AcceptLiveEvent, Machines
<1>7. /\ store.geid <= machine.geid
      /\ \A k \in DOMAIN q : q[k] <= machine.geid
  BY <1>1, <1>2, MachineAhead DEF FeedInv
<1> HIDE DEF f, g
<1>8. ASSUME NEW v \in Visible(1, g - 1)
      PROVE  v <= store.geid \/ \E m \in DOMAIN q : q[m] = v
  <2>1. Expected(v) \/ Carries(toClient, 1, v)
    BY <1>1, <1>2, <1>3 DEF FeedInv, Wire, LiveInOrder, g
  <2>2. v \in Nat /\ v < g /\ 1 <= v /\ log[v] # "hidden"
    BY <1>5, <1>8 DEF Visible
  <2>3. v <= machine.geid
    BY <1>1, <1>3, <1>4, <1>5, <2>1, <2>2 DEF Expected
  <2>4. CASE q = <<>>
    BY <1>1, <1>2, <2>3, <2>4 DEF FeedInv, Piped
  <2>5. CASE q # <<>>
    <3>1. Len(q) \in DOMAIN q /\ q[Len(q)] = machine.geid
      BY <1>1, <1>2, <1>t, <2>5 DEF FeedInv, Piped
    <3>2. CASE v = machine.geid
      BY <3>1, <3>2
    <3>3. CASE v # machine.geid
      <4>1. v \in Visible(1, machine.geid - 1)
        BY <1>t, <2>2, <2>3, <3>3 DEF Visible
      <4>2. QED
        BY <1>1, <1>2, <3>1, <4>1 DEF FeedInv, Piped, Gapless
    <3>4. QED
      BY <3>2, <3>3
  <2>6. QED
    BY <2>4, <2>5
<1>9. Positions'
  BY <1>1, PositionsTaken DEF FeedInv, Positions
<1>10. Sockets' /\ Hellos' /\ Content'
  BY <1>1, <1>2 DEF FeedInv, Sockets, Hellos, Content, Visible
<1>11. g \in Visible(1, Len(log))
  BY <1>5, <1>t DEF Visible
<1>12. CASE machine.phase = "Live"
  <2>1. q = <<>> /\ todo' = <<g>> /\ machine'.queued = <<>> /\ Pipe' = <<g>>
    BY <1>1, <1>6, <1>12 DEF FeedInv, Piped, ReleasedByLive, Pipe
  <2>2. Piped'
    <3>1. DOMAIN <<g>> = {1} /\ <<g>>[1] = g /\ Len(<<g>>) = 1 /\ <<g>> # <<>>
      OBVIOUS
    <3>2. InOrder(store.geid, <<g>>)
      BY <1>2, <1>5, <1>7, <1>t, <3>1 DEF InOrder, g
    <3>3. Gapless'
      <4>1. \A v \in Visible(1, g - 1) : v <= store.geid
        BY <1>8, <2>1
      <4>2. QED
        BY <1>1, <1>11, <2>1, <3>1, <4>1 DEF Gapless, Visible
    <3>4. QED
      BY <1>1, <1>6, <2>1, <3>1, <3>2, <3>3 DEF Piped
  <2>3. Wire'
    <3>1. ~Handing' /\ Streaming'
      BY <1>1, <1>6, <1>12 DEF Streaming, Handing
    <3>2. \A v \in Nat : Expected(v) \/ v \in Carried(f) => Expected(v)'
      BY <1>1, <1>2, <1>4, <1>5, <1>6, <1>t DEF Expected, g
    <3>3. QED
      BY <1>1, <1>2, <3>1, <3>2, WireTaken DEF FeedInv, f
  <2>4. QED
    BY <1>9, <1>10, <2>2, <2>3 DEF FeedInv
<1>13. CASE machine.phase = "Syncing"
  <2> DEFINE p == Append(q, g)
  <2>1. todo' = <<>> /\ machine'.queued = p /\ Pipe' = p
    BY <1>1, <1>6, <1>13 DEF ReleasedByLive, Pipe
  <2>2. /\ Len(q) \in Nat /\ Len(p) = Len(q) + 1 /\ p \in Seq(Nat)
        /\ DOMAIN q = 1..Len(q) /\ DOMAIN p = 1..(Len(q) + 1)
        /\ p[Len(q) + 1] = g /\ \A k \in DOMAIN q : p[k] = q[k]
    BY <1>5, <1>t
  <2>3. p # <<>>
    <3>1. Len(p) # 0
      BY <2>2
    <3>2. QED
      BY <3>1, NotEmpty
  <2> HIDE DEF p
  <2>4. InOrder(store.geid, q) /\ Gapless
    BY <1>1, <1>2 DEF FeedInv, Piped
  <2>5. \A k \in DOMAIN q : q[k] \in Nat /\ q[k] < g
    <3>1. g > machine.geid /\ g \in Nat
      BY <1>2, <1>5 DEF g
    <3>2. QED
      BY <1>7, <1>t, <3>1
  <2>6. InOrder(store.geid, p)
    <3>1. \A k \in DOMAIN p : p[k] > store.geid
      <4>1. g > store.geid
        BY <1>2, <1>5, <1>7, <1>t DEF g
      <4>2. QED
        BY <2>2, <2>4, <4>1 DEF InOrder
    <3>2. \A i, j \in DOMAIN p : i < j => p[i] < p[j]
      BY SMTT(40), <2>2, <2>4, <2>5 DEF InOrder
    <3>3. QED
      BY <3>1, <3>2 DEF InOrder
  <2>7. Gapless'
    <3>1. ASSUME NEW k \in DOMAIN p
          PROVE  /\ p[k] \in Visible(1, Len(log))
                 /\ \A v \in Visible(1, p[k] - 1) :
                      v <= store.geid \/ \E m \in DOMAIN p : p[m] = v
      <4>1. CASE k \in DOMAIN q
        <5>1. /\ q[k] \in Visible(1, Len(log))
              /\ \A v \in Visible(1, q[k] - 1) :
                   v <= store.geid \/ \E m \in DOMAIN q : q[m] = v
          BY <1>2, <2>4, <4>1 DEF Gapless
        <5>2. p[k] = q[k] /\ \A m \in DOMAIN q : m \in DOMAIN p /\ p[m] = q[m]
          BY <2>2, <4>1
        <5>3. QED
          BY <5>1, <5>2
      <4>2. CASE k = Len(q) + 1
        BY SMTT(40), <1>8, <1>11, <2>2, <4>2
      <4>3. QED
        BY <2>2, <4>1, <4>2
    <3>2. QED
      BY <1>1, <2>1, <3>1 DEF Gapless, Visible
  <2>8. Piped'
    BY <1>1, <1>6, <1>13, <2>1, <2>2, <2>3, <2>6, <2>7 DEF Piped
  <2>9. Wire'
    <3>1. Handing' /\ Streaming' /\ Handing
      BY <1>1, <1>2, <1>6, <1>13 DEF Streaming, Handing
    <3>2. \A v \in Nat : Expected(v) \/ v \in Carried(f) => Expected(v)'
      BY <1>1, <1>2, <1>4, <1>5, <1>6, <1>t DEF Expected, g
    <3>3. \A v : Covered(v) => Covered(v)'
      BY <1>1, <1>2, <2>1 DEF Covered
    <3>4. QED
      BY <1>1, <1>2, <1>4, <3>1, <3>2, <3>3, WireTaken DEF FeedInv, f
  <2>10. QED
    BY <1>9, <1>10, <2>8, <2>9 DEF FeedInv
<1>14. QED
  BY <1>2, <1>12, <1>13

\* A sequence of length zero is the empty one.
LEMMA EmptyByLength ==
    ASSUME NEW q \in Seq(Nat), Len(q) = 0
    PROVE  q = <<>>
OBVIOUS

\* A later start sees fewer events.
LEMMA VisibleShrinks ==
    ASSUME NEW x \in Nat, NEW y \in Nat, NEW hi \in Nat, x <= y
    PROVE  Visible(y + 1, hi) \subseteq Visible(x + 1, hi)
BY DEF Visible

\* The next accepted event is applied: nothing visible lies before it.
LEMMA FeedApplied ==
    ASSUME TypeOK, FeedInv, pc = "apply", pc' = "apply", todo # <<>>,
           Head(todo) > store.geid, log[Head(todo)] = "known",
           store' = [cursor |-> Head(todo), geid |-> Head(todo),
                     content |-> store.content \cup {Head(todo)}],
           todo' = Tail(todo), UNCHANGED <<serverVars, machine>>
    PROVE  FeedInv'
<1> DEFINE g == Head(todo)
           rest == Tail(todo)
           n == Len(todo)
<1>1. UNCHANGED <<log, session, toServer, toClient, snap>>
  BY DEF serverVars
<1>t. /\ todo \in Seq(Nat) /\ store.geid \in Nat /\ store.cursor \in Nat
      /\ Len(log) \in Nat /\ machine.geid \in Nat /\ n \in Nat /\ n > 0
      /\ g = todo[1] /\ 1 \in DOMAIN todo /\ g \in Nat /\ DOMAIN todo = 1..n
      /\ toServer \in Seq(Nat)
  BY SMTT(40), FeedTypes
<1>2. /\ Pipe = todo /\ machine.queued = <<>> /\ todo[n] = machine.geid
      /\ InOrder(store.geid, todo) /\ snap = NoSnapshot
      /\ \A k \in DOMAIN todo :
           /\ todo[k] \in Visible(1, Len(log))
           /\ \A v \in Visible(1, todo[k] - 1) :
                v <= store.geid \/ \E m \in DOMAIN todo : todo[m] = v
  <2>1. Pipe = todo
    BY DEF Pipe
  <2>2. QED
    BY <2>1 DEF FeedInv, Piped, Gapless, Sockets
<1>3. /\ rest \in Seq(Nat) /\ Len(rest) = n - 1 /\ DOMAIN rest = 1..(n - 1)
      /\ \A k \in 1..(n - 1) : rest[k] = todo[k + 1]
      /\ (rest = <<>>) <=> (n = 1)
  <2>1. /\ rest \in Seq(Nat) /\ Len(rest) = n - 1
        /\ \A k \in 1..(n - 1) : rest[k] = todo[k + 1]
    BY <1>t
  <2>2. DOMAIN rest = 1..(n - 1)
    BY <2>1
  <2>3. n = 1 => rest = <<>>
    <3>1. n = 1 => Len(rest) = 0
      BY <2>1
    <3>2. QED
      BY <2>1, <3>1, EmptyByLength
  <2>4. n # 1 => rest # <<>>
    <3>1. n # 1 => Len(rest) # 0
      BY <1>t, <2>1
    <3>2. QED
      BY <3>1, NotEmpty
  <2>5. QED
    BY <2>1, <2>2, <2>3, <2>4
<1>4. /\ store'.geid = g /\ store'.cursor = g
      /\ store'.content = store.content \cup {g}
  OBVIOUS
<1>5. g <= Len(log) /\ g \in Visible(1, Len(log))
      /\ \A k \in DOMAIN todo : todo[k] \in Nat /\ g <= todo[k]
  <2>1. g \in Visible(1, Len(log))
    BY <1>2, <1>t
  <2>2. g <= Len(log)
    BY <1>t, <2>1 DEF Visible
  <2>3. ASSUME NEW k \in DOMAIN todo PROVE todo[k] \in Nat /\ g <= todo[k]
    <3>0. k # 1 => 1 < k
      BY <1>t
    <3>1. k # 1 => g < todo[k]
      BY <1>2, <1>t, <3>0 DEF InOrder
    <3>2. QED
      BY <1>t, <3>1
  <2>4. QED
    BY <2>1, <2>2, <2>3
<1> HIDE DEF g, rest, n
<1>d. n \in Nat /\ n > 0 /\ DOMAIN todo = 1..n /\ DOMAIN rest = 1..(n - 1)
  BY <1>3, <1>t
<1>6. \A v \in Visible(1, g - 1) : v <= store.geid
  <2> SUFFICES ASSUME NEW v \in Visible(1, g - 1) PROVE v <= store.geid
    OBVIOUS
  <2>1. v <= store.geid \/ \E m \in DOMAIN todo : todo[m] = v
    BY <1>2, <1>t
  <2>2. v \in Nat /\ v < g
    BY <1>t DEF Visible
  <2>3. QED
    BY <1>5, <1>t, <2>1, <2>2
<1>7. Positions'
  BY <1>1, <1>2, <1>4, <1>5, PositionsTaken DEF FeedInv
<1>8. Sockets'
  BY <1>1, <1>2 DEF FeedInv, Sockets
<1>9. Hellos'
  <2>1. ASSUME NEW i \in DOMAIN toServer
        PROVE  toServer[i] <= Len(log) /\ Visible(g + 1, toServer[i]) = {}
    <3>1. toServer[i] \in Nat /\ toServer[i] <= Len(log)
          /\ Visible(store.geid + 1, toServer[i]) = {}
      BY SMTT(40), <1>t DEF FeedInv, Hellos
    <3>2. g > store.geid
      BY DEF g
    <3>3. Visible(g + 1, toServer[i]) \subseteq Visible(store.geid + 1, toServer[i])
      <4>1. g \in Nat /\ store.geid \in Nat /\ store.geid <= g
        BY <1>t, <3>2
      <4>2. QED
        BY <3>1, <4>1, VisibleShrinks
    <3>4. QED
      BY <3>1, <3>3
  <2>2. QED
    BY <1>1, <1>4, <2>1 DEF Hellos, Visible
<1>10. Content'
  <2>1. store.content \cup {g} = Visible(1, g)
    <3>1. store.content = Visible(1, store.geid) /\ g > store.geid
      BY DEF FeedInv, Content, g
    <3>2. ASSUME NEW v \in Visible(1, g), v # g PROVE v \in Visible(1, store.geid)
      <4>1. v \in Visible(1, g - 1)
        BY <1>t, <3>2 DEF Visible
      <4>2. QED
        BY <1>6, <1>t, <3>2, <4>1 DEF Visible
    <3>3. g \in Visible(1, g)
      BY <1>5, <1>t DEF Visible
    <3>4. Visible(1, store.geid) \subseteq Visible(1, g)
      BY <1>t, <3>1 DEF Visible
    <3>5. QED
      BY <3>1, <3>2, <3>3, <3>4
  <2>2. Visible(g + 1, g) = {}
    BY <1>t DEF Visible
  <2>3. QED
    BY <1>1, <1>4, <2>1, <2>2 DEF Content, Visible
<1>11. Piped'
  <2>1. Pipe' = rest
    BY <1>2 DEF Pipe, rest
  <2>2. IF rest = <<>> THEN machine.geid = g ELSE rest[Len(rest)] = machine.geid
    <3>1. CASE n = 1
      BY <1>2, <1>3, <1>t, <3>1
    <3>2. CASE n # 1
      <4>1. n - 1 \in 1..(n - 1) /\ (n - 1) + 1 = n
        BY <1>t, <3>2
      <4>2. QED
        BY <1>2, <1>3, <3>2, <4>1
    <3>3. QED
      BY <3>1, <3>2
  <2>3. ASSUME NEW k \in DOMAIN rest
        PROVE  k + 1 \in DOMAIN todo /\ rest[k] = todo[k + 1] /\ k \in Nat
               /\ rest[k] > g
    <3>0. k \in 1..(n - 1)
      BY <1>d
    <3>a. k + 1 \in DOMAIN todo /\ k \in Nat /\ k + 1 > 1
      BY <1>d, <3>0
    <3>1. k + 1 \in DOMAIN todo /\ rest[k] = todo[k + 1] /\ k \in Nat /\ k + 1 > 1
      BY <1>3, <3>0, <3>a
    <3>2. todo[1] < todo[k + 1]
      BY <1>2, <1>t, <3>1 DEF InOrder
    <3>3. QED
      BY <1>5, <1>t, <3>1, <3>2
  <2>4. InOrder(g, rest)
    <3>1. \A i, j \in DOMAIN rest : i < j => i + 1 < j + 1
      BY <2>3
    <3>2. \A i, j \in DOMAIN rest : i < j => rest[i] < rest[j]
      BY <1>2, <2>3, <3>1 DEF InOrder
    <3>3. QED
      BY <2>3, <3>2 DEF InOrder
  <2>5. ASSUME NEW k \in DOMAIN rest
        PROVE  /\ rest[k] \in Visible(1, Len(log))
               /\ \A v \in Visible(1, rest[k] - 1) :
                    v <= g \/ \E m \in DOMAIN rest : rest[m] = v
    <3>1. rest[k] \in Visible(1, Len(log))
      BY <1>2, <2>3
    <3>2. ASSUME NEW v \in Visible(1, rest[k] - 1)
          PROVE  v <= g \/ \E m \in DOMAIN rest : rest[m] = v
      <4>1. v <= store.geid \/ \E m \in DOMAIN todo : todo[m] = v
        BY <1>2, <2>3, <3>2
      <4>2. v \in Nat
        BY DEF Visible
      <4>3. CASE v <= store.geid
        BY <1>t, <4>2, <4>3 DEF g
      <4>4. ASSUME NEW m \in DOMAIN todo, todo[m] = v
            PROVE  v <= g \/ \E j \in DOMAIN rest : rest[j] = v
        <5>1. CASE m = 1
          BY <1>t, <4>4, <5>1
        <5>2. CASE m # 1
          <6>0. m \in 1..n
            BY <1>d
          <6>1. m - 1 \in DOMAIN rest /\ (m - 1) + 1 = m
            BY <1>d, <5>2, <6>0
          <6>2. rest[m - 1] = v
            BY <2>3, <4>4, <6>1
          <6>3. QED
            BY <6>1, <6>2
        <5>3. QED
          BY <5>1, <5>2
      <4>5. QED
        BY <4>1, <4>3, <4>4
    <3>3. QED
      BY <3>1, <3>2
  <2>6. Gapless'
    BY <1>1, <1>4, <2>1, <2>5 DEF Gapless, Visible
  <2>7. QED
    BY <1>2, <1>4, <2>1, <2>2, <2>4, <2>6 DEF Piped
<1>12. Wire'
  <2>1. Streaming' /\ Streaming /\ Handing' = Handing
    BY DEF Streaming, Handing
  <2>2. \A v \in Nat : Covered(v) => Covered(v)'
    <3>1. ASSUME NEW v \in Nat, Covered(v)
          PROVE  v <= g \/ \E j \in DOMAIN rest : rest[j] = v
      <4>1. v <= store.geid \/ \E m \in DOMAIN todo : todo[m] = v
        BY <3>1 DEF Covered
      <4>2. CASE v <= store.geid
        BY <1>t, <4>2 DEF g
      <4>3. ASSUME NEW m \in DOMAIN todo, todo[m] = v
            PROVE  v <= g \/ \E j \in DOMAIN rest : rest[j] = v
        <5>1. CASE m = 1
          BY <1>t, <4>3, <5>1
        <5>2. CASE m # 1
          <6>0. m \in 1..n
            BY <1>d
          <6>1. m - 1 \in DOMAIN rest /\ (m - 1) + 1 = m
            BY <1>d, <5>2, <6>0
          <6>2. rest[m - 1] = v
            BY <1>3, <4>3, <6>1
          <6>3. QED
            BY <6>1, <6>2
        <5>3. QED
          BY <5>1, <5>2
      <4>4. QED
        BY <4>1, <4>2, <4>3
    <3>2. QED
      BY <1>4, <3>1 DEF Covered, rest
  <2>3. \A v : Expected(v) => Expected(v)'
    BY DEF Expected
  <2>4. QED
    BY <1>1, <2>1, <2>2, <2>3, WireKept DEF FeedInv
<1>13. QED
  BY <1>7, <1>8, <1>9, <1>10, <1>11, <1>12 DEF FeedInv

\* The handler returns.
LEMMA FeedDone ==
    ASSUME TypeOK, FeedInv, FrameDone
    PROVE  FeedInv'
<1>1. /\ pc = "apply" /\ pc' = "recv"
      /\ UNCHANGED <<log, session, toServer, toClient, snap, machine, todo, store>>
      /\ todo = <<>>
  BY DEF FrameDone, serverVars
<1>2. Positions' /\ Sockets' /\ Hellos' /\ Content' /\ Piped'
  BY <1>1 DEF FeedInv, Positions, Sockets, Hellos, Content, Piped, Pipe, Gapless, Visible
<1>3. Wire'
  <2>1. /\ Streaming' /\ Streaming /\ Handing' = Handing
        /\ \A v : Covered(v)' <=> Covered(v)
        /\ \A v : Expected(v)' <=> Expected(v)
    BY <1>1 DEF Streaming, Handing, Covered, Expected
  <2>2. QED
    BY <1>1, <2>1, WireKept DEF FeedInv
<1>4. QED
  BY <1>2, <1>3 DEF FeedInv

\* The snapshot is installed, and the next hello resumes at its cursor.
LEMMA FeedInstalled ==
    ASSUME TypeOK, FeedInv, InstallSnapshot
    PROVE  FeedInv' /\ store.geid <= store'.geid
<1> DEFINE n == snap[1]
<1>1. /\ pc = "snapshot" /\ pc' = "recv" /\ snap # NoSnapshot /\ snap' = NoSnapshot
      /\ store' = SnapshotAt(n) /\ toServer' = Append(toServer, n)
      /\ machine' = BeginSync(ReplaceSnapshot(machine, SnapshotAt(n)))
      /\ UNCHANGED <<log, session, toClient, todo>>
  BY DEF InstallSnapshot
<1>t. /\ n \in Nat /\ store.geid \in Nat /\ Len(log) \in Nat /\ toServer \in Seq(Nat)
  BY <1>1, FeedTypes
<1>2. /\ store'.geid = n /\ store'.cursor = n /\ store'.content = Visible(1, n)
      /\ machine'.geid = n /\ machine'.queued = <<>> /\ machine'.phase = "Syncing"
  BY <1>1 DEF SnapshotAt, BeginSync, ReplaceSnapshot, TypeOK, Machines
<1>3. store.geid <= n /\ n <= Len(log) /\ todo = <<>>
  BY <1>1 DEF FeedInv, Positions, Sockets
<1> HIDE DEF n
<1>4. Positions'
  BY <1>1, <1>2, <1>3, PositionsTaken DEF FeedInv
<1>5. Sockets'
  BY <1>1, <1>3 DEF FeedInv, Sockets
<1>6. Hellos'
  <2>1. ASSUME NEW i \in DOMAIN toServer'
        PROVE  toServer'[i] <= Len(log) /\ Visible(n + 1, toServer'[i]) = {}
    <3>1. CASE i \in DOMAIN toServer
      <4>1. toServer'[i] = toServer[i]
        BY <1>1, <1>t, <3>1
      <4>2. toServer[i] \in Nat /\ toServer[i] <= Len(log)
            /\ Visible(store.geid + 1, toServer[i]) = {}
        BY <1>t, <3>1 DEF FeedInv, Hellos
      <4>3. QED
        BY <1>3, <1>t, <4>1, <4>2 DEF Visible
    <3>2. CASE i \notin DOMAIN toServer
      <4>1. toServer'[i] = n
        BY <1>1, <1>t, <2>1, <3>2
      <4>2. QED
        BY <1>3, <1>t, <4>1 DEF Visible
    <3>3. QED
      BY <3>1, <3>2
  <2>2. QED
    BY <1>1, <1>2, <2>1 DEF Hellos, Visible
<1>7. Content'
  BY <1>1, <1>2, <1>t DEF Content, Visible
<1>8. Piped'
  <2>1. Pipe' = <<>>
    BY <1>1, <1>2, <1>3 DEF Pipe
  <2>2. QED
    BY <1>2, <2>1 DEF Piped, Gapless, InOrder
<1>9. Wire'
  <2>1. Streaming' /\ Streaming /\ Handing' /\ Handing
    BY <1>1, <1>2 DEF Streaming, Handing
  <2>2. \A v : (Covered(v) => Covered(v)') /\ (Expected(v) => Expected(v)')
    BY <1>1, <1>2 DEF Covered, Expected, n
  <2>3. QED
    BY <1>1, <2>1, <2>2, WireKept DEF FeedInv
<1>10. QED
  BY <1>2, <1>3, <1>4, <1>5, <1>6, <1>7, <1>8, <1>9 DEF FeedInv

\* What the code assumes of the server: replay batches before live events,
\* and a sync.complete whose cursor is the high-water of the replay.
OrderedServer == ~LiveDuringReplay /\ ~CompleteCoversLive

\* Every step of the server.
LEMMA FeedServer ==
    ASSUME OrderedServer, TypeOK, FeedInv, Server
    PROVE  FeedInv'
BY FeedCommit, FeedHello, FeedReplay, FeedFrames, FeedSnapshot
   DEF Server, OrderedServer

\* Every step of the owner task, and of a failure.
LEMMA FeedTask ==
    ASSUME TypeOK, BarrierInv, FeedInv, Task \/ TokenFailed \/ SocketFailed
    PROVE  FeedInv'
<1>1. CASE Start \/ TokenLoaded \/ BeginBackoff \/ BackoffElapsed \/ Exit \/ TokenFailed
  BY <1>1, FeedOutside
     DEF Start, TokenLoaded, BeginBackoff, BackoffElapsed, Exit, TokenFailed,
         serverVars, innerVars
<1>2. CASE Connected
  BY <1>2, FeedOutside, FeedConnected DEF Connected
<1>3. CASE StopObserved
  <2>1. UNCHANGED <<log, session, toServer, toClient, store>>
    BY <1>3 DEF StopObserved
  <2>2. CASE pc \in {"token", "backoff"} /\ pc' = "exit"
             /\ UNCHANGED <<result, machine, todo, goLive, snap>>
    BY <2>1, <2>2, FeedOutside
  <2>3. CASE EndSocket("Terminal") \/ EndSocket("ok")
    BY <2>1, <2>3, FeedEnds
  <2>4. QED
    BY <1>3, <2>2, <2>3 DEF StopObserved
<1>4. CASE SocketFailed
  BY <1>4, FeedEnds DEF SocketFailed, innerVars
<1>5. CASE ClearSocket
  <2>1. /\ session' = NoSession /\ toServer' = <<>> /\ toClient' = <<>>
        /\ pc = "clear" /\ pc' \in {"exit", "retry"}
        /\ UNCHANGED <<log, snap, machine, todo, store>>
    BY <1>5 DEF ClearSocket
  <2>2. DOMAIN toClient' = {} /\ DOMAIN toServer' = {} /\ session'.mode = "none"
    BY <2>1 DEF NoSession
  <2>3. Positions' /\ Hellos' /\ Content'
    BY <2>1, <2>2 DEF FeedInv, Positions, Hellos, Content, Visible
  <2>4. Sockets' /\ Piped' /\ Wire'
    BY <2>1 DEF FeedInv, Sockets, Piped, Wire, Handing, Streaming
  <2>5. QED
    BY <2>3, <2>4 DEF FeedInv
<1>6. CASE ReceiveReady \/ SendHello \/ FrameDone \/ InstallSnapshot
  BY <1>6, FeedReady, FeedSendHello, FeedDone, FeedInstalled
<1>a. ASSUME NEW type, Receive(type), UNCHANGED store,
             \/ \E verdict : SyncFailure(verdict)
             \/ Resync /\ UNCHANGED <<result, snap>>
             \/ EndSocket("Terminal")
      PROVE  FeedInv'
  <2>1. /\ pc = "recv" /\ toClient # <<>> /\ toClient' = Tail(toClient)
        /\ UNCHANGED <<log, session, toServer>>
    BY <1>a DEF Receive
  <2>2. QED
    BY <1>a, <2>1, FeedEnds DEF SyncFailure
<1>7. CASE ReceiveReplay
  <2>1. CASE ReplayVerdict(machine, Head(toClient)) = "ok"
    BY <1>7, <2>1, FeedReplayed DEF ReceiveReplay
  <2>2. CASE ReplayVerdict(machine, Head(toClient)) # "ok"
    BY <1>7, <2>2, <1>a DEF ReceiveReplay
  <2>3. QED
    BY <2>1, <2>2
<1>8. CASE ReceiveComplete
  <2>1. CASE CompleteVerdict(machine) = "ok"
    BY <1>8, <2>1, FeedCompleted DEF ReceiveComplete
  <2>2. CASE CompleteVerdict(machine) # "ok"
    BY <1>8, <2>2, <1>a DEF ReceiveComplete
  <2>3. QED
    BY <2>1, <2>2
<1>9. CASE ReceiveEvent
  <2>1. CASE LiveVerdict(machine, Head(toClient).geid) = "ok"
    BY <1>9, <2>1, FeedLive DEF ReceiveEvent
  <2>2. CASE LiveVerdict(machine, Head(toClient).geid) # "ok"
    BY <1>9, <2>2, <1>a DEF ReceiveEvent
  <2>3. QED
    BY <2>1, <2>2
<1>10. CASE ReceiveSyncRequired \/ ReceiveTerminal
  BY <1>10, <1>a DEF ReceiveSyncRequired, ReceiveTerminal
<1>11. CASE ApplyEvent
  <2>1. CASE Head(todo) > store.geid /\ log[Head(todo)] = "known"
    BY <1>11, <2>1, FeedApplied DEF ApplyEvent
  <2>2. CASE ~(Head(todo) > store.geid /\ log[Head(todo)] = "known")
    BY <1>11, <2>2, FeedEnds DEF ApplyEvent, serverVars
  <2>3. QED
    BY <2>1, <2>2
<1>12. QED
  BY <1>1, <1>2, <1>3, <1>4, <1>5, <1>6, <1>7, <1>8, <1>9, <1>10, <1>11 DEF Task

\* A step of the host, or a stutter, changes nothing the invariant reads.
LEMMA FeedFrame ==
    ASSUME FeedInv,
           UNCHANGED <<log, session, toServer, toClient, snap, pc, machine, todo, store>>
    PROVE  FeedInv'
<1>1. Positions' /\ Sockets' /\ Hellos' /\ Content'
  BY DEF FeedInv, Positions, Sockets, Hellos, Content, Visible
<1>2. Piped'
  BY DEF FeedInv, Piped, Pipe, Gapless, Visible
<1>3. Wire'
  BY DEF FeedInv, Wire, Handing, Streaming, ReplaysInOrder, CompletesCover,
         HandoffSent, LiveInOrder, LiveSent, Covered, Expected, Unsent, Visible
<1>4. QED
  BY <1>1, <1>2, <1>3 DEF FeedInv

\* The invariant holds initially: nothing has happened.
LEMMA InitFeed == Init => FeedInv
<1> SUFFICES ASSUME Init PROVE FeedInv
  OBVIOUS
<1>1. /\ log = <<>> /\ session.mode = "none" /\ session = NoSession /\ pc = "start"
      /\ toServer = <<>> /\ toClient = <<>> /\ snap = NoSnapshot /\ todo = <<>>
      /\ store.geid = 0 /\ store.cursor = 0 /\ store.content = {} /\ Len(log) = 0
  BY DEF Init, NoSession
<1>2. DOMAIN toClient = {} /\ DOMAIN toServer = {}
  BY <1>1
<1>3. \A hi \in {0} : Visible(1, hi) = {}
  BY DEF Visible
<1>4. Positions /\ Sockets /\ Hellos
  BY <1>1, <1>2 DEF Positions, Sockets, Hellos
<1>5. Content
  BY <1>1, <1>3 DEF Content
<1>6. Piped /\ Wire
  BY <1>1 DEF Piped, Wire, Handing, Streaming
<1>7. QED
  BY <1>4, <1>5, <1>6 DEF FeedInv

\* The invariants of this module together.
ConnectionInv == TypeOK /\ BarrierInv /\ FeedInv

\* Every step preserves them, if the server keeps its order.
LEMMA NextFeed ==
    ASSUME OrderedServer, ConnectionInv, [Next]_vars
    PROVE  ConnectionInv'
<1> USE DEF ConnectionInv
<1>1. CASE Server
  BY <1>1, FeedServer, NextTypes, NextBarrier
<1>2. CASE Task \/ TokenFailed \/ SocketFailed
  BY <1>2, FeedTask, NextTypes, NextBarrier
<1>3. CASE RequestClose \/ SignalClose \/ CloseReturns \/ UNCHANGED vars
  <2>1. UNCHANGED <<log, session, toServer, toClient, snap, pc, machine, todo, store>>
    BY <1>3 DEF RequestClose, SignalClose, CloseReturns, vars, serverVars,
                taskVars, innerVars
  <2>2. QED
    BY <2>1, FeedFrame, NextTypes, NextBarrier
<1>4. QED
  BY <1>1, <1>2, <1>3 DEF Next

\* From the invariant: neither the store's cursor nor a hello in flight is
\* past an event the state lacks.
LEMMA FeedSafe ==
    ASSUME TypeOK, FeedInv
    PROVE  NoSkippedEvent /\ ResumeNeverSkips
<1>t. store.geid \in Nat /\ store.cursor \in Nat /\ toServer \in Seq(Nat)
  BY FeedTypes
<1>1. ASSUME NEW x \in Nat, Visible(store.geid + 1, x) = {}
      PROVE  Visible(1, x) \subseteq store.content
  <2>1. store.content = Visible(1, store.geid)
    BY DEF FeedInv, Content
  <2>2. ASSUME NEW v \in Visible(1, x) PROVE v \in Visible(1, store.geid)
    <3>1. v \notin Visible(store.geid + 1, x)
      BY <1>1
    <3>2. QED
      BY <1>t, <3>1 DEF Visible
  <2>3. QED
    BY <2>1, <2>2
<1>2. NoSkippedEvent
  BY <1>t, <1>1 DEF FeedInv, Content, NoSkippedEvent
<1>3. ResumeNeverSkips
  BY SMTT(40), <1>t, <1>1 DEF FeedInv, Hellos, ResumeNeverSkips
<1>4. QED
  BY <1>2, <1>3

\* The cursor the store would resume from never passes an event the state
\* lacks, for any log, any queue limit, any failures, resyncs and reconnects.
\* Both parts of OrderedServer are needed: without either, TLC finds a run in
\* which an event is skipped.
THEOREM NothingSkipped ==
    ASSUME OrderedServer
    PROVE  Spec => []NoSkippedEvent
<1>1. Init => ConnectionInv
  BY InitTypes, InitBarrier, InitFeed DEF ConnectionInv
<1>2. ConnectionInv /\ [Next]_vars => ConnectionInv'
  BY NextFeed
<1>3. ConnectionInv => NoSkippedEvent
  BY FeedSafe DEF ConnectionInv
<1>4. QED
  BY <1>1, <1>2, <1>3, PTL DEF Spec

\* No sync.hello in flight asks to resume past an event the state lacks.
THEOREM ResumesInPlace ==
    ASSUME OrderedServer
    PROVE  Spec => []ResumeNeverSkips
<1>1. Init => ConnectionInv
  BY InitTypes, InitBarrier, InitFeed DEF ConnectionInv
<1>2. ConnectionInv /\ [Next]_vars => ConnectionInv'
  BY NextFeed
<1>3. ConnectionInv => ResumeNeverSkips
  BY FeedSafe DEF ConnectionInv
<1>4. QED
  BY <1>1, <1>2, <1>3, PTL DEF Spec

\* A step commits one event, or leaves the log alone and the GEID no lower.
LEMMA GeidForward ==
    ASSUME TypeOK, FeedInv, [Next]_vars
    PROVE  \/ \E k \in Kinds : log' = Append(log, k) /\ store' = store
           \/ log' = log /\ store'.geid \in Nat /\ store.geid <= store'.geid
<1>t. store.geid \in Nat /\ todo \in Seq(Nat)
  BY FeedTypes
<1>1. ASSUME NEW k \in Kinds, Commit(k)
      PROVE  log' = Append(log, k) /\ store' = store
  BY <1>1 DEF Commit, innerVars
<1>2. CASE InstallSnapshot
  <2>1. snap[1] \in Nat /\ store'.geid = snap[1] /\ log' = log
    BY <1>2, FeedTypes DEF InstallSnapshot, SnapshotAt
  <2>2. QED
    BY <1>2, <2>1, FeedInstalled
<1>3. CASE ApplyEvent
  <2>1. Head(todo) \in Nat /\ log' = log
    BY <1>3, <1>t DEF ApplyEvent, serverVars
  <2>2. CASE Head(todo) > store.geid /\ log[Head(todo)] = "known"
    BY <1>3, <1>t, <2>1, <2>2 DEF ApplyEvent
  <2>3. CASE ~(Head(todo) > store.geid /\ log[Head(todo)] = "known")
    BY <1>3, <1>t, <2>1, <2>3 DEF ApplyEvent
  <2>4. QED
    BY <2>2, <2>3
<1>4. CASE ReceiveComplete
  <2>1. log' = log /\ store'.geid = store.geid
    BY <1>4 DEF ReceiveComplete, Receive, TypeOK, Stores
  <2>2. QED
    BY <1>t, <2>1
<1>5. ASSUME log' = log, store' = store
      PROVE  log' = log /\ store'.geid \in Nat /\ store.geid <= store'.geid
  BY <1>5, <1>t
<1>6. CASE \/ ServerHello \/ ServerReplay \/ ServerEmptyReplay \/ ServerComplete
           \/ ServerLive \/ ServerPush \/ ServerTerminal \/ ServerSnapshot
  BY <1>5, <1>6
     DEF ServerHello, ServerReplay, ServerEmptyReplay, ServerComplete, ServerLive,
         ServerPush, ServerTerminal, ServerSnapshot, innerVars
<1>7. CASE \/ Start \/ TokenLoaded \/ Connected \/ StopObserved \/ ClearSocket
           \/ BeginBackoff \/ BackoffElapsed \/ Exit \/ ReceiveReady \/ SendHello
           \/ TokenFailed \/ SocketFailed \/ FrameDone
  BY <1>5, <1>7
     DEF Start, TokenLoaded, Connected, StopObserved, ClearSocket, BeginBackoff,
         BackoffElapsed, Exit, ReceiveReady, SendHello, TokenFailed, SocketFailed,
         FrameDone, serverVars, innerVars
<1>8. CASE \/ ReceiveReplay \/ ReceiveEvent \/ ReceiveSyncRequired \/ ReceiveTerminal
  BY <1>5, <1>8
     DEF ReceiveReplay, ReceiveEvent, ReceiveSyncRequired, ReceiveTerminal, Receive
<1>9. CASE RequestClose \/ SignalClose \/ CloseReturns \/ UNCHANGED vars
  BY <1>5, <1>9
     DEF RequestClose, SignalClose, CloseReturns, vars, serverVars, innerVars
<1>10. QED
  BY <1>1, <1>2, <1>3, <1>4, <1>6, <1>7, <1>8, <1>9 DEF Next, Server, Task

\* The connection implements StateFeed: the host's view is always the effect
\* of a prefix of the server's history and only moves forward, whatever the
\* frames, snapshots, failures and reconnects that move it.
THEOREM ConnectionImplementsFeed ==
    ASSUME OrderedServer
    PROVE  Spec => ImplementsFeed
<1>1. Init => ConnectionInv /\ Feed!Init
  BY InitTypes, InitBarrier, InitFeed DEF ConnectionInv, Init, Feed!Init
<1>2. ConnectionInv /\ [Next]_vars => ConnectionInv'
  BY NextFeed
<1>3. ConnectionInv /\ ConnectionInv' /\ [Next]_vars
        => [Feed!Next]_<<log, store.content>>
  <2> SUFFICES ASSUME ConnectionInv, ConnectionInv', [Next]_vars
               PROVE  [Feed!Next]_<<log, store.content>>
    OBVIOUS
  <2>1. CASE \E k \in Kinds : log' = Append(log, k) /\ store' = store
    <3>1. PICK k \in Kinds : log' = Append(log, k) /\ store' = store
      BY <2>1
    <3>2. Feed!Publish
      BY <3>1 DEF Feed!Publish
    <3>3. QED
      BY <3>2 DEF Feed!Next
  <2>2. CASE log' = log /\ store'.geid \in Nat /\ store.geid <= store'.geid
    <3>1. /\ store.content = Visible(1, store.geid)
          /\ store'.content = Visible(1, store'.geid)
          /\ store'.geid <= Len(log)
          /\ store.geid \in Nat /\ Len(log) \in Nat
      BY <2>2, FeedTypes DEF ConnectionInv, FeedInv, Content, Positions, Visible
    <3>2. store'.geid \in 0..Len(log) /\ store'.content = Feed!Prefix(store'.geid)
      BY <2>2, <3>1 DEF Feed!Prefix, Visible
    <3>3. store.content \subseteq store'.content
      BY <2>2, <3>1 DEF Visible
    <3>4. Feed!Advance
      BY <2>2, <3>2, <3>3 DEF Feed!Advance
    <3>5. QED
      BY <3>4 DEF Feed!Next
  <2>3. QED
    BY <2>1, <2>2, GeidForward DEF ConnectionInv
<1>4. QED
  BY <1>1, <1>2, <1>3, PTL DEF Spec, ImplementsFeed, Feed!Spec

==============================================================================
