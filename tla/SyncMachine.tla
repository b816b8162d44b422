----------------------------- MODULE SyncMachine -----------------------------
(***************************************************************************)
(* The pure validator of the realtime state handoff: the methods of        *)
(* SyncMachine (crates/zephyrvox-realtime/src/sync.rs) as operators on a   *)
(* machine record.                                                         *)
(*                                                                         *)
(* A GEID is a position of the server's event log, and the cursor of an    *)
(* event is the position right after it, so an event, its GEID and its     *)
(* cursor are the same number.  A method that can fail has two operators:  *)
(* its verdict ("ok" or the variant of SyncError it returns) and the       *)
(* machine it leaves behind when the verdict is "ok".  A failing           *)
(* accept_replay may leave geid and cursor part-way through the batch;     *)
(* every caller then discards or rebinds the machine, so no definition     *)
(* here describes that value.                                              *)
(***************************************************************************)
EXTENDS Naturals, Sequences

CONSTANT
    MaxQueuedLive    \* MAX_QUEUED_LIVE_EVENTS, and the byte limit beside it

ASSUME MaxQueuedLiveAssumption == MaxQueuedLive \in Nat

Phases == {"Disconnected", "Connecting", "Ready", "Syncing", "Live"}

Machines == [phase : Phases, cursor : Nat, geid : Nat, queued : Seq(Nat)]

(***************************************************************************)
(* Lifecycle of one socket generation.                                     *)
(***************************************************************************)

New(state) ==
    [phase |-> "Disconnected", cursor |-> state.cursor, geid |-> state.geid,
     queued |-> <<>>]

BeginConnecting(m) == [m EXCEPT !.phase = "Connecting"]

AcceptReady(m) == [m EXCEPT !.phase = "Ready"]

\* Sends nothing itself: the caller puts m.cursor into the sync.hello frame.
BeginSync(m) == [m EXCEPT !.phase = "Syncing", !.queued = <<>>]

\* require_snapshot: legal from Ready, Syncing and Live.
RequireSnapshot(m) == [m EXCEPT !.phase = "Ready", !.queued = <<>>]

\* replace_snapshot: rebinds the machine to the state the store now holds.
ReplaceSnapshot(m, state) ==
    [m EXCEPT !.cursor = state.cursor, !.geid = state.geid,
              !.queued = <<>>, !.phase = "Ready"]

(***************************************************************************)
(* Frames.                                                                 *)
(***************************************************************************)

\* The order rule of accept_ordered_event over a whole sequence of events:
\* each GEID is above `geid' and above those of all events before it.
InOrder(geid, events) ==
    /\ \A i \in DOMAIN events : events[i] > geid
    /\ \A i, j \in DOMAIN events : i < j => events[i] < events[j]

ReplayVerdict(m, replay) ==
    CASE m.phase # "Syncing" -> "InvalidPhase"
      [] m.phase = "Syncing" /\ replay.events = <<>> ->
           IF replay.from = replay.to /\ replay.from = m.geid
             THEN "ok" ELSE "ReplayBounds"
      [] OTHER ->
           IF \/ replay.events[1] # replay.from
              \/ replay.events[Len(replay.events)] # replay.to
             THEN "ReplayBounds"
             ELSE IF InOrder(m.geid, replay.events) THEN "ok" ELSE "GeidOrder"

AcceptReplay(m, replay) ==
    IF replay.events = <<>>
      THEN m
      ELSE [m EXCEPT !.geid = replay.events[Len(replay.events)],
                     !.cursor = replay.events[Len(replay.events)]]

LiveVerdict(m, event) ==
    CASE m.phase \notin {"Syncing", "Live"} -> "InvalidPhase"
      [] m.phase = "Syncing" /\ Len(m.queued) >= MaxQueuedLive -> "QueueLimit"
      [] OTHER -> IF event > m.geid THEN "ok" ELSE "GeidOrder"

\* An event that arrives before completion is queued, a later one is passed on.
AcceptLiveEvent(m, event) ==
    [m EXCEPT !.geid = event, !.cursor = event,
              !.queued = IF m.phase = "Syncing" THEN Append(@, event) ELSE @]

ReleasedByLive(m, event) ==
    IF m.phase = "Live" THEN <<event>> ELSE <<>>

CompleteVerdict(m) == IF m.phase = "Syncing" THEN "ok" ELSE "InvalidPhase"

\* The queue is handed to the caller, in wire order, and emptied here.
AcceptComplete(m, cursor) ==
    [m EXCEPT !.cursor = cursor, !.phase = "Live", !.queued = <<>>]

\* recover_sync_error: the errors that lead to a fresh snapshot.  Every other
\* error ends the connection as a protocol failure.
Recoverable(verdict) == verdict \in {"ReplayBounds", "QueueLimit", "GeidOrder"}

==============================================================================
