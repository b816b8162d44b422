----------------------------- MODULE StateStore -----------------------------
(***************************************************************************)
(* StateStore and StateEventReceiver (state.rs): the engine applies events *)
(* and replaces snapshots; host tasks receive the ordered events through   *)
(* bounded broadcast channels, one per snapshot generation.  A receiver    *)
(* notices a new generation by comparing markers, not under the store's    *)
(* locks, so each comparison and each subscription is a step of its own.   *)
(*                                                                         *)
(* The engine hands over the next event of the feed, or an event again;    *)
(* that it never skips one is shown in ControlConnection.  The server is   *)
(* external: it changes its own state and reports each change as one       *)
(* event, and it removes the members of a group before the group.          *)
(***************************************************************************)
EXTENDS Integers, Sequences, Projection

CONSTANTS
    Users, Channels, Groups, Roles,   \* identifiers; channels are 1, 2, ...
    Receivers,                        \* host tasks with a StateEventReceiver
    Capacity,                         \* of the event channel
    MaxEvents, MaxReplacements

ASSUME StoreAssumption ==
    /\ Channels \subseteq Nat \ {0} /\ {1, 2} \subseteq Channels
    /\ Groups # {}
    /\ Capacity \in Nat \ {0}
    /\ MaxEvents \in Nat /\ MaxReplacements \in Nat

VARIABLES
    log, truth,     \* server: the events so far; its state after each
    geid, db,       \* StateStore::state
    generation,     \* event_generation
    current,        \* index of the channel in event_tx
    chans,          \* what was sent on each channel
    engine,         \* "idle", "refused" (a snapshot is needed), "replacing"
    rx,             \* receivers
    last,           \* history: the last event each receiver was given
    lost, ended     \* history: receivers that missed an event unreported, or
                    \* were told Closed

serverVars == <<log, truth>>
storeVars == <<geid, db, generation, current, chans, engine>>
rxVars == <<rx, last, lost, ended>>
vars == <<serverVars, storeVars, rxVars>>

Generations == 0..MaxReplacements

AnyGroup == CHOOSE g \in Groups : TRUE

\* A snapshot with something in every collection: channel 1 is in a group,
\* everyone is in channel 2.
InitialDb ==
    [groups |-> {[key |-> g] : g \in Groups},
     channels |-> {[key |-> c, group |-> IF c = 1 THEN AnyGroup ELSE 0] :
                     c \in Channels},
     members |-> {[key |-> u, channel |-> 2] : u \in Users},
     users |-> {[key |-> u, version |-> 0] : u \in Users},
     roles |-> {[key |-> r, version |-> 0] : r \in Roles},
     authority |-> 2]

Init ==
    /\ log = <<>> /\ truth = <<InitialDb>>
    /\ geid = 0 /\ db = InitialDb
    /\ generation = 0 /\ current = 0 /\ chans = [g \in Generations |-> <<>>]
    /\ engine = "idle"
    /\ rx = [r \in Receivers |-> [at |-> "idle", chan |-> 0, pos |-> 0,
                                  observed |-> 0, seen |-> 0, result |-> 0]]
    /\ last = [r \in Receivers |-> 0] /\ lost = {} /\ ended = {}

------------------------------------------------------------------------------
(***************************************************************************)
(* The server.                                                             *)
(***************************************************************************)

Now == truth[Len(truth)]

\* One change, reported by one event.
Change(next, type, scope, data) ==
    /\ Len(log) < MaxEvents
    /\ truth' = Append(truth, next)
    /\ log' = Append(log,
         [geid |-> Len(log) + 1, type |-> type, scope |-> scope,
          scopeId |-> IF scope = "server" THEN 0 ELSE 1,
          wellFormed |-> TRUE, data |-> data])
    /\ UNCHANGED <<storeVars, rxVars>>

GroupOf(c) == (CHOOSE x \in Now.channels : x.key = c).group
Exists(items, key) == \E i \in items : i.key = key

\* A channel is created or moved to another group.
PutChannel(c, g) ==
    /\ [key |-> c, group |-> g] \notin Now.channels
    /\ g = 0 \/ Exists(Now.groups, g)
    /\ LET item == [key |-> c, group |-> g]
       IN Change([Now EXCEPT !.channels = {x \in @ : x.key # c} \cup {item}],
                 IF Exists(Now.channels, c) THEN "channel.updated"
                                            ELSE "channel.created",
                 "channel", item)

\* A channel disappears with everyone who is in it.
DropChannel(c) ==
    /\ Exists(Now.channels, c)
    /\ Change([Now EXCEPT !.channels = {x \in @ : x.key # c},
                          !.members = {m \in @ : m.channel # c},
                          !.authority = IF @ = c THEN 0 ELSE @],
              "channel.deleted", "channel", [key |-> c])

\* A group disappears with its channels, which nobody is in any more.
DropGroup(g) ==
    /\ Exists(Now.groups, g)
    /\ \A m \in Now.members : GroupOf(m.channel) # g
    /\ Now.authority # 0 => GroupOf(Now.authority) # g
    /\ Change([Now EXCEPT !.groups = {x \in @ : x.key # g},
                          !.channels = {x \in @ : x.group # g}],
              "group.deleted", "group", [key |-> g])

PutGroup(g) ==
    /\ ~Exists(Now.groups, g)
    /\ Change([Now EXCEPT !.groups = @ \cup {[key |-> g]}], "group.created",
              "group", [key |-> g])

\* A user enters a channel; being in another one ends with it.
Enter(u, c) ==
    /\ Exists(Now.channels, c) /\ [key |-> u, channel |-> c] \notin Now.members
    /\ Change([Now EXCEPT !.members =
                 {m \in @ : m.key # u} \cup {[key |-> u, channel |-> c]}],
              "channel.member.joined", "channel", [key |-> u, channel |-> c])

Leave(u) ==
    \E m \in Now.members :
        /\ m.key = u
        /\ Change([Now EXCEPT !.members = @ \ {m}], "channel.member.left",
                  "channel", m)

PutUser(u) ==
    LET item == [key |-> u, version |-> 1]
    IN Change([Now EXCEPT !.users = {x \in @ : x.key # u} \cup {item}],
              "presence.updated", "server", item)

DropUser(u) ==
    /\ Exists(Now.users, u)
    /\ Change([Now EXCEPT !.users = {x \in @ : x.key # u}], "user.deleted",
              "server", [key |-> u])

PutRole(r) ==
    LET item == [key |-> r, version |-> 1]
    IN Change([Now EXCEPT !.roles = {x \in @ : x.key # r} \cup {item}],
              "rbac.role.updated", "server", item)

DropRole(r) ==
    /\ Exists(Now.roles, r)
    /\ Change([Now EXCEPT !.roles = {x \in @ : x.key # r}],
              "rbac.role.deleted", "server", [key |-> r])

\* This user's voice authority is granted or withdrawn.
Authorize(c) ==
    /\ c # Now.authority /\ (c = 0 \/ Exists(Now.channels, c))
    /\ Change([Now EXCEPT !.authority = c],
              IF c = 0 THEN "self.updated" ELSE "voice.authority.updated",
              "server", [key |-> c])

\* Channels come into view; what they hold is not in the event.
Reveal(c) ==
    /\ ~Exists(Now.channels, c)
    /\ Change([Now EXCEPT !.channels = @ \cup {[key |-> c, group |-> 0]}],
              "visibility.granted", "channel", [key |-> c])

\* An event the client has no rule for, and one that changes nothing here.
Other ==
    \E type \in {"future.event", "acl.updated"} :
        Change(Now, type, "server", [key |-> 0])

Server ==
    \/ \E c \in Channels :
         \/ \E g \in Groups \cup {0} : PutChannel(c, g)
         \/ DropChannel(c) \/ Reveal(c)
         \/ \E u \in Users : Enter(u, c)
    \/ \E g \in Groups : DropGroup(g) \/ PutGroup(g)
    \/ \E u \in Users : Leave(u) \/ PutUser(u) \/ DropUser(u)
    \/ \E r \in Roles : PutRole(r) \/ DropRole(r)
    \/ \E c \in Channels \cup {0} : Authorize(c)
    \/ Other

------------------------------------------------------------------------------
(***************************************************************************)
(* The store.                                                              *)
(***************************************************************************)

\* apply_event: the next event or one that was applied before.  The state is
\* installed before the event is sent.
ApplyEvent ==
    /\ engine = "idle"
    /\ \E i \in 1..Len(log) :
         /\ i <= geid + 1
         /\ IF ValidateEvent(log[i], geid) = "ok" /\ Applicable(log[i])
              THEN /\ db' = ApplyKnownEvent(db, log[i]) /\ geid' = i
                   /\ chans' = [chans EXCEPT ![current] = Append(@, i)]
                   /\ UNCHANGED engine
              ELSE /\ engine' = "refused" /\ UNCHANGED <<db, geid, chans>>
    /\ UNCHANGED <<serverVars, generation, current, rxVars>>

\* replace_snapshot puts a fresh channel in place, which drops the sender of
\* the old one ...
SwapChannel ==
    /\ engine \in {"idle", "refused"} /\ current < MaxReplacements
    /\ engine' = "replacing" /\ current' = current + 1
    /\ UNCHANGED <<serverVars, geid, db, generation, chans, rxVars>>

\* ... and then publishes the generation and the state, still under both locks.
PublishSnapshot ==
    /\ engine = "replacing"
    /\ engine' = "idle" /\ generation' = current
    /\ db' = Now /\ geid' = Len(log)
    /\ UNCHANGED <<serverVars, current, chans, rxVars>>

------------------------------------------------------------------------------
(***************************************************************************)
(* A receiver.                                                             *)
(***************************************************************************)

At(r, point) == rx' = [rx EXCEPT ![r].at = point]

\* recv begins, or goes round its loop: the marker is read.
ReadMarker(r) ==
    /\ rx[r].at \in {"idle", "loop"}
    /\ rx' = [rx EXCEPT ![r].seen = generation,
                        ![r].at = IF generation = rx[r].observed
                                    THEN "waiting" ELSE "refresh"]
    /\ UNCHANGED <<serverVars, storeVars, last, lost, ended>>

\* Mutant: the marker is stored without a new subscription.
Refresh_SameChannel(r) ==
    /\ rx[r].at = "refresh" /\ engine # "replacing"
    /\ rx' = [rx EXCEPT ![r].at = "loop", ![r].observed = rx[r].seen]
    /\ UNCHANGED <<serverVars, storeVars, last, lost, ended>>

\* refresh_generation: subscribe to the channel that is in place now, behind
\* everything it already holds; the marker stored is the one read before.
Refresh(r) ==
    /\ rx[r].at = "refresh" /\ engine # "replacing"
    /\ rx' = [rx EXCEPT ![r].at = "loop", ![r].observed = rx[r].seen,
                        ![r].chan = current, ![r].pos = Len(chans[current])]
    /\ lost' = IF chans[current] # <<>> /\ rx[r].chan # current
                 THEN lost \cup {r} ELSE lost
    /\ UNCHANGED <<serverVars, storeVars, last, ended>>

\* The channel yields an event; what fell out of it is reported as Lagged (0).
Receive(r) ==
    /\ rx[r].at = "waiting"
    /\ LET n == Len(chans[rx[r].chan])
       IN /\ rx[r].pos < n
          /\ rx' = IF rx[r].pos < n - Capacity
                     THEN [rx EXCEPT ![r].at = "received", ![r].result = 0,
                                     ![r].pos = n - Capacity]
                     ELSE [rx EXCEPT ![r].at = "received", ![r].pos = @ + 1,
                                     ![r].result = chans[rx[r].chan][rx[r].pos + 1]]
    /\ UNCHANGED <<serverVars, storeVars, last, lost, ended>>

\* A drained channel without a sender yields Closed (-1).
ReceiveClosed(r) ==
    /\ rx[r].at = "waiting" /\ rx[r].chan # current
    /\ rx[r].pos = Len(chans[rx[r].chan])
    /\ rx' = [rx EXCEPT ![r].at = "received", ![r].result = -1]
    /\ UNCHANGED <<serverVars, storeVars, last, lost, ended>>

\* The other branch of the select: the marker changed.
MarkerChanged(r) ==
    /\ rx[r].at = "waiting" /\ generation # rx[r].seen
    /\ At(r, "loop")
    /\ UNCHANGED <<serverVars, storeVars, last, lost, ended>>

\* The caller gets an event, Lagged or Closed.
Deliver(r) ==
    /\ At(r, "idle")
    /\ last' = IF rx[r].result > 0 THEN [last EXCEPT ![r] = rx[r].result] ELSE last
    /\ ended' = IF rx[r].result = -1 THEN ended \cup {r} ELSE ended

\* Mutant: the result is returned without looking at the marker again.
Return_Unchecked(r) ==
    /\ rx[r].at = "received" /\ Deliver(r)
    /\ UNCHANGED <<serverVars, storeVars, lost>>

\* The marker is compared again: a result from before a boundary is dropped.
Return(r) ==
    /\ rx[r].at = "received"
    /\ IF generation # rx[r].observed
         THEN At(r, "loop") /\ UNCHANGED <<last, ended>>
         ELSE Deliver(r)
    /\ UNCHANGED <<serverVars, storeVars, lost>>

\* try_recv drops an event from before a boundary, and returns Lagged, Closed
\* or Empty as they come.
TryReturn(r) ==
    /\ rx[r].at = "received" /\ rx[r].result <= 0 /\ Deliver(r)
    /\ UNCHANGED <<serverVars, storeVars, lost>>

TryReturnEmpty(r) ==
    /\ rx[r].at = "waiting" /\ rx[r].pos = Len(chans[rx[r].chan])
    /\ rx[r].chan = current
    /\ At(r, "idle")
    /\ UNCHANGED <<serverVars, storeVars, last, lost, ended>>

\* resubscribe pairs the channel and the marker while no replacement runs; the
\* caller asked to start at the end.
Resubscribe(r) ==
    /\ rx[r].at = "idle" /\ engine # "replacing"
    /\ rx' = [rx EXCEPT ![r].chan = current, ![r].pos = Len(chans[current]),
                        ![r].observed = generation]
    /\ UNCHANGED <<serverVars, storeVars, last, lost, ended>>

Receiver(r) == \/ ReadMarker(r) \/ Refresh(r) \/ Receive(r) \/ ReceiveClosed(r)
               \/ MarkerChanged(r) \/ Return(r)

Next ==
    \/ Server \/ ApplyEvent \/ SwapChannel \/ PublishSnapshot
    \/ \E r \in Receivers : \/ Receiver(r) \/ TryReturn(r) \/ TryReturnEmpty(r)
                            \/ Resubscribe(r)

\* The engine finishes a replacement it has begun (nothing in it awaits), and
\* the host tasks keep receiving.
Fairness ==
    /\ WF_vars(PublishSnapshot)
    /\ \A r \in Receivers : WF_vars(Receiver(r))

Spec == Init /\ [][Next]_vars /\ Fairness

------------------------------------------------------------------------------
(***************************************************************************)
(* Properties.                                                             *)
(***************************************************************************)

\* Collections keep one record per key, and markers stay within bounds.
TypeOK ==
    /\ geid \in 0..Len(log)
    /\ \A items \in {db.groups, db.channels, db.members, db.users, db.roles} :
         \A i, j \in items : i.key = j.key => i = j
    /\ generation \in Generations /\ current \in generation..(generation + 1)
    /\ \A r \in Receivers : /\ rx[r].chan \in 0..current
                            /\ rx[r].pos \in 0..Len(chans[rx[r].chan])
                            /\ rx[r].observed <= generation

\* The projection is the server's state at its GEID, after any mixture of
\* events applied one by one, repeated, refused, and snapshots.
MatchesServer == db = truth[geid + 1]

\* state.rs:209: an event of an earlier snapshot generation is never delivered
\* after the replacement has been published, and events are delivered in the
\* order of the feed, none of them twice.
BoundaryRespected ==
    [][\A r \in Receivers :
         rx[r].at = "received" /\ rx'[r].at = "idle" /\ rx[r].result > 0
           => /\ rx[r].result > last[r]
              /\ \E i \in DOMAIN chans[generation] :
                   chans[generation][i] = rx[r].result]_vars

\* A receiver that keeps receiving ends on the channel in place, with nothing
\* left in it.
CatchesUp ==
    \A r \in Receivers :
        <>[](rx[r].chan = current /\ rx[r].pos = Len(chans[current])
             /\ rx[r].observed = generation)

\* state.rs:40: a receiver resumes from the replacement's fresh channel and
\* otherwise reports what it missed as Lagged.
LossReported == lost = {}

\* recv reports Closed only when the store is gone; in this model it never is.
NeverClosed == ended = {}

==============================================================================
