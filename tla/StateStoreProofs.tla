--------------------------- MODULE StateStoreProofs ---------------------------
(***************************************************************************)
(* Theorems about StateStore, for any sets of users, channels, groups and  *)
(* roles, any number of receivers, events and snapshots, and any channel   *)
(* capacity.                                                               *)
(***************************************************************************)
EXTENDS StateStore, TLAPS

------------------------------------------------------------------------------
(***************************************************************************)
(* The inductive invariant.                                                *)
(***************************************************************************)

\* A state of the server, with one record per key in every collection.
Dbs == [groups : SUBSET [key : Groups],
        channels : SUBSET [key : Channels, group : Groups \cup {0}],
        members : SUBSET [key : Users, channel : Channels],
        users : SUBSET [key : Users, version : {0, 1}],
        roles : SUBSET [key : Roles, version : {0, 1}],
        authority : Channels \cup {0}]

UniqueKeys(items) == \A i, j \in items : i.key = j.key => i = j

Keyed(d) ==
    /\ UniqueKeys(d.groups) /\ UniqueKeys(d.channels) /\ UniqueKeys(d.members)
    /\ UniqueKeys(d.users) /\ UniqueKeys(d.roles)

Data == [key : Groups \cup Channels \cup Users \cup Roles \cup {0}]
        \cup [key : Channels, group : Groups \cup {0}]
        \cup [key : Users, channel : Channels]
        \cup [key : Users \cup Roles, version : {0, 1}]

Events == [geid : Nat, type : KnownTypes \cup {"future.event"},
           scope : {"server", "group", "channel"}, scopeId : {0, 1},
           wellFormed : BOOLEAN, data : Data]

Rx == [at : {"idle", "loop", "waiting", "refresh", "received"},
       chan : Generations, pos : Nat, observed : Generations,
       seen : Generations, result : Nat \cup {-1}]

Typed ==
    /\ log \in Seq(Events) /\ truth \in Seq(Dbs)
    /\ geid \in Nat /\ geid <= Len(log)
    /\ generation \in Generations /\ current \in Generations
    /\ chans \in [Generations -> Seq(Nat)]
    /\ engine \in {"idle", "refused", "replacing"}
    /\ rx \in [Receivers -> Rx] /\ last \in [Receivers -> Nat]

\* Every event the projection has a rule for says what it did: applied to the
\* server's state before it, it yields the state after it.
History ==
    /\ Len(truth) = Len(log) + 1
    /\ \A i \in 1..Len(truth) : Keyed(truth[i])
    /\ \A i \in 1..Len(log) :
         /\ log[i].geid = i
         /\ Applicable(log[i]) => ApplyKnownEvent(truth[i], log[i]) = truth[i + 1]

\* The marker follows the channel, at once unless a replacement is running.
Markers ==
    /\ generation <= current /\ current <= generation + 1
    /\ engine # "replacing" => current = generation

\* A channel holds events in order, none beyond the projection.
Ordered ==
    \A g \in Generations :
        /\ \A i \in DOMAIN chans[g] : chans[g][i] <= geid
        /\ \A i, j \in DOMAIN chans[g] : i < j => chans[g][i] < chans[g][j]

\* A receiver may lag behind its marker, never run ahead of its channel; what
\* it has received is the event before its position; what it has not yet
\* delivered is above what it has.
Reading ==
    \A r \in Receivers :
        /\ rx[r].observed <= rx[r].chan /\ rx[r].chan <= generation
        /\ rx[r].seen <= generation
        /\ rx[r].pos <= Len(chans[rx[r].chan])
        /\ rx[r].at = "received" /\ rx[r].result > 0 =>
             rx[r].pos > 0 /\ chans[rx[r].chan][rx[r].pos] = rx[r].result

Undelivered(r, k) ==
    k > rx[r].pos \/ (rx[r].at = "received" /\ rx[r].result > 0 /\ k = rx[r].pos)

Forward ==
    \A r \in Receivers :
        /\ last[r] <= geid
        /\ \A k \in DOMAIN chans[rx[r].chan] :
             Undelivered(r, k) => chans[rx[r].chan][k] > last[r]

IndInv == Typed /\ History /\ MatchesServer /\ Markers /\ Ordered /\ Reading /\ Forward

------------------------------------------------------------------------------
(***************************************************************************)
(* The rules of the projection.                                            *)
(***************************************************************************)

\* Replacing the record of a key, and removing records, keep keys unique.
LEMMA KeysStayUnique ==
    ASSUME NEW items, UniqueKeys(items), NEW item
    PROVE  /\ UniqueKeys({x \in items : x.key # item.key} \cup {item})
           /\ \A kept \in SUBSET items : UniqueKeys(kept)
           /\ ~Exists(items, item.key) => UniqueKeys(items \cup {item})
BY SMTT(40) DEF UniqueKeys, Exists

\* What apply_known_event does, type by type.
LEMMA Rules ==
    ASSUME NEW d, NEW e
    PROVE  /\ e.type = "group.created" =>
                ApplyKnownEvent(d, e) = [d EXCEPT !.groups = Upsert(@, e.data)]
           /\ e.type = "group.deleted" =>
                ApplyKnownEvent(d, e) = DeleteGroup(d, e.data.key)
           /\ e.type \in {"channel.created", "channel.updated"} =>
                ApplyKnownEvent(d, e) = [d EXCEPT !.channels = Upsert(@, e.data)]
           /\ e.type = "channel.deleted" =>
                ApplyKnownEvent(d, e) = DeleteChannel(d, e.data.key)
           /\ e.type = "channel.member.joined" =>
                ApplyKnownEvent(d, e) = [d EXCEPT !.members = Upsert(@, e.data)]
           /\ e.type = "channel.member.left" =>
                ApplyKnownEvent(d, e) = [d EXCEPT !.members = @ \ {e.data}]
           /\ e.type = "presence.updated" =>
                ApplyKnownEvent(d, e) = [d EXCEPT !.users = Upsert(@, e.data)]
           /\ e.type = "user.deleted" =>
                ApplyKnownEvent(d, e) = [d EXCEPT !.users = Remove(@, e.data.key)]
           /\ e.type = "rbac.role.updated" =>
                ApplyKnownEvent(d, e) = [d EXCEPT !.roles = Upsert(@, e.data)]
           /\ e.type = "rbac.role.deleted" =>
                ApplyKnownEvent(d, e) = [d EXCEPT !.roles = Remove(@, e.data.key)]
           /\ e.type \in {"self.updated", "voice.authority.updated"} =>
                ApplyKnownEvent(d, e) = [d EXCEPT !.authority = e.data.key]
           /\ e.type = "acl.updated" => ApplyKnownEvent(d, e) = d
<1> USE DEF ApplyKnownEvent, GroupUpserts, ChannelUpserts, UserUpserts,
            RoleUpserts, Ignored, UpsertMembership
<1>1. /\ e.type = "group.created" =>
                ApplyKnownEvent(d, e) = [d EXCEPT !.groups = Upsert(@, e.data)]
      /\ e.type = "group.deleted" =>
                ApplyKnownEvent(d, e) = DeleteGroup(d, e.data.key)
  OBVIOUS
<1>2. /\ e.type \in {"channel.created", "channel.updated"} =>
                ApplyKnownEvent(d, e) = [d EXCEPT !.channels = Upsert(@, e.data)]
      /\ e.type = "channel.deleted" =>
                ApplyKnownEvent(d, e) = DeleteChannel(d, e.data.key)
  OBVIOUS
<1>3. /\ e.type = "channel.member.joined" =>
                ApplyKnownEvent(d, e) = [d EXCEPT !.members = Upsert(@, e.data)]
      /\ e.type = "channel.member.left" =>
                ApplyKnownEvent(d, e) = [d EXCEPT !.members = @ \ {e.data}]
  OBVIOUS
<1>4. /\ e.type = "presence.updated" =>
                ApplyKnownEvent(d, e) = [d EXCEPT !.users = Upsert(@, e.data)]
      /\ e.type = "user.deleted" =>
                ApplyKnownEvent(d, e) = [d EXCEPT !.users = Remove(@, e.data.key)]
  OBVIOUS
<1>5. /\ e.type = "rbac.role.updated" =>
                ApplyKnownEvent(d, e) = [d EXCEPT !.roles = Upsert(@, e.data)]
      /\ e.type = "rbac.role.deleted" =>
                ApplyKnownEvent(d, e) = [d EXCEPT !.roles = Remove(@, e.data.key)]
  OBVIOUS
<1>6. /\ e.type \in {"self.updated", "voice.authority.updated"} =>
                ApplyKnownEvent(d, e) = [d EXCEPT !.authority = e.data.key]
      /\ e.type = "acl.updated" => ApplyKnownEvent(d, e) = d
  OBVIOUS
<1>7. QED
  BY <1>1, <1>2, <1>3, <1>4, <1>5, <1>6

\* An event that validate_event accepts is above the projection.
LEMMA Accepted ==
    ASSUME NEW e, e.wellFormed \in BOOLEAN, NEW g \in Nat, e.geid \in Nat,
           ValidateEvent(e, g) = "ok"
    PROVE  e.geid > g
BY DEF ValidateEvent

------------------------------------------------------------------------------
(***************************************************************************)
(* The server.                                                             *)
(***************************************************************************)

\* The server's present state.
LEMMA Present ==
    ASSUME IndInv
    PROVE  /\ Now \in Dbs /\ Keyed(Now) /\ Len(log) \in Nat
           /\ Now = truth[Len(log) + 1] /\ Len(truth) = Len(log) + 1
<1>1. Len(truth) = Len(log) + 1 /\ Len(log) \in Nat /\ truth \in Seq(Dbs)
  BY DEF IndInv, History, Typed
<1>2. Len(truth) \in 1..Len(truth) /\ Now \in Dbs
  BY <1>1 DEF Now
<1>3. QED
  BY <1>1, <1>2 DEF Now, IndInv, History

EventOf(type, scope, data) ==
    [geid |-> Len(log) + 1, type |-> type, scope |-> scope,
     scopeId |-> IF scope = "server" THEN 0 ELSE 1,
     wellFormed |-> TRUE, data |-> data]

\* A change is reported faithfully if its rule turns the old state into the new.
LEMMA Changed ==
    ASSUME IndInv, NEW next \in Dbs, Keyed(next),
           NEW type \in KnownTypes \cup {"future.event"},
           NEW scope \in {"server", "group", "channel"}, NEW data \in Data,
           Change(next, type, scope, data),
           Applicable(EventOf(type, scope, data)) =>
             ApplyKnownEvent(Now, EventOf(type, scope, data)) = next
    PROVE  IndInv'
<1> DEFINE e == EventOf(type, scope, data)
<1>1. /\ truth' = Append(truth, next) /\ log' = Append(log, e)
      /\ UNCHANGED <<geid, db, generation, current, chans, engine, rx, last>>
  BY DEF Change, storeVars, rxVars, EventOf
<1>2. /\ log \in Seq(Events) /\ truth \in Seq(Dbs) /\ Len(log) \in Nat
      /\ Len(truth) = Len(log) + 1 /\ geid \in Nat /\ geid <= Len(log)
      /\ Now = truth[Len(log) + 1]
  BY Present DEF IndInv, Typed
<1>3. e \in Events /\ e.geid = Len(log) + 1
  <2>1. (IF scope = "server" THEN 0 ELSE 1) \in {0, 1}
    OBVIOUS
  <2>2. QED
    BY <1>2, <2>1 DEF Events, EventOf
<1> HIDE DEF e
<1>4. /\ log' \in Seq(Events) /\ truth' \in Seq(Dbs)
      /\ Len(log') = Len(log) + 1 /\ Len(truth') = Len(log) + 2
      /\ \A i \in 1..Len(log) : log'[i] = log[i]
      /\ \A i \in 1..(Len(log) + 1) : truth'[i] = truth[i]
      /\ log'[Len(log) + 1] = e /\ truth'[Len(log) + 2] = next
  BY <1>1, <1>2, <1>3
<1>5. Typed'
  BY <1>1, <1>2, <1>4 DEF IndInv, Typed
<1>6. History'
  <2>1. ASSUME NEW i \in 1..Len(truth') PROVE Keyed(truth'[i])
    <3>1. CASE i \in 1..(Len(log) + 1)
      BY <1>2, <1>4, <3>1 DEF IndInv, History
    <3>2. CASE i = Len(log) + 2
      BY <1>4, <3>2
    <3>3. QED
      BY <1>2, <1>4, <3>1, <3>2
  <2>2. ASSUME NEW i \in 1..Len(log')
        PROVE  /\ log'[i].geid = i
               /\ Applicable(log'[i]) =>
                    ApplyKnownEvent(truth'[i], log'[i]) = truth'[i + 1]
    <3>1. CASE i \in 1..Len(log)
      <4>1. i \in 1..(Len(log) + 1) /\ i + 1 \in 1..(Len(log) + 1)
        BY <1>2, <3>1
      <4>2. log'[i] = log[i] /\ truth'[i] = truth[i] /\ truth'[i + 1] = truth[i + 1]
        BY <1>4, <3>1, <4>1
      <4>3. QED
        BY <3>1, <4>2 DEF IndInv, History
    <3>2. CASE i = Len(log) + 1
      <4>1. i \in 1..(Len(log) + 1) /\ i + 1 = Len(log) + 2
        BY <1>2, <3>2
      <4>2. log'[i] = e /\ truth'[i] = Now /\ truth'[i + 1] = next
        BY <1>2, <1>4, <3>2, <4>1
      <4>3. QED
        BY <1>3, <3>2, <4>2 DEF e
    <3>3. QED
      BY <1>2, <1>4, <3>1, <3>2
  <2>3. QED
    BY <1>2, <1>4, <2>1, <2>2 DEF History
<1>7. MatchesServer'
  <2>1. geid + 1 \in 1..(Len(log) + 1)
    BY <1>2
  <2>2. QED
    BY <1>1, <1>4, <2>1 DEF IndInv, MatchesServer
<1>8. Markers' /\ Ordered' /\ Reading' /\ Forward'
  BY <1>1 DEF IndInv, Markers, Ordered, Reading, Forward, Undelivered
<1>9. QED
  BY <1>5, <1>6, <1>7, <1>8 DEF IndInv

\* A state with one collection replaced is a state.
LEMMA Replaced ==
    ASSUME NEW d \in Dbs, Keyed(d)
    PROVE  /\ \A s \in SUBSET [key : Channels, group : Groups \cup {0}] :
                UniqueKeys(s) =>
                  [d EXCEPT !.channels = s] \in Dbs /\ Keyed([d EXCEPT !.channels = s])
           /\ \A s \in SUBSET [key : Users, channel : Channels] :
                UniqueKeys(s) =>
                  [d EXCEPT !.members = s] \in Dbs /\ Keyed([d EXCEPT !.members = s])
           /\ \A s \in SUBSET [key : Users, version : {0, 1}] :
                UniqueKeys(s) =>
                  [d EXCEPT !.users = s] \in Dbs /\ Keyed([d EXCEPT !.users = s])
           /\ \A s \in SUBSET [key : Roles, version : {0, 1}] :
                UniqueKeys(s) =>
                  [d EXCEPT !.roles = s] \in Dbs /\ Keyed([d EXCEPT !.roles = s])
<1> USE DEF Dbs, Keyed
<1>1. ASSUME NEW s \in SUBSET [key : Channels, group : Groups \cup {0}], UniqueKeys(s)
      PROVE  [d EXCEPT !.channels = s] \in Dbs /\ Keyed([d EXCEPT !.channels = s])
  BY <1>1
<1>2. ASSUME NEW s \in SUBSET [key : Users, channel : Channels], UniqueKeys(s)
      PROVE  [d EXCEPT !.members = s] \in Dbs /\ Keyed([d EXCEPT !.members = s])
  BY <1>2
<1>3. ASSUME NEW s \in SUBSET [key : Users, version : {0, 1}], UniqueKeys(s)
      PROVE  [d EXCEPT !.users = s] \in Dbs /\ Keyed([d EXCEPT !.users = s])
  BY <1>3
<1>4. ASSUME NEW s \in SUBSET [key : Roles, version : {0, 1}], UniqueKeys(s)
      PROVE  [d EXCEPT !.roles = s] \in Dbs /\ Keyed([d EXCEPT !.roles = s])
  BY <1>4
<1>5. QED
  BY <1>1, <1>2, <1>3, <1>4

\* Every change the server makes is reported faithfully.
LEMMA ServerStep ==
    ASSUME IndInv, Server
    PROVE  IndInv'
<1>n. /\ Now \in Dbs /\ Keyed(Now)
      /\ UniqueKeys(Now.groups) /\ UniqueKeys(Now.channels)
      /\ UniqueKeys(Now.members) /\ UniqueKeys(Now.users) /\ UniqueKeys(Now.roles)
  BY Present DEF Keyed
<1>e. ASSUME NEW type, NEW scope, NEW data
      PROVE  /\ EventOf(type, scope, data).type = type
             /\ EventOf(type, scope, data).data = data
  BY DEF EventOf
<1>s. /\ \A items, item : Upsert(items, item) =
                            {x \in items : x.key # item.key} \cup {item}
      /\ \A items, key : Remove(items, key) = {x \in items : x.key # key}
  BY DEF Upsert, Remove
<1>1. ASSUME NEW c \in Channels, NEW g \in Groups \cup {0}, PutChannel(c, g)
      PROVE  IndInv'
  <2> DEFINE item == [key |-> c, group |-> g]
             new == {x \in Now.channels : x.key # c} \cup {item}
             next == [Now EXCEPT !.channels = new]
             type == IF Exists(Now.channels, c) THEN "channel.updated"
                                                ELSE "channel.created"
  <2>1. Change(next, type, "channel", item)
    BY <1>1 DEF PutChannel
  <2>2. item \in Data /\ item.key = c
    BY DEF Data
  <2>3. next \in Dbs /\ Keyed(next)
    <3>1. new \in SUBSET [key : Channels, group : Groups \cup {0}]
      BY <1>n DEF Dbs
    <3>2. UniqueKeys(new)
      BY <1>n, <2>2, KeysStayUnique
    <3>3. QED
      BY <1>n, <3>1, <3>2, Replaced
  <2>4. type \in {"channel.updated", "channel.created"}
        /\ type \in KnownTypes \cup {"future.event"}
    BY DEF KnownTypes, ChannelUpserts
  <2>5. ApplyKnownEvent(Now, EventOf(type, "channel", item)) = next
    <3>1. Upsert(Now.channels, item) = new
      BY <1>s, <2>2
    <3>2. ApplyKnownEvent(Now, EventOf(type, "channel", item))
            = [Now EXCEPT !.channels = Upsert(@, item)]
      BY <1>e, <2>4, Rules
    <3>3. QED
      BY <3>1, <3>2
  <2> HIDE DEF next, type, item, new
  <2>6. QED
    BY <2>1, <2>2, <2>3, <2>4, <2>5, Changed
<1>2. ASSUME NEW c \in Channels, DropChannel(c)
      PROVE  IndInv'
  <2> DEFINE item == [key |-> c]
             next == [Now EXCEPT !.channels = {x \in @ : x.key # c},
                                 !.members = {m \in @ : m.channel # c},
                                 !.authority = IF @ = c THEN 0 ELSE @]
  <2>1. Change(next, "channel.deleted", "channel", item)
    BY <1>2 DEF DropChannel
  <2>2. item \in Data /\ item.key = c
    BY DEF Data
  <2>3. next \in Dbs /\ Keyed(next)
    BY <1>n, KeysStayUnique DEF Dbs, Keyed
  <2>4. "channel.deleted" \in KnownTypes \cup {"future.event"}
    BY DEF KnownTypes
  <2>5. ApplyKnownEvent(Now, EventOf("channel.deleted", "channel", item)) = next
    <3>1. Remove(Now.channels, c) = {x \in Now.channels : x.key # c}
      BY <1>s
    <3>2. ApplyKnownEvent(Now, EventOf("channel.deleted", "channel", item)) = DeleteChannel(Now, c)
      BY <1>e, <2>2, Rules
    <3>3. DeleteChannel(Now, c) = next
      BY <3>1 DEF DeleteChannel
    <3>4. QED
      BY <3>2, <3>3
  <2> HIDE DEF next, item
  <2>6. QED
    BY <2>1, <2>2, <2>3, <2>4, <2>5, Changed
<1>3. ASSUME NEW c \in Channels, Reveal(c)
      PROVE  IndInv'
  <2> DEFINE item == [key |-> c]
             new == [key |-> c, group |-> 0]
             next == [Now EXCEPT !.channels = @ \cup {new}]
  <2>1. Change(next, "visibility.granted", "channel", item)
        /\ ~Exists(Now.channels, c)
    BY <1>3 DEF Reveal
  <2>2. item \in Data /\ new.key = c
    BY DEF Data
  <2>3. next \in Dbs /\ Keyed(next)
    <3>1. Now.channels \cup {new} \in SUBSET [key : Channels, group : Groups \cup {0}]
      BY <1>n DEF Dbs
    <3>2. UniqueKeys(Now.channels \cup {new})
      BY <1>n, <2>1, <2>2, KeysStayUnique
    <3>3. QED
      BY <1>n, <3>1, <3>2, Replaced
  <2>4. /\ "visibility.granted" \in KnownTypes \cup {"future.event"}
        /\ ~Applicable(EventOf("visibility.granted", "channel", item))
    BY <1>e DEF KnownTypes, Visibility, VisibilityScope, Applicable
  <2> HIDE DEF next, item
  <2>6. QED
    BY <2>1, <2>2, <2>3, <2>4, Changed
<1>4. ASSUME NEW u \in Users, NEW c \in Channels, Enter(u, c)
      PROVE  IndInv'
  <2> DEFINE item == [key |-> u, channel |-> c]
             new == {m \in Now.members : m.key # u} \cup {item}
             next == [Now EXCEPT !.members = new]
  <2>1. Change(next, "channel.member.joined", "channel", item)
    BY <1>4 DEF Enter
  <2>2. item \in Data /\ item.key = u
    BY DEF Data
  <2>3. next \in Dbs /\ Keyed(next)
    <3>1. new \in SUBSET [key : Users, channel : Channels]
      BY <1>n DEF Dbs
    <3>2. UniqueKeys(new)
      BY <1>n, <2>2, KeysStayUnique
    <3>3. QED
      BY <1>n, <3>1, <3>2, Replaced
  <2>4. "channel.member.joined" \in KnownTypes \cup {"future.event"}
    BY DEF KnownTypes
  <2>5. ApplyKnownEvent(Now, EventOf("channel.member.joined", "channel", item)) = next
    <3>1. Upsert(Now.members, item) = new
      BY <1>s, <2>2
    <3>2. ApplyKnownEvent(Now, EventOf("channel.member.joined", "channel", item))
            = [Now EXCEPT !.members = Upsert(@, item)]
      BY <1>e, Rules
    <3>3. QED
      BY <3>1, <3>2
  <2> HIDE DEF next, item
  <2>6. QED
    BY <2>1, <2>2, <2>3, <2>4, <2>5, Changed
<1>5. ASSUME NEW g \in Groups, DropGroup(g)
      PROVE  IndInv'
  <2> DEFINE item == [key |-> g]
             next == [Now EXCEPT !.groups = {x \in @ : x.key # g},
                                 !.channels = {x \in @ : x.group # g}]
  <2>1. Change(next, "group.deleted", "group", item)
    BY <1>5 DEF DropGroup
  <2>2. item \in Data /\ item.key = g
    BY DEF Data
  <2>3. next \in Dbs /\ Keyed(next)
    BY <1>n, KeysStayUnique DEF Dbs, Keyed
  <2>4. "group.deleted" \in KnownTypes \cup {"future.event"}
    BY DEF KnownTypes
  <2>5. ApplyKnownEvent(Now, EventOf("group.deleted", "group", item)) = next
    <3>1. Remove(Now.groups, g) = {x \in Now.groups : x.key # g}
      BY <1>s
    <3>2. ApplyKnownEvent(Now, EventOf("group.deleted", "group", item)) = DeleteGroup(Now, g)
      BY <1>e, <2>2, Rules
    <3>3. DeleteGroup(Now, g) = next
      BY <3>1 DEF DeleteGroup
    <3>4. QED
      BY <3>2, <3>3
  <2> HIDE DEF next, item
  <2>6. QED
    BY <2>1, <2>2, <2>3, <2>4, <2>5, Changed
<1>6. ASSUME NEW g \in Groups, PutGroup(g)
      PROVE  IndInv'
  <2> DEFINE item == [key |-> g]
             next == [Now EXCEPT !.groups = @ \cup {item}]
  <2>1. Change(next, "group.created", "group", item) /\ ~Exists(Now.groups, g)
    BY <1>6 DEF PutGroup
  <2>2. item \in Data /\ item.key = g
    BY DEF Data
  <2>3. next \in Dbs /\ Keyed(next)
    BY <1>n, <2>1, <2>2, KeysStayUnique DEF Dbs, Keyed
  <2>4. "group.created" \in KnownTypes \cup {"future.event"}
    BY DEF KnownTypes, GroupUpserts
  <2>5. ApplyKnownEvent(Now, EventOf("group.created", "group", item)) = next
    <3>1. Upsert(Now.groups, item) = Now.groups \cup {item}
      BY <1>s, <2>1, <2>2 DEF Exists
    <3>2. ApplyKnownEvent(Now, EventOf("group.created", "group", item))
            = [Now EXCEPT !.groups = Upsert(@, item)]
      BY <1>e, Rules
    <3>3. QED
      BY <3>1, <3>2
  <2> HIDE DEF next, item
  <2>6. QED
    BY <2>1, <2>2, <2>3, <2>4, <2>5, Changed
<1>7. ASSUME NEW u \in Users, Leave(u)
      PROVE  IndInv'
  <2>0. PICK m \in Now.members :
          Change([Now EXCEPT !.members = @ \ {m}], "channel.member.left", "channel", m)
    BY <1>7 DEF Leave
  <2> DEFINE next == [Now EXCEPT !.members = @ \ {m}]
  <2>2. m \in Data
    BY <1>n DEF Data, Dbs
  <2>3. next \in Dbs /\ Keyed(next)
    BY <1>n, KeysStayUnique DEF Dbs, Keyed
  <2>4. "channel.member.left" \in KnownTypes \cup {"future.event"}
    BY DEF KnownTypes
  <2>5. ApplyKnownEvent(Now, EventOf("channel.member.left", "channel", m)) = next
    BY <1>e, Rules
  <2> HIDE DEF next
  <2>6. QED
    BY <2>0, <2>2, <2>3, <2>4, <2>5, Changed DEF next
<1>8. ASSUME NEW u \in Users, PutUser(u)
      PROVE  IndInv'
  <2> DEFINE item == [key |-> u, version |-> 1]
             new == {x \in Now.users : x.key # u} \cup {item}
             next == [Now EXCEPT !.users = new]
  <2>1. Change(next, "presence.updated", "server", item)
    BY <1>8 DEF PutUser
  <2>2. item \in Data /\ item.key = u
    BY DEF Data
  <2>3. next \in Dbs /\ Keyed(next)
    <3>1. new \in SUBSET [key : Users, version : {0, 1}]
      BY <1>n DEF Dbs
    <3>2. UniqueKeys(new)
      BY <1>n, <2>2, KeysStayUnique
    <3>3. QED
      BY <1>n, <3>1, <3>2, Replaced
  <2>4. "presence.updated" \in KnownTypes \cup {"future.event"}
    BY DEF KnownTypes, UserUpserts
  <2>5. ApplyKnownEvent(Now, EventOf("presence.updated", "server", item)) = next
    <3>1. Upsert(Now.users, item) = new
      BY <1>s, <2>2
    <3>2. ApplyKnownEvent(Now, EventOf("presence.updated", "server", item))
            = [Now EXCEPT !.users = Upsert(@, item)]
      BY <1>e, Rules
    <3>3. QED
      BY <3>1, <3>2
  <2> HIDE DEF next, item
  <2>6. QED
    BY <2>1, <2>2, <2>3, <2>4, <2>5, Changed
<1>9. ASSUME NEW u \in Users, DropUser(u)
      PROVE  IndInv'
  <2> DEFINE item == [key |-> u]
             next == [Now EXCEPT !.users = {x \in @ : x.key # u}]
  <2>1. Change(next, "user.deleted", "server", item)
    BY <1>9 DEF DropUser
  <2>2. item \in Data /\ item.key = u
    BY DEF Data
  <2>3. next \in Dbs /\ Keyed(next)
    BY <1>n, KeysStayUnique DEF Dbs, Keyed
  <2>4. "user.deleted" \in KnownTypes \cup {"future.event"}
    BY DEF KnownTypes
  <2>5. ApplyKnownEvent(Now, EventOf("user.deleted", "server", item)) = next
    <3>1. Remove(Now.users, u) = {x \in Now.users : x.key # u}
      BY <1>s
    <3>2. ApplyKnownEvent(Now, EventOf("user.deleted", "server", item))
            = [Now EXCEPT !.users = Remove(@, u)]
      BY <1>e, <2>2, Rules
    <3>3. QED
      BY <3>1, <3>2
  <2> HIDE DEF next, item
  <2>6. QED
    BY <2>1, <2>2, <2>3, <2>4, <2>5, Changed
<1>10. ASSUME NEW r \in Roles, PutRole(r)
       PROVE  IndInv'
  <2> DEFINE item == [key |-> r, version |-> 1]
             new == {x \in Now.roles : x.key # r} \cup {item}
             next == [Now EXCEPT !.roles = new]
  <2>1. Change(next, "rbac.role.updated", "server", item)
    BY <1>10 DEF PutRole
  <2>2. item \in Data /\ item.key = r
    BY DEF Data
  <2>3. next \in Dbs /\ Keyed(next)
    <3>1. new \in SUBSET [key : Roles, version : {0, 1}]
      BY <1>n DEF Dbs
    <3>2. UniqueKeys(new)
      BY <1>n, <2>2, KeysStayUnique
    <3>3. QED
      BY <1>n, <3>1, <3>2, Replaced
  <2>4. "rbac.role.updated" \in KnownTypes \cup {"future.event"}
    BY DEF KnownTypes, RoleUpserts
  <2>5. ApplyKnownEvent(Now, EventOf("rbac.role.updated", "server", item)) = next
    <3>1. Upsert(Now.roles, item) = new
      BY <1>s, <2>2
    <3>2. ApplyKnownEvent(Now, EventOf("rbac.role.updated", "server", item))
            = [Now EXCEPT !.roles = Upsert(@, item)]
      BY <1>e, Rules
    <3>3. QED
      BY <3>1, <3>2
  <2> HIDE DEF next, item
  <2>6. QED
    BY <2>1, <2>2, <2>3, <2>4, <2>5, Changed
<1>11. ASSUME NEW r \in Roles, DropRole(r)
       PROVE  IndInv'
  <2> DEFINE item == [key |-> r]
             next == [Now EXCEPT !.roles = {x \in @ : x.key # r}]
  <2>1. Change(next, "rbac.role.deleted", "server", item)
    BY <1>11 DEF DropRole
  <2>2. item \in Data /\ item.key = r
    BY DEF Data
  <2>3. next \in Dbs /\ Keyed(next)
    BY <1>n, KeysStayUnique DEF Dbs, Keyed
  <2>4. "rbac.role.deleted" \in KnownTypes \cup {"future.event"}
    BY DEF KnownTypes
  <2>5. ApplyKnownEvent(Now, EventOf("rbac.role.deleted", "server", item)) = next
    <3>1. Remove(Now.roles, r) = {x \in Now.roles : x.key # r}
      BY <1>s
    <3>2. ApplyKnownEvent(Now, EventOf("rbac.role.deleted", "server", item))
            = [Now EXCEPT !.roles = Remove(@, r)]
      BY <1>e, <2>2, Rules
    <3>3. QED
      BY <3>1, <3>2
  <2> HIDE DEF next, item
  <2>6. QED
    BY <2>1, <2>2, <2>3, <2>4, <2>5, Changed
<1>12. ASSUME NEW c \in Channels \cup {0}, Authorize(c)
       PROVE  IndInv'
  <2> DEFINE item == [key |-> c]
             next == [Now EXCEPT !.authority = c]
             type == IF c = 0 THEN "self.updated" ELSE "voice.authority.updated"
  <2>1. Change(next, type, "server", item)
    BY <1>12 DEF Authorize
  <2>2. item \in Data /\ item.key = c
    BY DEF Data
  <2>3. next \in Dbs /\ Keyed(next)
    BY <1>n DEF Dbs, Keyed
  <2>4. type \in {"self.updated", "voice.authority.updated"}
        /\ type \in KnownTypes \cup {"future.event"}
    BY DEF KnownTypes
  <2>5. ApplyKnownEvent(Now, EventOf(type, "server", item)) = next
    BY <1>e, <2>2, <2>4, Rules
  <2> HIDE DEF next, type, item
  <2>6. QED
    BY <2>1, <2>2, <2>3, <2>4, <2>5, Changed
<1>13. ASSUME Other
       PROVE  IndInv'
  <2> DEFINE item == [key |-> 0]
  <2>1. PICK type \in {"future.event", "acl.updated"} : Change(Now, type, "server", item)
    BY <1>13 DEF Other
  <2>2. item \in Data /\ type \in KnownTypes \cup {"future.event"}
    BY DEF Data, KnownTypes, Ignored
  <2>3. Applicable(EventOf(type, "server", item)) =>
          ApplyKnownEvent(Now, EventOf(type, "server", item)) = Now
    <3>1. CASE type = "acl.updated"
      BY <1>e, <3>1, Rules
    <3>2. CASE type = "future.event"
      BY <1>e, <3>2 DEF Applicable, KnownTypes, GroupUpserts, ChannelUpserts,
                        UserUpserts, RoleUpserts, Ignored, Visibility, VisibilityScope
    <3>3. QED
      BY <3>1, <3>2
  <2> HIDE DEF item
  <2>4. QED
    BY <1>n, <2>1, <2>2, <2>3, Changed
<1>14. QED
  BY <1>1, <1>2, <1>3, <1>4, <1>5, <1>6, <1>7, <1>8, <1>9, <1>10, <1>11, <1>12,
     <1>13 DEF Server

------------------------------------------------------------------------------
(***************************************************************************)
(* The store.                                                              *)
(***************************************************************************)

\* The engine applies an event, or refuses it.
LEMMA ApplyStep ==
    ASSUME IndInv, ApplyEvent
    PROVE  IndInv'
<1>t. /\ geid \in Nat /\ Len(log) \in Nat /\ geid <= Len(log)
      /\ log \in Seq(Events) /\ chans \in [Generations -> Seq(Nat)]
      /\ current \in Generations /\ current = generation
      /\ rx \in [Receivers -> Rx] /\ last \in [Receivers -> Nat]
  BY DEF ApplyEvent, IndInv, Typed, Markers
<1>u. UNCHANGED <<log, truth, generation, current, rx, last>>
  BY DEF ApplyEvent, serverVars, rxVars
<1>1. PICK i \in 1..Len(log) :
        /\ i <= geid + 1
        /\ IF ValidateEvent(log[i], geid) = "ok" /\ Applicable(log[i])
             THEN /\ db' = ApplyKnownEvent(db, log[i]) /\ geid' = i
                  /\ chans' = [chans EXCEPT ![current] = Append(@, i)]
                  /\ UNCHANGED engine
             ELSE /\ engine' = "refused" /\ UNCHANGED <<db, geid, chans>>
  BY DEF ApplyEvent
<1>2. CASE ~(ValidateEvent(log[i], geid) = "ok" /\ Applicable(log[i]))
  <2>1. engine' = "refused" /\ UNCHANGED <<db, geid, chans>>
    BY <1>1, <1>2
  <2>2. Typed' /\ History' /\ MatchesServer' /\ Markers'
    BY <1>t, <1>u, <2>1 DEF IndInv, Typed, History, MatchesServer, Markers
  <2>3. Ordered' /\ Reading' /\ Forward'
    BY <1>u, <2>1 DEF IndInv, Ordered, Reading, Forward, Undelivered
  <2>4. QED
    BY <2>2, <2>3 DEF IndInv
<1>3. CASE ValidateEvent(log[i], geid) = "ok" /\ Applicable(log[i])
  <2>1. /\ db' = ApplyKnownEvent(db, log[i]) /\ geid' = i /\ engine' = engine
        /\ chans' = [chans EXCEPT ![current] = Append(@, i)]
    BY <1>1, <1>3
  <2>2. i = geid + 1
    <3>1. log[i] \in Events /\ log[i].geid = i
      BY <1>t DEF IndInv, History
    <3>2. log[i].wellFormed \in BOOLEAN /\ log[i].geid \in Nat
      BY <3>1 DEF Events
    <3>3. log[i].geid > geid
      BY <1>3, <1>t, <3>2, Accepted
    <3>4. QED
      BY <1>1, <1>t, <3>1, <3>3
  <2>3. db' = truth[i + 1]
    BY <1>3, <2>1, <2>2 DEF IndInv, MatchesServer, History
  <2>c. /\ chans' \in [Generations -> Seq(Nat)]
        /\ \A g \in Generations : g # current => chans'[g] = chans[g]
        /\ chans'[current] = Append(chans[current], i)
    BY <1>t, <2>1
  <2>d. /\ chans[current] \in Seq(Nat) /\ Len(chans[current]) \in Nat
        /\ DOMAIN chans[current] = 1..Len(chans[current])
        /\ DOMAIN chans'[current] = 1..(Len(chans[current]) + 1)
        /\ Len(chans'[current]) = Len(chans[current]) + 1
        /\ chans'[current][Len(chans[current]) + 1] = i
        /\ \A k \in 1..Len(chans[current]) : chans'[current][k] = chans[current][k]
    BY <1>t, <2>c
  <2>4. Typed'
    BY <1>t, <1>u, <2>1, <2>c DEF IndInv, Typed
  <2>5. History' /\ Markers'
    BY <1>u, <2>1 DEF IndInv, History, Markers
  <2>6. MatchesServer'
    BY <1>u, <2>1, <2>3 DEF MatchesServer
  <2>7. Ordered'
    <3>1. ASSUME NEW g \in Generations
          PROVE  /\ \A k \in DOMAIN chans'[g] : chans'[g][k] <= i
                 /\ \A k, j \in DOMAIN chans'[g] : k < j => chans'[g][k] < chans'[g][j]
      <4>0. /\ \A k \in DOMAIN chans[g] : chans[g][k] \in Nat /\ chans[g][k] <= geid
            /\ \A k, j \in DOMAIN chans[g] : k < j => chans[g][k] < chans[g][j]
        BY <1>t DEF IndInv, Ordered
      <4>1. CASE g # current
        BY SMTT(40), <1>t, <2>2, <2>c, <4>0, <4>1
      <4>2. CASE g = current
        <5>1. \A k \in 1..Len(chans[current]) :
                chans'[current][k] \in Nat /\ chans'[current][k] <= geid
          BY <2>d, <4>0, <4>2
        <5>2. \A k \in 1..(Len(chans[current]) + 1) :
                k \in 1..Len(chans[current]) \/ k = Len(chans[current]) + 1
          BY <2>d
        <5>3. \A k \in 1..(Len(chans[current]) + 1) : chans'[current][k] <= i
          <6>1. ASSUME NEW k \in 1..(Len(chans[current]) + 1)
                PROVE  chans'[current][k] <= i
            <7>1. CASE k \in 1..Len(chans[current])
              BY <1>t, <2>2, <5>1, <7>1
            <7>2. CASE k = Len(chans[current]) + 1
              BY <2>d, <7>2
            <7>3. QED
              BY <5>2, <7>1, <7>2
          <6>2. QED
            BY <6>1
        <5>4. ASSUME NEW k \in 1..(Len(chans[current]) + 1),
                     NEW j \in 1..(Len(chans[current]) + 1), k < j
              PROVE  chans'[current][k] < chans'[current][j]
          <6>1. k \in 1..Len(chans[current])
            BY <2>d, <5>4
          <6>2. CASE j \in 1..Len(chans[current])
            BY <2>d, <4>0, <4>2, <5>4, <6>1, <6>2
          <6>3. CASE j = Len(chans[current]) + 1
            BY <1>t, <2>2, <2>d, <5>1, <6>1, <6>3
          <6>4. QED
            BY <5>2, <6>2, <6>3
        <5>5. QED
          BY <2>d, <4>2, <5>3, <5>4
      <4>3. QED
        BY <4>1, <4>2
    <3>2. QED
      BY <2>1, <3>1 DEF Ordered
  <2>e. ASSUME NEW r \in Receivers
        PROVE  /\ rx[r] \in Rx /\ rx[r].chan \in Generations /\ rx[r].pos \in Nat
               /\ \A k \in DOMAIN chans[rx[r].chan] :
                    /\ k \in DOMAIN chans'[rx[r].chan] /\ k \in Nat
                    /\ chans'[rx[r].chan][k] = chans[rx[r].chan][k]
               /\ \A k \in DOMAIN chans'[rx[r].chan] :
                    k \in DOMAIN chans[rx[r].chan] \/ chans'[rx[r].chan][k] = i
               /\ Len(chans[rx[r].chan]) <= Len(chans'[rx[r].chan])
               /\ DOMAIN chans[rx[r].chan] = 1..Len(chans[rx[r].chan])
               /\ Len(chans[rx[r].chan]) \in Nat
    <3>1. rx[r] \in Rx /\ rx[r].chan \in Generations /\ rx[r].pos \in Nat
      BY <1>t DEF Rx
    <3>2. CASE rx[r].chan = current
      <4>1. \A k \in DOMAIN chans[current] :
              /\ k \in DOMAIN chans'[current] /\ k \in Nat
              /\ chans'[current][k] = chans[current][k]
        BY <2>d
      <4>2. \A k \in DOMAIN chans'[current] :
              k \in DOMAIN chans[current] \/ k = Len(chans[current]) + 1
        BY <2>d
      <4>3. \A k \in DOMAIN chans'[current] :
              k \in DOMAIN chans[current] \/ chans'[current][k] = i
        BY <2>d, <4>2
      <4>4. Len(chans[current]) <= Len(chans'[current])
        BY <2>d
      <4>5. QED
        BY <2>d, <3>1, <3>2, <4>1, <4>3, <4>4
    <3>3. CASE rx[r].chan # current
      BY SMTT(40), <1>t, <2>c, <3>1, <3>3
    <3>4. QED
      BY <3>1, <3>2, <3>3
  <2>8. Reading'
    <3>1. ASSUME NEW r \in Receivers
          PROVE  /\ rx[r].observed <= rx[r].chan /\ rx[r].chan <= generation
                 /\ rx[r].seen <= generation
                 /\ rx[r].pos <= Len(chans'[rx[r].chan])
                 /\ rx[r].at = "received" /\ rx[r].result > 0 =>
                      rx[r].pos > 0 /\ chans'[rx[r].chan][rx[r].pos] = rx[r].result
      <4>1. /\ rx[r].observed <= rx[r].chan /\ rx[r].chan <= generation
            /\ rx[r].seen <= generation
            /\ rx[r].pos <= Len(chans[rx[r].chan])
            /\ rx[r].at = "received" /\ rx[r].result > 0 =>
                 rx[r].pos > 0 /\ chans[rx[r].chan][rx[r].pos] = rx[r].result
        BY DEF IndInv, Reading
      <4>2. rx[r].pos <= Len(chans'[rx[r].chan])
        <5>1. Len(chans'[rx[r].chan]) \in Nat
          BY <2>c, <2>e
        <5>2. QED
          BY <2>e, <4>1, <5>1
      <4>3. rx[r].pos > 0 => rx[r].pos \in DOMAIN chans[rx[r].chan]
        BY <2>e, <4>1
      <4>4. QED
        BY <2>e, <4>1, <4>2, <4>3
    <3>2. QED
      BY <1>u, <3>1 DEF Reading
  <2>9. Forward'
    <3>1. ASSUME NEW r \in Receivers
          PROVE  /\ last[r] <= i
                 /\ \A k \in DOMAIN chans'[rx[r].chan] :
                      Undelivered(r, k) => chans'[rx[r].chan][k] > last[r]
      <4>1. /\ last[r] <= geid /\ last[r] \in Nat
            /\ \A k \in DOMAIN chans[rx[r].chan] :
                 Undelivered(r, k) => chans[rx[r].chan][k] > last[r]
        BY <1>t DEF IndInv, Forward
      <4>2. last[r] < i
        BY <1>t, <2>2, <4>1
      <4>3. ASSUME NEW k \in DOMAIN chans'[rx[r].chan], Undelivered(r, k)
            PROVE  chans'[rx[r].chan][k] > last[r]
        <5>1. CASE k \in DOMAIN chans[rx[r].chan]
          BY <2>e, <4>1, <4>3, <5>1
        <5>2. CASE chans'[rx[r].chan][k] = i
          BY <4>1, <4>2, <5>2
        <5>3. QED
          BY <2>e, <5>1, <5>2
      <4>4. last[r] <= i
        BY <4>1, <4>2
      <4>5. QED
        BY <4>3, <4>4
    <3>2. \A r, k : Undelivered(r, k)' <=> Undelivered(r, k)
      BY <1>u DEF Undelivered
    <3>3. QED
      BY <1>u, <2>1, <3>1, <3>2 DEF Forward
  <2>10. QED
    BY <2>4, <2>5, <2>6, <2>7, <2>8, <2>9 DEF IndInv
<1>4. QED
  BY <1>2, <1>3

\* A snapshot replacement: the fresh channel, then the marker and the state.
LEMMA ReplaceStep ==
    ASSUME IndInv, SwapChannel \/ PublishSnapshot
    PROVE  IndInv'
<1>t. /\ geid \in Nat /\ Len(log) \in Nat /\ geid <= Len(log)
      /\ generation \in Nat /\ current \in Nat /\ current \in Generations
      /\ MaxReplacements \in Nat
      /\ chans \in [Generations -> Seq(Nat)]
      /\ rx \in [Receivers -> Rx] /\ last \in [Receivers -> Nat]
  BY StoreAssumption DEF IndInv, Typed, Generations, StoreAssumption
<1>r. \A r \in Receivers : /\ rx[r].observed \in Nat /\ rx[r].chan \in Nat
                           /\ rx[r].seen \in Nat /\ rx[r].chan \in Generations
  BY <1>t DEF Rx, Generations
<1>1. CASE SwapChannel
  <2>1. /\ engine \in {"idle", "refused"} /\ current < MaxReplacements
        /\ engine' = "replacing" /\ current' = current + 1
        /\ UNCHANGED <<log, truth, geid, db, generation, chans, rx, last>>
    BY <1>1 DEF SwapChannel, serverVars, rxVars
  <2>2. current' \in Generations
    BY <1>t, <2>1 DEF Generations
  <2>3. Typed'
    BY <2>1, <2>2 DEF IndInv, Typed
  <2>4. Markers'
    BY <1>t, <2>1 DEF IndInv, Markers
  <2>5. History' /\ MatchesServer' /\ Ordered' /\ Reading' /\ Forward'
    BY <2>1 DEF IndInv, History, MatchesServer, Ordered, Reading, Forward, Undelivered
  <2>6. QED
    BY <2>3, <2>4, <2>5 DEF IndInv
<1>2. CASE PublishSnapshot
  <2>1. /\ engine' = "idle" /\ generation' = current /\ db' = Now /\ geid' = Len(log)
        /\ UNCHANGED <<log, truth, current, chans, rx, last>>
    BY <1>2 DEF PublishSnapshot, serverVars, rxVars
  <2>2. generation <= current
    BY DEF IndInv, Markers
  <2>3. Typed'
    BY <1>t, <2>1 DEF IndInv, Typed
  <2>4. Markers'
    BY <1>t, <2>1 DEF Markers
  <2>5. History' /\ MatchesServer'
    BY <2>1, Present DEF IndInv, History, MatchesServer
  <2>6. Ordered'
    <3>1. \A g \in Generations : \A k \in DOMAIN chans[g] : chans[g][k] <= Len(log)
      <4>1. \A g \in Generations : \A k \in DOMAIN chans[g] :
              chans[g][k] \in Nat /\ chans[g][k] <= geid
        BY <1>t DEF IndInv, Ordered
      <4>2. QED
        BY <1>t, <4>1
    <3>2. QED
      BY <2>1, <3>1 DEF IndInv, Ordered
  <2>7. Reading'
    BY <1>r, <1>t, <2>1, <2>2 DEF IndInv, Reading
  <2>8. Forward'
    <3>1. \A r \in Receivers : last[r] <= Len(log)
      BY <1>t DEF IndInv, Forward
    <3>2. QED
      BY <2>1, <3>1 DEF IndInv, Forward, Undelivered
  <2>9. QED
    BY <2>3, <2>4, <2>5, <2>6, <2>7, <2>8 DEF IndInv
<1>3. QED
  BY <1>1, <1>2

------------------------------------------------------------------------------
(***************************************************************************)
(* The receivers.                                                          *)
(***************************************************************************)

\* What the invariant says of one receiver x whose last event was l.
Fits(x, l) ==
    /\ x.observed <= x.chan /\ x.chan <= generation /\ x.seen <= generation
    /\ x.pos <= Len(chans[x.chan])
    /\ x.at = "received" /\ x.result > 0 =>
         x.pos > 0 /\ chans[x.chan][x.pos] = x.result
    /\ l <= geid
    /\ \A k \in DOMAIN chans[x.chan] :
         k > x.pos \/ (x.at = "received" /\ x.result > 0 /\ k = x.pos) =>
           chans[x.chan][k] > l

\* A receiver moves alone: the invariant is kept if it fits its new state.
LEMMA OneMoves ==
    ASSUME IndInv, NEW r \in Receivers, NEW x \in Rx, NEW l \in Nat, Fits(x, l),
           rx' = [rx EXCEPT ![r] = x], last' = [last EXCEPT ![r] = l],
           UNCHANGED <<serverVars, storeVars>>
    PROVE  IndInv'
<1>1. UNCHANGED <<log, truth, geid, db, generation, current, chans, engine>>
  BY DEF serverVars, storeVars
<1>2. rx \in [Receivers -> Rx] /\ last \in [Receivers -> Nat]
  BY DEF IndInv, Typed
<1>3. rx' \in [Receivers -> Rx] /\ last' \in [Receivers -> Nat]
  BY <1>2
<1>4. Typed' /\ History' /\ MatchesServer' /\ Markers' /\ Ordered'
  BY <1>1, <1>3 DEF IndInv, Typed, History, MatchesServer, Markers, Ordered
<1>5. \A q \in Receivers : Fits(rx'[q], last'[q])
  <2>1. \A q \in Receivers : Fits(rx[q], last[q])
    BY DEF IndInv, Reading, Forward, Undelivered, Fits
  <2>2. rx'[r] = x /\ last'[r] = l
    BY <1>2
  <2>3. \A q \in Receivers : q # r => rx'[q] = rx[q] /\ last'[q] = last[q]
    BY <1>2
  <2>4. QED
    BY <2>1, <2>2, <2>3
<1>6. Reading' /\ Forward'
  BY <1>1, <1>5 DEF Reading, Forward, Undelivered, Fits
<1>7. QED
  BY <1>4, <1>6 DEF IndInv

\* What is known of one receiver.
LEMMA OneReceiver ==
    ASSUME IndInv, NEW r \in Receivers
    PROVE  /\ rx[r] \in Rx /\ last[r] \in Nat /\ Fits(rx[r], last[r])
           /\ rx[r].pos \in Nat /\ rx[r].chan \in Nat /\ rx[r].observed \in Nat
           /\ rx[r].seen \in Nat /\ rx[r].result \in Nat \cup {-1}
           /\ geid \in Nat /\ generation \in Nat /\ Capacity \in Nat \ {0}
           /\ chans[rx[r].chan] \in Seq(Nat) /\ Len(chans[rx[r].chan]) \in Nat
           /\ DOMAIN chans[rx[r].chan] = 1..Len(chans[rx[r].chan])
           /\ \A k \in DOMAIN chans[rx[r].chan] :
                chans[rx[r].chan][k] \in Nat /\ chans[rx[r].chan][k] <= geid
           /\ \A k, j \in DOMAIN chans[rx[r].chan] :
                k < j => chans[rx[r].chan][k] < chans[rx[r].chan][j]
<1>1. /\ rx[r] \in Rx /\ last[r] \in Nat /\ geid \in Nat
      /\ generation \in Generations /\ chans \in [Generations -> Seq(Nat)]
  BY DEF IndInv, Typed
<1>2. /\ rx[r].pos \in Nat /\ rx[r].chan \in Generations
      /\ rx[r].observed \in Generations /\ rx[r].seen \in Generations
      /\ rx[r].result \in Nat \cup {-1}
  BY <1>1 DEF Rx
<1>3. \A g \in Generations : g \in Nat
  BY StoreAssumption DEF Generations, StoreAssumption
<1>4. Fits(rx[r], last[r])
  BY DEF IndInv, Reading, Forward, Undelivered, Fits
<1>5. chans[rx[r].chan] \in Seq(Nat)
  BY <1>1, <1>2
<1>6. /\ Len(chans[rx[r].chan]) \in Nat
      /\ DOMAIN chans[rx[r].chan] = 1..Len(chans[rx[r].chan])
      /\ \A k \in DOMAIN chans[rx[r].chan] : chans[rx[r].chan][k] \in Nat
  BY <1>5
<1>7. /\ \A k \in DOMAIN chans[rx[r].chan] : chans[rx[r].chan][k] <= geid
      /\ \A k, j \in DOMAIN chans[rx[r].chan] :
           k < j => chans[rx[r].chan][k] < chans[rx[r].chan][j]
  BY <1>2 DEF IndInv, Ordered
<1>8. Capacity \in Nat \ {0}
  BY StoreAssumption DEF StoreAssumption
<1>9. QED
  BY <1>1, <1>2, <1>3, <1>4, <1>5, <1>6, <1>7, <1>8

\* A receiver that only goes to another point of its loop, or reads the marker.
LEMMA Walks ==
    ASSUME IndInv, NEW r \in Receivers,
           NEW p \in {"idle", "loop", "waiting", "refresh"},
           NEW s \in Generations, s <= generation,
           rx' = [rx EXCEPT ![r] = [rx[r] EXCEPT !.at = p, !.seen = s]],
           last' = last, UNCHANGED <<serverVars, storeVars>>
    PROVE  IndInv'
<1> DEFINE x == [rx[r] EXCEPT !.at = p, !.seen = s]
<1>1. rx[r] \in Rx /\ Fits(rx[r], last[r]) /\ last[r] \in Nat
  BY OneReceiver
<1>2. x \in Rx
  BY <1>1 DEF Rx
<1>3. /\ x.at = p /\ x.seen = s /\ x.chan = rx[r].chan /\ x.pos = rx[r].pos
      /\ x.observed = rx[r].observed /\ x.result = rx[r].result
  BY <1>1 DEF Rx
<1> HIDE DEF x
<1>4. Fits(x, last[r])
  BY <1>1, <1>3 DEF Fits
<1>5. last' = [last EXCEPT ![r] = last[r]]
  BY DEF IndInv, Typed
<1>6. rx' = [rx EXCEPT ![r] = x]
  BY DEF x
<1>7. QED
  BY <1>1, <1>2, <1>4, <1>5, <1>6, OneMoves

\* A receiver that subscribes to the channel in place, behind all it holds.
LEMMA Subscribes ==
    ASSUME IndInv, NEW r \in Receivers, engine # "replacing",
           NEW p \in {"idle", "loop"}, NEW o \in Generations, o <= generation,
           rx' = [rx EXCEPT ![r] = [rx[r] EXCEPT !.at = p, !.observed = o,
                                      !.chan = current, !.pos = Len(chans[current])]],
           last' = last, UNCHANGED <<serverVars, storeVars>>
    PROVE  IndInv'
<1> DEFINE x == [rx[r] EXCEPT !.at = p, !.observed = o, !.chan = current,
                              !.pos = Len(chans[current])]
<1>1. rx[r] \in Rx /\ Fits(rx[r], last[r]) /\ last[r] \in Nat /\ generation \in Nat
  BY OneReceiver
<1>2. /\ current \in Generations /\ current = generation
      /\ chans[current] \in Seq(Nat)
  BY DEF IndInv, Typed, Markers
<1>3. /\ Len(chans[current]) \in Nat
      /\ DOMAIN chans[current] = 1..Len(chans[current])
  BY <1>2
<1>4. x \in Rx
  BY <1>1, <1>2, <1>3 DEF Rx
<1>5. /\ x.at = p /\ x.seen = rx[r].seen /\ x.chan = current
      /\ x.pos = Len(chans[current]) /\ x.observed = o
  BY <1>1 DEF Rx
<1> HIDE DEF x
<1>6. Fits(x, last[r])
  <2>1. x.observed <= x.chan /\ x.chan <= generation /\ x.seen <= generation
    BY <1>1, <1>2, <1>5 DEF Fits
  <2>2. x.pos <= Len(chans[x.chan])
    BY <1>3, <1>5
  <2>3. \A k \in DOMAIN chans[x.chan] : ~(k > x.pos)
    BY <1>3, <1>5
  <2>4. x.at # "received"
    BY <1>5
  <2>5. last[r] <= geid
    BY <1>1 DEF Fits
  <2>6. QED
    BY <2>1, <2>2, <2>3, <2>4, <2>5 DEF Fits
<1>7. last' = [last EXCEPT ![r] = last[r]]
  BY DEF IndInv, Typed
<1>8. rx' = [rx EXCEPT ![r] = x]
  BY DEF x
<1>9. QED
  BY <1>1, <1>4, <1>6, <1>7, <1>8, OneMoves

\* A receiver that takes a result off its channel.
LEMMA Takes ==
    ASSUME IndInv, NEW r \in Receivers, Receive(r) \/ ReceiveClosed(r)
    PROVE  IndInv'
<1> DEFINE c == rx[r].chan
           q == rx[r].pos
<1>1. /\ rx[r] \in Rx /\ last[r] \in Nat /\ Fits(rx[r], last[r])
      /\ q \in Nat /\ Capacity \in Nat \ {0} /\ geid \in Nat /\ generation \in Nat
      /\ c \in Nat /\ Len(chans[c]) \in Nat /\ DOMAIN chans[c] = 1..Len(chans[c])
      /\ \A k \in DOMAIN chans[c] : chans[c][k] \in Nat
  BY OneReceiver
<1>2. rx[r].at = "waiting" /\ last' = last /\ UNCHANGED <<serverVars, storeVars>>
  BY DEF Receive, ReceiveClosed
<1>3. /\ rx[r].observed <= c /\ c <= generation /\ rx[r].seen <= generation
      /\ q <= Len(chans[c]) /\ last[r] <= geid
      /\ \A k \in DOMAIN chans[c] : k > q => chans[c][k] > last[r]
  BY <1>1 DEF Fits
<1>4. last' = [last EXCEPT ![r] = last[r]]
  <2>1. last \in [Receivers -> Nat] /\ last' = last
    BY <1>2 DEF IndInv, Typed
  <2>2. QED
    BY <2>1
<1>5. PICK n \in Nat, v \in Nat \cup {-1} :
        /\ rx' = [rx EXCEPT ![r] = [rx[r] EXCEPT !.at = "received", !.pos = n,
                                                 !.result = v]]
        /\ n >= q /\ n <= Len(chans[c])
        /\ v > 0 => n > q /\ chans[c][n] = v
        /\ \A k \in DOMAIN chans[c] : k = n /\ v > 0 => k > q
  <2>1. CASE ReceiveClosed(r)
    <3>1. rx' = [rx EXCEPT ![r].at = "received", ![r].result = -1]
      BY <2>1 DEF ReceiveClosed
    <3>2. rx' = [rx EXCEPT ![r] = [rx[r] EXCEPT !.at = "received", !.pos = q,
                                                !.result = -1]]
      BY <1>1, <3>1 DEF Rx
    <3>3. /\ q >= q /\ q <= Len(chans[c]) /\ ~(-1 > 0)
      BY <1>1, <1>3
    <3>4. q \in Nat /\ -1 \in Nat \cup {-1}
      BY <1>1
    <3> HIDE DEF c, q
    <3> USE <3>3, <3>4
    <3>5. WITNESS q \in Nat, -1 \in Nat \cup {-1}
    <3>6. QED
      BY <3>2, <3>3
  <2>2. CASE Receive(r) /\ q < Len(chans[c]) - Capacity
    <3>1. rx' = [rx EXCEPT ![r].at = "received", ![r].result = 0,
                           ![r].pos = Len(chans[c]) - Capacity]
      BY <2>2 DEF Receive
    <3>2. rx' = [rx EXCEPT ![r] = [rx[r] EXCEPT !.at = "received",
                                     !.pos = Len(chans[c]) - Capacity, !.result = 0]]
      BY <1>1, <3>1 DEF Rx
    <3>3. /\ Len(chans[c]) - Capacity \in Nat /\ Len(chans[c]) - Capacity >= q
          /\ Len(chans[c]) - Capacity <= Len(chans[c])
      <4>1. q \in Nat /\ Capacity \in Nat /\ Len(chans[c]) \in Nat
        BY <1>1
      <4>2. q < Len(chans[c]) - Capacity
        BY <2>2
      <4> HIDE DEF c, q
      <4>3. QED
        BY <4>1, <4>2
    <3>4. 0 \in Nat \cup {-1} /\ ~(0 > 0)
      OBVIOUS
    <3> HIDE DEF c, q
    <3> USE <3>3, <3>4
    <3>5. WITNESS Len(chans[c]) - Capacity \in Nat, 0 \in Nat \cup {-1}
    <3>6. QED
      BY <3>2, <3>3, <3>4
  <2>3. CASE Receive(r) /\ ~(q < Len(chans[c]) - Capacity)
    <3>1. /\ rx' = [rx EXCEPT ![r].at = "received", ![r].pos = @ + 1,
                              ![r].result = chans[c][q + 1]]
          /\ q < Len(chans[c])
      BY <2>3 DEF Receive
    <3>2. rx' = [rx EXCEPT ![r] = [rx[r] EXCEPT !.at = "received", !.pos = q + 1,
                                                !.result = chans[c][q + 1]]]
      BY <1>1, <3>1 DEF Rx
    <3>3. q \in Nat /\ Len(chans[c]) \in Nat /\ DOMAIN chans[c] = 1..Len(chans[c])
          /\ \A k \in DOMAIN chans[c] : chans[c][k] \in Nat
      BY <1>1
    <3> HIDE DEF c, q
    <3>4. /\ q + 1 \in Nat /\ q + 1 >= q /\ q + 1 <= Len(chans[c])
          /\ q + 1 \in DOMAIN chans[c] /\ q + 1 > q
      BY <3>1, <3>3
    <3>5. chans[c][q + 1] \in Nat \cup {-1}
      BY <3>3, <3>4
    <3> USE <3>4, <3>5
    <3>6. WITNESS q + 1 \in Nat, chans[c][q + 1] \in Nat \cup {-1}
    <3>7. QED
      BY <3>2, <3>4
  <2>4. QED
    BY <2>1, <2>2, <2>3, Zenon
<1> DEFINE x == [rx[r] EXCEPT !.at = "received", !.pos = n, !.result = v]
<1>6. x \in Rx
  BY <1>1 DEF Rx
<1>7. /\ x.at = "received" /\ x.pos = n /\ x.result = v /\ x.chan = c
      /\ x.seen = rx[r].seen /\ x.observed = rx[r].observed
  BY <1>1 DEF Rx
<1> HIDE DEF x
<1>8. Fits(x, last[r])
  <2>1. x.observed <= x.chan /\ x.chan <= generation /\ x.seen <= generation
    BY <1>3, <1>7
  <2>2. x.pos <= Len(chans[x.chan]) /\ last[r] <= geid
    BY <1>3, <1>5, <1>7
  <2>3. x.result > 0 => x.pos > 0 /\ chans[x.chan][x.pos] = x.result
    BY <1>1, <1>5, <1>7
  <2>4. ASSUME NEW k \in DOMAIN chans[c], k > n \/ (v > 0 /\ k = n)
        PROVE  chans[c][k] > last[r]
    <3>1. k > q
      BY <1>1, <1>5, <2>4
    <3>2. QED
      BY <1>3, <3>1
  <2>5. QED
    BY <1>7, <2>1, <2>2, <2>3, <2>4 DEF Fits
<1>9. rx' = [rx EXCEPT ![r] = x]
  BY <1>5 DEF x
<1>10. QED
  BY <1>1, <1>2, <1>4, <1>6, <1>8, <1>9, OneMoves

\* A receiver that gives its result to the caller.
LEMMA Delivers ==
    ASSUME IndInv, NEW r \in Receivers, rx[r].at = "received", Deliver(r),
           UNCHANGED <<serverVars, storeVars>>
    PROVE  IndInv'
<1> DEFINE c == rx[r].chan
           q == rx[r].pos
           x == [rx[r] EXCEPT !.at = "idle"]
           l == IF rx[r].result > 0 THEN rx[r].result ELSE last[r]
<1>1. /\ rx[r] \in Rx /\ last[r] \in Nat /\ Fits(rx[r], last[r])
      /\ q \in Nat /\ geid \in Nat /\ rx[r].result \in Nat \cup {-1}
      /\ Len(chans[c]) \in Nat /\ DOMAIN chans[c] = 1..Len(chans[c])
      /\ \A k \in DOMAIN chans[c] : chans[c][k] \in Nat /\ chans[c][k] <= geid
      /\ \A k, j \in DOMAIN chans[c] : k < j => chans[c][k] < chans[c][j]
  BY OneReceiver
<1>2. /\ rx[r].observed <= c /\ c <= generation /\ rx[r].seen <= generation
      /\ q <= Len(chans[c]) /\ last[r] <= geid
      /\ rx[r].result > 0 => q > 0 /\ chans[c][q] = rx[r].result
      /\ \A k \in DOMAIN chans[c] : k > q => chans[c][k] > last[r]
  BY <1>1 DEF Fits
<1>3. last \in [Receivers -> Nat]
  BY DEF IndInv, Typed
<1>4. l \in Nat
  BY <1>1
<1>5. last' = [last EXCEPT ![r] = l]
  <2>1. CASE rx[r].result > 0
    BY <2>1 DEF Deliver
  <2>2. CASE ~(rx[r].result > 0)
    BY <1>3, <2>2 DEF Deliver
  <2>3. QED
    BY <2>1, <2>2
<1>6. l <= geid /\ \A k \in DOMAIN chans[c] : k > q => chans[c][k] > l
  <2>1. CASE rx[r].result > 0
    <3>1. q \in DOMAIN chans[c] /\ l = chans[c][q]
      BY <1>1, <1>2, <2>1
    <3>2. \A k \in DOMAIN chans[c] : k > q => q < k /\ chans[c][k] \in Nat
      BY <1>1
    <3>3. chans[c][q] \in Nat /\ chans[c][q] <= geid
      BY <1>1, <3>1
    <3>4. \A k \in DOMAIN chans[c] : k > q => chans[c][q] < chans[c][k]
      BY <1>1, <3>1, <3>2
    <3>5. QED
      BY <3>1, <3>2, <3>3, <3>4
  <2>2. CASE ~(rx[r].result > 0)
    BY <1>2, <2>2
  <2>3. QED
    BY <2>1, <2>2
<1>7. x \in Rx
  BY <1>1 DEF Rx
<1>8. /\ x.at = "idle" /\ x.pos = q /\ x.chan = c
      /\ x.seen = rx[r].seen /\ x.observed = rx[r].observed
  BY <1>1 DEF Rx
<1>9. rx' = [rx EXCEPT ![r] = x]
  BY <1>1 DEF Deliver, At
<1> HIDE DEF x, l
<1>10. Fits(x, l)
  BY <1>2, <1>6, <1>8 DEF Fits
<1>11. QED
  BY <1>4, <1>5, <1>7, <1>9, <1>10, OneMoves

\* Every step of a receiver keeps the invariant.
LEMMA ReceiverStep ==
    ASSUME IndInv, NEW r \in Receivers,
           Receiver(r) \/ TryReturn(r) \/ TryReturnEmpty(r) \/ Resubscribe(r)
    PROVE  IndInv'
<1>1. /\ rx[r] \in Rx /\ Fits(rx[r], last[r]) /\ rx[r].seen \in Generations
      /\ generation \in Generations /\ generation \in Nat
      /\ rx \in [Receivers -> Rx]
  <2>1. rx[r] \in Rx /\ Fits(rx[r], last[r]) /\ generation \in Nat
    BY OneReceiver
  <2>2. rx[r].seen \in Generations
    BY <2>1 DEF Rx
  <2>3. QED
    BY <2>1, <2>2 DEF IndInv, Typed
<1>2. rx[r].seen <= generation /\ generation <= generation
  BY <1>1 DEF Fits
<1>3. CASE ReadMarker(r)
  <2>1. PICK p \in {"idle", "loop", "waiting", "refresh"} :
          rx' = [rx EXCEPT ![r].seen = generation, ![r].at = p]
    <3>1. CASE generation = rx[r].observed
      BY <1>3, <3>1 DEF ReadMarker
    <3>2. CASE generation # rx[r].observed
      BY <1>3, <3>2 DEF ReadMarker
    <3>3. QED
      BY <3>1, <3>2
  <2>2. rx' = [rx EXCEPT ![r] = [rx[r] EXCEPT !.at = p, !.seen = generation]]
    BY <1>1, <2>1 DEF Rx
  <2>3. last' = last /\ UNCHANGED <<serverVars, storeVars>>
    BY <1>3 DEF ReadMarker
  <2>4. QED
    BY <1>1, <1>2, <2>2, <2>3, Walks
<1>4. ASSUME NEW p \in {"idle", "loop"}, At(r, p), last' = last,
             UNCHANGED <<serverVars, storeVars>>
      PROVE  IndInv'
  <2>1. rx' = [rx EXCEPT ![r] = [rx[r] EXCEPT !.at = p, !.seen = rx[r].seen]]
    BY <1>1, <1>4 DEF At, Rx
  <2>2. QED
    BY <1>1, <1>2, <1>4, <2>1, Walks
<1>5. CASE MarkerChanged(r)
  BY <1>4, <1>5 DEF MarkerChanged
<1>6. CASE TryReturnEmpty(r)
  BY <1>4, <1>6 DEF TryReturnEmpty
<1>7. CASE Refresh(r)
  <2>1. rx' = [rx EXCEPT ![r] = [rx[r] EXCEPT !.at = "loop", !.observed = rx[r].seen,
                                   !.chan = current, !.pos = Len(chans[current])]]
    BY <1>1, <1>7 DEF Refresh, Rx
  <2>2. engine # "replacing" /\ last' = last /\ UNCHANGED <<serverVars, storeVars>>
    BY <1>7 DEF Refresh
  <2>3. QED
    BY <1>1, <1>2, <2>1, <2>2, Subscribes
<1>8. CASE Resubscribe(r)
  <2>1. rx' = [rx EXCEPT ![r] = [rx[r] EXCEPT !.at = "idle", !.observed = generation,
                                   !.chan = current, !.pos = Len(chans[current])]]
    BY ZenonT(60), <1>1, <1>8 DEF Resubscribe, Rx
  <2>2. engine # "replacing" /\ last' = last /\ UNCHANGED <<serverVars, storeVars>>
    BY <1>8 DEF Resubscribe
  <2>3. QED
    BY <1>1, <1>2, <2>1, <2>2, Subscribes
<1>9. CASE Receive(r) \/ ReceiveClosed(r)
  BY <1>9, Takes
<1>10. CASE Return(r)
  <2>1. rx[r].at = "received" /\ UNCHANGED <<serverVars, storeVars>>
    BY <1>10 DEF Return
  <2>2. CASE generation # rx[r].observed
    BY <1>4, <1>10, <2>1, <2>2 DEF Return
  <2>3. CASE generation = rx[r].observed
    BY <1>10, <2>1, <2>3, Delivers DEF Return
  <2>4. QED
    BY <2>2, <2>3
<1>11. CASE TryReturn(r)
  BY <1>11, Delivers DEF TryReturn
<1>12. QED
  BY <1>3, <1>5, <1>6, <1>7, <1>8, <1>9, <1>10, <1>11 DEF Receiver

------------------------------------------------------------------------------
(***************************************************************************)
(* The theorems.                                                           *)
(***************************************************************************)

\* The store starts from the snapshot it was given, with every receiver at
\* the start of the first channel.
LEMMA Initially == Init => IndInv
<1> SUFFICES ASSUME Init PROVE IndInv
  OBVIOUS
<1> USE StoreAssumption DEF StoreAssumption
<1>1. InitialDb \in Dbs
  <2>1. AnyGroup \in Groups
    BY DEF AnyGroup
  <2>2. {1, 2} \subseteq Channels
    OBVIOUS
  <2>3. QED
    BY <2>1, <2>2 DEF InitialDb, Dbs
<1>2. Keyed(InitialDb)
  BY DEF InitialDb, Keyed, UniqueKeys
<1>3. /\ log = <<>> /\ truth = <<InitialDb>> /\ Len(log) = 0 /\ Len(truth) = 1
      /\ truth[1] = InitialDb /\ geid = 0 /\ db = InitialDb
      /\ generation = 0 /\ current = 0 /\ engine = "idle"
  BY DEF Init
<1>4. /\ 0 \in Generations /\ chans = [g \in Generations |-> <<>>]
      /\ \A g \in Generations : chans[g] = <<>>
  BY DEF Init, Generations
<1>5. Typed
  <2>1. log \in Seq(Events) /\ truth \in Seq(Dbs) /\ geid \in Nat /\ geid <= Len(log)
    BY <1>1, <1>3
  <2>2. chans \in [Generations -> Seq(Nat)]
    BY <1>4
  <2>3. rx \in [Receivers -> Rx] /\ last \in [Receivers -> Nat]
    BY <1>4 DEF Init, Rx
  <2>4. QED
    BY <1>3, <1>4, <2>1, <2>2, <2>3 DEF Typed
<1>6. History
  BY <1>2, <1>3 DEF History
<1>7. MatchesServer /\ Markers
  BY <1>3 DEF MatchesServer, Markers
<1>8. Ordered
  BY <1>4 DEF Ordered
<1>9. Reading /\ Forward
  <2>1. \A r \in Receivers :
          /\ rx[r].observed = 0 /\ rx[r].chan = 0 /\ rx[r].seen = 0 /\ rx[r].pos = 0
          /\ rx[r].at = "idle" /\ last[r] = 0
    BY DEF Init
  <2>2. Len(chans[0]) = 0 /\ DOMAIN chans[0] = {}
    BY <1>4
  <2>3. QED
    BY <1>3, <2>1, <2>2 DEF Reading, Forward
<1>10. QED
  BY <1>5, <1>6, <1>7, <1>8, <1>9 DEF IndInv

\* Every step keeps the invariant.
LEMMA Step == IndInv /\ [Next]_vars => IndInv'
<1> SUFFICES ASSUME IndInv, [Next]_vars PROVE IndInv'
  OBVIOUS
<1>1. CASE Server
  BY <1>1, ServerStep
<1>2. CASE ApplyEvent
  BY <1>2, ApplyStep
<1>3. CASE SwapChannel \/ PublishSnapshot
  BY <1>3, ReplaceStep
<1>4. ASSUME NEW r \in Receivers,
             Receiver(r) \/ TryReturn(r) \/ TryReturnEmpty(r) \/ Resubscribe(r)
      PROVE  IndInv'
  BY <1>4, ReceiverStep
<1>5. CASE UNCHANGED vars
  BY <1>5 DEF vars, serverVars, storeVars, rxVars, IndInv, Typed, History,
              MatchesServer, Markers, Ordered, Reading, Forward, Undelivered
<1>6. QED
  BY <1>1, <1>2, <1>3, <1>4, <1>5 DEF Next

\* The invariant holds throughout.
LEMMA Invariance == Spec => []IndInv
BY Initially, Step, PTL DEF Spec

\* Whatever mixture of events, repeated events, refusals and snapshots the
\* engine hands to apply_event and replace_snapshot, the store's projection is
\* the server's state at the projection's GEID.
THEOREM ProjectionMatchesServer == Spec => []MatchesServer
<1>1. IndInv => MatchesServer
  BY DEF IndInv
<1>2. QED
  BY <1>1, Invariance, PTL

\* The collections of the store keep one record per key, and every receiver
\* stays within the channel it is subscribed to.
THEOREM TypeCorrect == Spec => []TypeOK
<1>1. ASSUME IndInv PROVE TypeOK
  <2>1. geid \in 0..Len(log)
    BY <1>1 DEF IndInv, Typed
  <2>2. Keyed(db)
    <3>1. geid \in Nat /\ Len(log) \in Nat /\ Len(truth) = Len(log) + 1
      BY <1>1 DEF IndInv, Typed, History
    <3>2. geid + 1 \in 1..Len(truth)
      BY <2>1, <3>1
    <3>3. QED
      BY <1>1, <3>2 DEF IndInv, History, MatchesServer
  <2>3. \A items \in {db.groups, db.channels, db.members, db.users, db.roles} :
          \A i, j \in items : i.key = j.key => i = j
    BY <2>2 DEF Keyed, UniqueKeys
  <2>4. generation \in Nat /\ current \in Nat
    BY <1>1, StoreAssumption DEF IndInv, Typed, Generations, StoreAssumption
  <2>5. generation \in Generations /\ current \in generation..(generation + 1)
    BY <1>1, <2>4 DEF IndInv, Typed, Markers
  <2>6. ASSUME NEW r \in Receivers
        PROVE  /\ rx[r].chan \in 0..current
               /\ rx[r].pos \in 0..Len(chans[rx[r].chan])
               /\ rx[r].observed <= generation
    <3>1. /\ rx[r].chan \in Nat /\ rx[r].pos \in Nat /\ rx[r].observed \in Nat
          /\ Len(chans[rx[r].chan]) \in Nat /\ Fits(rx[r], last[r])
      BY <1>1, OneReceiver
    <3>2. generation <= current
      BY <1>1 DEF IndInv, Markers
    <3>3. QED
      BY <2>4, <3>1, <3>2 DEF Fits
  <2>7. QED
    BY <2>1, <2>3, <2>5, <2>6 DEF TypeOK
<1>2. QED
  BY <1>1, Invariance, PTL

\* recv never returns an event of an earlier snapshot generation once the
\* replacement has been published, nor an event twice or out of order: the
\* marker it compares last covers both the channel and the result.
THEOREM BoundaryKept == Spec => BoundaryRespected
<1> DEFINE Kept ==
      \A r \in Receivers :
        rx[r].at = "received" /\ rx'[r].at = "idle" /\ rx[r].result > 0
          => /\ rx[r].result > last[r]
             /\ \E i \in DOMAIN chans[generation] : chans[generation][i] = rx[r].result
<1>1. ASSUME IndInv, [Next]_vars PROVE Kept
  <2> SUFFICES ASSUME NEW r \in Receivers, rx[r].at = "received",
                      rx'[r].at = "idle", rx[r].result > 0
               PROVE  /\ rx[r].result > last[r]
                      /\ \E i \in DOMAIN chans[generation] :
                           chans[generation][i] = rx[r].result
    OBVIOUS
  <2>1. /\ rx[r].pos \in Nat /\ rx[r].chan \in Nat /\ generation \in Nat
        /\ rx[r].observed \in Nat /\ Fits(rx[r], last[r])
        /\ Len(chans[rx[r].chan]) \in Nat
        /\ DOMAIN chans[rx[r].chan] = 1..Len(chans[rx[r].chan])
    BY <1>1, OneReceiver
  <2>2. /\ rx[r].pos \in DOMAIN chans[rx[r].chan]
        /\ chans[rx[r].chan][rx[r].pos] = rx[r].result
        /\ rx[r].result > last[r]
    <3>1. /\ rx[r].pos > 0 /\ rx[r].pos <= Len(chans[rx[r].chan])
          /\ chans[rx[r].chan][rx[r].pos] = rx[r].result
      BY <2>1 DEF Fits
    <3>2. rx[r].pos \in DOMAIN chans[rx[r].chan]
      BY <2>1, <3>1
    <3>3. QED
      BY <2>1, <3>1, <3>2 DEF Fits
  <2>3. rx[r].observed = generation
    <3>1. ASSUME rx' = rx PROVE FALSE
      BY <3>1
    <3>2. \E q \in Receivers :
            \/ Receiver(q) \/ TryReturn(q) \/ TryReturnEmpty(q) \/ Resubscribe(q)
      BY <1>1, <3>1 DEF Next, vars, rxVars, Server, Change, ApplyEvent, SwapChannel,
           PublishSnapshot, PutChannel, DropChannel, Reveal, Enter, DropGroup,
           PutGroup, Leave, PutUser, DropUser, PutRole, DropRole, Authorize, Other
    <3>3. PICK q \in Receivers :
            \/ Receiver(q) \/ TryReturn(q) \/ TryReturnEmpty(q) \/ Resubscribe(q)
      BY <3>2
    <3>4. rx \in [Receivers -> Rx]
      BY <1>1 DEF IndInv, Typed
    <3>5. ASSUME q # r PROVE FALSE
      <4>1. rx'[r] = rx[r]
        BY <3>3, <3>4, <3>5 DEF Receiver, ReadMarker, Refresh, Receive, ReceiveClosed,
             MarkerChanged, Return, Deliver, TryReturn, TryReturnEmpty, Resubscribe, At
      <4>2. QED
        BY <4>1
    <3>6. Return(r)
      <4>1. ~ReadMarker(r) /\ ~Refresh(r) /\ ~Receive(r) /\ ~ReceiveClosed(r)
            /\ ~MarkerChanged(r) /\ ~TryReturnEmpty(r) /\ ~Resubscribe(r)
        BY DEF ReadMarker, Refresh, Receive, ReceiveClosed, MarkerChanged,
               TryReturnEmpty, Resubscribe
      <4>2. ~TryReturn(r)
        <5>1. rx[r].result \in Nat \cup {-1}
          BY <3>4 DEF Rx
        <5>2. QED
          BY <5>1 DEF TryReturn
      <4>3. QED
        BY <3>3, <3>5, <4>1, <4>2 DEF Receiver
    <3>7. CASE generation # rx[r].observed
      <4>1. rx' = [rx EXCEPT ![r].at = "loop"]
        BY <3>6, <3>7 DEF Return, At
      <4>2. rx'[r].at = "loop"
        BY <3>4, <4>1 DEF Rx
      <4>3. QED
        BY <4>2
    <3>8. QED
      BY <3>7
  <2>4. rx[r].chan = generation
    BY <2>1, <2>3 DEF Fits
  <2>5. QED
    BY <2>2, <2>4
<1>2. IndInv /\ [Next]_vars => [Kept]_vars
  BY <1>1
<1>3. QED
  BY <1>2, Invariance, PTL DEF Spec, BoundaryRespected

==============================================================================
