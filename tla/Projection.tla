----------------------------- MODULE Projection -----------------------------
(***************************************************************************)
(* The client's projection of the server state: validate_event and         *)
(* apply_known_event of state/projection.rs as operators on a record of    *)
(* keyed collections.  A collection is a set of records with one record    *)
(* per key; of an entity only the fields are kept that some rule reads     *)
(* (a channel's group, the channel of a membership or of the voice         *)
(* authority), and for users and roles a version that tells an update from *)
(* what it replaces.                                                       *)
(***************************************************************************)
EXTENDS Naturals, FiniteSets

\* Event types by the rule that applies to them.
GroupUpserts == {"group.created", "group.updated"}
ChannelUpserts == {"channel.created", "channel.updated"}
UserUpserts == {"user.created", "user.updated", "presence.updated"}
RoleUpserts == {"rbac.role.created", "rbac.role.updated"}

\* Accepted, but the projection keeps nothing of them.
Ignored ==
    {"voice.revoked", "voice.disconnected", "voice.membership.updated",
     "group.access.updated", "acl.updated", "channel.access.updated",
     "rbac.binding.updated", "rbac.config.updated", "owner.transferred",
     "moderation.mute.updated", "moderation.mute.removed", "server.updated"}

\* is_visibility_scope_event and is_visibility_state_event
VisibilityScope ==
    {"visibility.grant.begin", "visibility.fragment", "visibility.granted",
     "visibility.revoked", "visibility.tombstone"}
Visibility == VisibilityScope \cup {"visibility.transition.complete"}

\* is_known_state_event: the closed table.
KnownTypes ==
    GroupUpserts \cup ChannelUpserts \cup UserUpserts \cup RoleUpserts
    \cup Ignored \cup Visibility
    \cup {"group.deleted", "channel.deleted", "channel.member.joined",
          "channel.member.left", "user.deleted", "self.updated",
          "rbac.role.deleted", "voice.authority.updated"}

\* expected_scope_kind; a type without an entry may use any scope.
GroupScoped == GroupUpserts \cup {"group.deleted", "group.access.updated"}
ChannelScoped ==
    ChannelUpserts \cup {"channel.deleted", "channel.access.updated",
                         "channel.member.joined", "channel.member.left",
                         "voice.membership.updated"}
ServerScoped ==
    UserUpserts \cup RoleUpserts
    \cup {"user.deleted", "self.updated", "rbac.role.deleted",
          "owner.transferred", "voice.authority.updated", "voice.revoked",
          "voice.disconnected", "server.updated",
          "visibility.transition.complete"}

ExpectedScope(type) ==
    CASE type \in GroupScoped -> {"group"}
      [] type \in ChannelScoped -> {"channel"}
      [] type \in ServerScoped -> {"server"}
      [] type \in VisibilityScope -> {"group", "channel"}
      [] OTHER -> {"server", "group", "channel"}

\* validate_event: "ok", or the error that makes the caller fetch a snapshot.
\* wellFormed stands for the frame type, the class and a non-empty cursor.
ValidateEvent(e, geid) ==
    CASE ~e.wellFormed -> "InvalidEnvelope"
      [] e.wellFormed /\ e.geid <= geid -> "GeidOrder"
      [] e.wellFormed /\ e.geid > geid /\ e.type \notin KnownTypes -> "UnknownEvent"
      [] OTHER -> IF /\ e.scope \in ExpectedScope(e.type)
                     /\ e.scope = "server" <=> e.scopeId = 0
                    THEN "ok" ELSE "InvalidEnvelope"

\* upsert_by_id, upsert_by_key, upsert_user, upsert_membership: the record
\* with the same key is replaced.
Upsert(items, item) == {i \in items : i.key # item.key} \cup {item}

Remove(items, key) == {i \in items : i.key # key}

\* The key of a membership is the user: one active channel per user.
UpsertMembership(items, item) == Upsert(items, item)

\* Mutant: the members of a deleted channel stay.
DeleteChannel_KeepsMembers(db, c) ==
    [db EXCEPT !.channels = Remove(@, c),
               !.authority = IF @ = c THEN 0 ELSE @]

\* The channel's members and the authority go with it.
DeleteChannel(db, c) ==
    [db EXCEPT !.channels = Remove(@, c),
               !.members = {m \in @ : m.channel # c},
               !.authority = IF @ = c THEN 0 ELSE @]

\* A group takes its channels with it, and nothing else.
DeleteGroup(db, g) ==
    [db EXCEPT !.groups = Remove(@, g),
               !.channels = {c \in @ : c.group # g}]

\* apply_known_event on an event that validate_event accepted; the data of e
\* is [key, ...] as the rule needs it.
ApplyKnownEvent(db, e) ==
    LET d == e.data
    IN CASE e.type \in GroupUpserts -> [db EXCEPT !.groups = Upsert(@, d)]
         [] e.type = "group.deleted" -> DeleteGroup(db, d.key)
         [] e.type \in ChannelUpserts -> [db EXCEPT !.channels = Upsert(@, d)]
         [] e.type = "channel.deleted" -> DeleteChannel(db, d.key)
         [] e.type = "channel.member.joined" ->
              [db EXCEPT !.members = UpsertMembership(@, d)]
         [] e.type = "channel.member.left" -> [db EXCEPT !.members = @ \ {d}]
         [] e.type \in UserUpserts -> [db EXCEPT !.users = Upsert(@, d)]
         [] e.type = "user.deleted" -> [db EXCEPT !.users = Remove(@, d.key)]
         [] e.type \in RoleUpserts -> [db EXCEPT !.roles = Upsert(@, d)]
         [] e.type = "rbac.role.deleted" -> [db EXCEPT !.roles = Remove(@, d.key)]
         [] e.type \in {"self.updated", "voice.authority.updated"} ->
              [db EXCEPT !.authority = d.key]
         [] e.type \in Ignored -> db

\* Whether apply_known_event has a rule for the event, rather than asking for
\* a snapshot.
Applicable(e) == e.type \in KnownTypes \ Visibility

==============================================================================
