# ZephyrVox Rust SDK: TLA+ verification project

The SDK is the client side of a voice-chat system. It logs in over HTTP, keeps a
local copy of the server's state over a WebSocket, and sends and receives voice
packets over UDP. This directory models the parts of it that run concurrently,
survive failures, agree on a protocol with each other or do arithmetic at a
boundary, checks them with TLC on small instances, and proves the central
properties with TLAPS for every instance.

All paths below are relative to `src/`; a file name without a directory is in the
crate that its section names.

## 1. Inventory

| Component | State it keeps | Operations | Module |
|---|---|---|---|
| Sync machine (`crates/zephyrvox-realtime/src/sync.rs`) | phase, cursor, GEID, queue of live events | `begin_sync`, `accept_replay`, `accept_live_event`, `accept_complete`, `require_snapshot`, `replace_snapshot` | `SyncMachine` |
| Connection engine (`engine.rs`, `engine/socket.rs`, `connection.rs`) | status, identity, stop flag and signal, retry counter, current socket generation | connect, receive a frame, resync, reconnect, `close` | `ControlConnection` |
| Commands (`connection.rs`, `engine.rs`, `engine/socket.rs`) | pending table, outbound queue, identity and lease | `set_presence`, `update_access`, answer, clear on disconnect | `Commands` |
| State store (`state.rs`, `state/projection.rs`) | snapshot, cursor, GEID, event generation and channel | `replace_snapshot`, `apply_event`, `recv`, `try_recv`, `resubscribe` | `StateStore`, `Projection`; `StateFeed` is what the connection promises of it |
| Voice session (`crates/zephyrvox-voice/src/worker.rs`, `session.rs`, `lifecycle.rs`) | status, stop request, command and media channels, sequence counters | `start`, `send`, `recv`, `close`, `disconnect`, `revoke`, worker loop | `VoiceSession` |
| Replay window (`replay.rs`) | high-water mark and a bitmap of two words | `would_accept`, `accept` | `ReplayWindow` |
| Voice path (`codec.rs`, `decode.rs`, `crypto.rs`, `config.rs`; `zephyrvox-http` `channels/voice.rs`, `discovery.rs`) | key cache, codec of the session | validate a join and metadata, configure, encode, decode, `handle_inbound` | `VoicePath` |
| Credentials (`crates/zephyrvox-http/src/client.rs`, `client/refresh.rs`, `auth.rs`) | active pair, credential store, refresh gate with the current flight | `refresh_access`, `login`, `logout`, `set_tokens`, `clear_tokens` | `CredentialRefresh` |
| Resource calls (`client.rs`, `request.rs`, `response.rs`, one file per resource) | none of its own | endpoint methods, options, one retry after a 401, decoding | `ApiCalls` |
| Server card (`crates/zephyrvox-wire/src/server_card.rs`, the origin checks of both transports) | none | `parse`, `new`, `render`, URLs | `ServerCard` |
| SDK facade (`crates/zephyrvox-sdk/src/`) | control connection and its generation, voice intent and session, key cache, gates | `connect`, `join_voice`, `leave_voice`, handle `close` and `leave`, relay, rejoin, `shutdown` | `Facade` |
| JSON, TLS, sockets, value types, test kit | none over time | encode, decode, map | not modelled, section 8 |

How they interact. The facade opens a control connection with a provider that
takes tokens and snapshots from the HTTP client; the HTTP client refreshes tokens
through the singleflight. The connection's owner task runs one socket generation
after another and is the only writer of the state store. Hosts read status and
state from watch channels and events from broadcast channels. The facade joins
voice with an HTTP call, starts a voice session with the key it received, and a
relay task per control generation stops it when control state says so, or joins
again after a reconnect. All waiting is on tokio channels, mutexes, `select!` and
`Notify`; a future may be dropped at any await.

What is hard about it, and what makes each part correct:

* **Handoff.** The client resumes from a cursor and accepts gaps between GEIDs,
  because the server filters events per recipient. An event skipped once is
  therefore never noticed. Correct means that the state is always the effect of
  a prefix of the history, that the cursor to resume from is never past an event
  the state lacks, that `Live` is published only when the replay queue has been
  applied, that the handoff always ends, and that `close` always returns.
* **Commands.** A call outlives sockets. Correct means that a lost socket wakes its
  waiters, that an answer completes only its own request, that no waiter leaks
  and that every call returns.
* **State store.** Correct means that the projection equals the server's state
  after any mixture of events and snapshots, and that a receiver never delivers
  an event of a projection that was replaced.
* **Voice session.** Stop requests, sends, heartbeats, revocations and failures
  compete for one worker. Correct means that sequence numbers on the wire never
  repeat, that nothing is sent after the end, and that every host call returns.
* **Voice path.** Terms negotiated over HTTP, checked by two crates, decide what the
  codec builds. Correct means that both checks agree, that what they admit fits a
  datagram, and that only authentic packets, each once, reach the host or move
  the window.
* **Replay window.** Correct means that the bitmap decides exactly "never seen
  and not too old", through every shift.
* **Refresh.** The server rotates the refresh token, so presenting a pair twice
  loses the login. Correct means one refresh per pair, that a concurrent login is
  not overwritten, that a dropped leader neither strands its waiters nor blocks
  the gate, and that the store is never behind the active pair.
* **Resource calls.** Answers are lost and calls repeated. Correct means that a
  mutation with a key takes effect once, that an update never overwrites a version
  its caller had not read, and that the outcome reported is the one that happened.
* **Facade.** Host tasks, relays and workers interleave over four mutexes. Correct
  means that shutdown is final, that no running session is unreachable, that media
  ends with the connection that authorizes it, and that leaving is final.

`PROJECT.json` lists the individual hazards at their lines.

## 2. Modules and the code

### SyncMachine, ControlConnection, StateFeed

`SyncMachine` translates the methods of `sync.rs` as pure operators on a machine
record. A fallible method has a verdict (`ok` or the `SyncError` variant) and a
successor. An event, its GEID and its cursor are one number, the event's position
in the server's log; the stream epoch does not change.

`ControlConnection` is the system: server, network and HTTP provider (external),
the owner task, one socket generation, the store and a host that calls `close`.
`pc` names the owner task's control points:

| `pc` | code |
|---|---|
| `start` | head of the loop of `engine::run` |
| `token`, `connect` | awaits in `load_access_token` and `connect_socket` |
| `ready`, `hello`, `recv` | `socket::run`: wait for `connection.ready`, send `sync.hello`, main loop |
| `apply` | a frame handler applying accepted events one by one |
| `snapshot` | await of `provider.snapshot` in `replace_snapshot_and_hello` |
| `clear` | `clear_socket_state` after the generation ended |
| `retry`, `backoff` | before and at the await of `wait_for_retry` |
| `exit`, `done` | after the loop |

The state is abstracted to the set of events it reflects (`store.content`). Events
are `known` (projected), `refused` (unknown type, visibility transition or
malformed payload: the projection fails and the client resyncs) or `hidden`
(never sent to this recipient). `stopSig` is the watch channel: a signal reaches
the task only while a receiver is subscribed, and a new subscription sees only
later signals. A snapshot response is taken at one moment and installed at a
later one.

The server answers each `sync.hello` in order: replay batches of the missing
events, then `sync.complete`, and live events from the high-water of the handoff
on. The code under `src/` does not fix two points of this protocol, and the model
keeps both as constants: `LiveDuringReplay` (may a live event be sent before the
last replay batch) and `CompleteCoversLive` (does the cursor of `sync.complete`
include live events already sent, or is it the replay high-water, as `frame.rs:27`
documents it).

`StateFeed` is the abstract specification: the host's view is a prefix of the
history that only grows. `ControlConnection` is shown to implement it with
`history <- log, view <- store.content`.

### Commands

The calls of `send_command` and the part of the engine that serves them. A call
reads the status, reserves its waiter, clones the outbound sender, queues its
frame and waits; each is a step, because the socket can end, be cleared and be
opened again between them. `Ends` is the `PendingCommandGuard`: every way out of a
call removes its waiter, a dropped future (`Cancel`) too. `ClearOutbound`,
`DrainPending` and `Announce` are `clear_socket_state` and the event that follows
it. The sync protocol only moves `status` here.

### StateStore, Projection

`Projection` gives each event type of `projection.rs` its rule on a state of
groups, channels, members, users, roles and this user's voice authority; records
carry a key, what they refer to and a version. `StateStore` is the store with its
event channels, one per snapshot generation, and its receivers. The channel swap
and the generation marker are two steps; a receiver reads the marker, subscribes,
receives and compares the marker again in steps of their own. The server is
external and changes its own state by its own rules, which is the reference that
`MatchesServer` compares the projection with.

One assumption about the server is visible in `DropGroup`: when `group.deleted`
is sent, nobody is in a channel of that group any more. `group.deleted` removes the
group's channels and not their members (`projection.rs:79-85`), which is right
only then; `channel.deleted` does remove them.

### VoiceSession, ReplayWindow

`VoiceSession` has one action per step between awaits of the worker
(`worker.rs`), of `start`, of `request_termination`, of `send` and of `recv`
(`session.rs`). Reading the status, publishing `Disconnecting` and signalling
are three steps, because other tasks run between them. `wire` is the history of
packets written to the socket. `MaxSequence` stands for `u64::MAX` and
`ChannelModulus` for 2^16, so that exhaustion and wrap-around happen.

`ReplayWindow` translates `replay.rs` bit by bit: a word is the set of its one
bits, its width is `W` (64 in the code), and `seen` is the history of sequences
recorded.

### VoicePath

From the join answer to packets and back. `ValidateMetadata` and
`ValidateVoiceJoin` are the checks of the HTTP crate, `ValidConfig` those of the
voice crate, with the protocol's own sizes. A datagram keeps what its fields say
and what its seal was computed over; opening compares the two, which is what
AES-GCM with the header as associated data does. The network keeps every datagram
ever sent and may deliver it any number of times, to any later session, and
damaged. `Inbound` is `handle_inbound`; the module extends `ReplayWindow`, whose step
`Record` it takes for each packet that decodes. `cache` is the `SessionKeyCache`; `dropped` remembers the sessions whose
start was dropped by the host.

### CredentialRefresh

One process per call of `refresh_access`, with the flight it may lead named after
it; beside them a `login` and a `logout`. `gate` is `refresh_gate`, `holder` the
owner of `credential_gate` across a store write, `result`, `cancelled` and
`heard` the parts of a flight. A `Notified` future registers when it is created,
which is what `Register` does. A leader can be dropped at any of its awaits: before
its guard is disarmed the guard marks the flight and wakes the waiters, afterwards
nothing does. The server rotates pairs and refuses a pair it has rotated.

### ApiCalls, ServerCard

`ApiCalls` has one record per endpoint method of the resource files: does it
write, does it carry an idempotency key, is it authorized, how is its answer
decoded, which options it requires and what it does with the credentials once its
request has succeeded: a login stores the new pair and a logout clears the active
one (`StoreTokens`), which may fail when the server has long applied the request. A
logout that finds no credentials returns `Ok` and sends nothing. A host task calls an endpoint and, when the
outcome is unknown, may call again with the same options. The network loses
requests and answers and lets the server serve late; the server remembers the
answer it gave to a key and compares `If-Match` with the version.
`RefreshAccess` is one step with the results that `CredentialRefresh` allows; other
tasks may log in and out at any time (`NewPair`, `PairCleared`). The body of an answer
holds data, an error code, an envelope whose message or data is not as it should be
(`HttpError::Envelope`), or no envelope at all.

`ServerCard` has the text of a card as the record of its URL components. Parsing
strips the brackets of an IPv6 host and `Url::host_str` puts them back; both are
modelled by what they do. A URL leaves out the default port of its scheme (`UrlOf`)
and the checks put it back (`PortOrKnownDefault`). The URLs of the HTTP and the WebSocket client and the
origin checks of both transports are operators beside it.

### Facade

Host tasks on clones of one `Client`, one relay task per control generation, the
handles of voice sessions and the server's binding of this user. `pc` of a task is
the await it is at; `voiceGate`, `controlLock` and `shutdownGate` hold the task
that owns each mutex, and `TeardownFree` is the lock of a handle. A control
connection is its status, id and event queue, which drops its oldest event when it
overflows (the relay lags); what it promises is checked in `ControlConnection`. A session is
whether its worker runs; `VoiceSession` checks the rest. Of that rest one thing
matters here, finding 1: the close of a session that races the end of its worker may
wait for ever, and `join_voice`, `leave_voice`, `shutdown` and the relay await it inside
the voice gate. Wherever one of them closes a session that runs, the model has both
outcomes: the close returns (`Halt`), or the task stays at a point of `Hanging` with the
gate, the tear-down lock and, in a shutdown, the shutdown gate (`GateHangs`,
`StopHangs`, `HandleHangs`). `Resync` may withdraw the
voice authority, which the relay sees as `VoiceLost`. `leftVoice` is the history
that `LeaveIsFinal` needs: a leave has succeeded and no host has asked for voice
since. `OldHandles` adds calls on handles that were replaced.

### MC modules

The `MC` modules instantiate the specifications for TLC: most only extend them,
`MCApiCalls` defines the card texts and `MCVoicePath` the join answers and metadata
to enumerate. The `.cfg` files give the constants.

A definition whose name ends in an underscore and a word, preceded by a comment
`Mutant:`, is a wrong version of the definition that follows it. No
specification uses it: replacing the original by it must make TLC report the
property that `PROJECT.json` names, which shows that the property depends on
that piece of code.

## 3. Runs

| Run | Property | What it shows |
|---|---|---|
| `control` | `NoSkippedEvent`, `LiveBarrier`, `ImplementsFeed` | the projection is always a growing prefix and the resume cursor never skips, over refused events, resyncs, socket loss and reconnects |
| | `HandoffSettles`, `Converges`, `CloseTerminates` | the handoff always comes back to Live or ends Closed, a connection that stays up has every event, and `close` returns from every control point although its signal can be lost |
| `commands` | `TypeOK`, `LossWakes`, `OwnAnswer`, `IdentityFirst`, `CommandsReturn` | no waiter leaks or sits out a lost socket, answers are not mixed up, identity goes before the loss is announced, every call returns |
| `store` | `MatchesServer`, `BoundaryRespected`, `CatchesUp` | projection equals server state; snapshot boundaries are respected by receivers, who end up on the channel in place |
| `replay_window` | `WindowExact` | the bitmap decides freshness exactly |
| `voice` | `WireOrdered`, `SilentAfterStop`, `HostCallsReturn`, `WorkerStops` | sequences on the wire are ordered and within range; nothing is sent after the end; send and recv return; a stop that was signalled stops the worker |
| `voice_path` | `AuthenticOnce`, `WindowHonest`, `NegotiatedMediaFits`, `ChecksAgree`, `KeyDiesWithSession` | authentic media once, an honest window, payloads that fit, checks that agree, keys that go with their session |
| `refresh` | `LoginWins`, `DurableFirst`, `NoRefusedRefresh`, `NoSpuriousExpiry`, `WaitersReturn` | singleflight, concurrent login and logout, cancellation, failing writes, lost answers, no lost wakeup |
| `api_calls` | `AtMostOnce`, `NoLostUpdate`, `HonestOutcome`, `CardKeepsPin`, `OwnUrlsAccepted` | keys, preconditions, outcomes; a card survives its text form with its pin, and the two crates agree on URLs |
| `facade` | `ShutdownIsFinal`, `NoOrphanSession`, `JoinKeepsKey`, `MediaStops`, `CallsReturn` | the life cycle of control and voice under concurrent hosts, reconnects, lost authority and shutdown |
| `voice_close` (violation) | `StopReturns` | finding 1 |
| `refresh_latecancel` (violation) | `AllowsNewFlight` | finding 2 |
| `facade_leave` (violation) | `LeaveIsFinal` | finding 3 |

All systems here may end (a closed connection, an ended session, calls that have
all returned), so deadlock checking is off; that nobody waits for ever is what the
liveness properties say. `Commands` checks its type invariant because it bounds the
waiter table; those of the other modules are proved (section 5) or, for `ApiCalls`,
can be added to the run of the module.

### Bounds

* `control`: `MaxLog = 2` events of each kind, one unsolicited frame
  (`sync.required` or an unknown `state.*`), one fault, one reconnect and a close:
  enough for a replayed event beside a queued live one, with a resync and a
  reconnect between them. `MaxQueuedLive = 1` makes the queue limit reachable. The
  retry counter is never reset, so a larger `MaxAttempts` only repeats generations.
* `commands`: two callers, two commands and two sockets, so that a call begun on one
  socket meets the next; a table of one entry and an outbound queue of one (the code
  has four more places in the queue than in the table; a smaller `Slack` makes a full
  queue reachable).
* `store`: one user, two channels, one group, one role, all sequences of two events
  and up to two replacements, with a channel that keeps one event so that a
  receiver lags. The second replacement lets a receiver be overtaken between its
  reading of the marker and its subscription.
* `replay_window`: `W = 3`, `MaxSequence = 14`: more than two full windows, with every
  shift below, at and above one and two words. The proof covers every width.
* `voice`: `MaxSequence = 4` and `ChannelModulus = 2`: the transport counter runs
  out and the channel counter wraps within a few packets. `QueueCapacity = 1`
  makes the command queue overflow with two senders. Two stoppers race each other,
  with a close and a revocation.
* `voice_path`: answers in both modes with payload limits at and one beyond both
  ceilings (1142 and 1158) and answers and metadata with one defect each; two
  joins, so that a session is created and reused or replaced; a window of one-bit
  words (two sequences) and three sequences per direction, so that packets fall out
  of it.
* `refresh`: a leader and a waiter, with two dropped futures, a lost answer, a login
  and a logout. `refresh_latecancel` needs one of the drops.
* `api_calls`: one intent with three calls (the first, a repetition, a repetition
  after a refresh), which begins with or without credentials, two token pairs and two
  versions. The endpoints that differ in
  what the model can see are all enumerated; the card texts cover both schemes,
  each kind of host, a default and another port, and each kind of error.
* `facade`: two hosts with three calls between them, two control generations and
  two sockets, one channel, and an event queue of one that overflows. Three calls
  are a connect, a join and one of leave, shutdown, close, connect or join that
  races it. `facade_leave` has one host with four calls and a queue of two.

### Fairness

Weak fairness on the tasks (owner task, voice worker, host calls in progress,
relays, receivers, leaders and waiters), because the runtime polls every task that
is woken; on the server's answers and the snapshot provider: the server is assumed
to answer, and not answering (the 10 s and 60 s receive timeouts, a closed socket,
a failed request) is the separate, bounded fault action; and on socket writes,
which complete or fail. `Commands` has strong fairness on `Forward`, a branch of a
`select!` that is polled again each time round the loop and chosen at random among
the ready ones. In `Facade` a connection that was told to stop ends, which is what
`CloseTerminates` shows of it. The close of a UDP session returns there unless it hangs
as finding 1 has it; `CallsReturn` and `MediaStops` hold up to such a hang and say so
(`Hung`), so what they exclude is every other way of waiting for ever. No fairness on events, faults, closes, heartbeats,
revocations, cancellations or new calls. `ObserveStop` has fairness of its own
because the worker's `select!` loops are polled with the stop receiver among their
branches and a pending stop stays pending until it is taken.

## 4. Findings

1. **`voice_close`**: `request_termination` can overwrite the worker's terminal
   status with `Disconnecting`, and `close` then waits for ever. In the SDK
   `join_voice`, `leave_voice`, `shutdown` and the relay await that close while they hold
   the voice gate, so that every later join, leave, shutdown and relay stop waits too.
2. **`refresh_latecancel`**: a leader dropped while it awaits `refresh_gate` at its
   end leaves a finished flight in the gate; later refreshes return its old result
   and no request is sent again.
3. **`facade_leave`**: the automatic rejoin copies the voice intent
   (`voice_api.rs:200`) before `join_voice` waits for the voice gate. A `leave_voice`
   that completes while it waits clears the intent, and the rejoin then joins with
   its copy, although `config.rs:32` says that an explicit leave always clears the
   intent.

Further statements of comments and tests that the model refutes are kept as
definitions without a run of their own. To see one, check it with the constants
given.

| Definition | Constants | What happens |
|---|---|---|
| `ControlConnection.OnlyBrokenServerFails` | those of `control` with `HostCloses = FALSE`, `MaxPushes = 0` | a resync started by the client while `sync.complete` is in flight makes the second `sync.complete` of a well-behaved server an `InvalidPhase`, which ends the connection for good; `socket.rs:241` reserves such errors for "a broken server state machine" |
| `ControlConnection.ResumeNeverSkips` | as before with `LiveDuringReplay = TRUE`, `MaxLog = 3`, `MaxFaults = 2` | a replay batch below a queued live event causes a resync, the `sync.complete` of the abandoned handoff completes the new one before its replay has come, and a reconnect resumes past events the state never had; `sync.rs:183` documents live events before completion as supported |
| `ControlConnection.ResumeNeverSkips` | as before with `CompleteCoversLive = TRUE`, `MaxFaults = 2` | `update_cursor` runs before the queued live events are applied: if the cursor of `sync.complete` covers them, as `tests/connection_integration.rs:325` sends it, a refused event is already behind the stored cursor |
| `Commands.PresenceAfterReplay` | those of `commands` | a call that read `Live` queues its frame on the next socket, before that socket's replay; `connection.rs:185` promises `NotLive` "before replay completion" |
| `StateStore.LossReported` | those of `store` | a receiver subscribes at the end of the fresh channel, and what was sent there before is lost to it without a `Lagged` |
| `StateStore.NeverClosed` | those of `store` | a receiver that finds its channel closed between the swap and the new marker reports `Closed` although the store lives |
| `Facade.MediaFollowsAuthority` | those of `facade` | `connect` after `Closed` advances the generation before the old relay has handled `Closed`; that relay then stops acting (`events.rs:182`), and the session of the closed connection runs until a host closes or replaces it, although `events.rs:130` says that the relay "tears down media when its owner loses authority". `MediaStops` is what holds: such media stops unless a newer connection has taken over or a close hangs |
| `Facade.AuthorizedMediaRuns` | those of `facade_leave` | sessions are matched by control generation, which outlives a socket: a `Disconnected` of one socket, relayed late, stops the session joined on the next |

And one that the passing run `api_calls` states as it is: `OwnUrlsAccepted` excepts
IPv6 hosts. The card keeps the host without brackets (`server_card.rs:262`), the
transports compare it with `Url::host_str`, which has them, so every request to such
a server is refused before it is sent, although `tests/server_card.rs:27` accepts
`::1` as a host.

## 5. Proofs

TLAPS proves the following for every value of the constants allowed by the named
assumptions: any number of hosts, callers, receivers, events, sockets and faults,
any queue limit and any window width. Each module states its inductive invariant
as a conjunction of named parts, with one lemma per action (or group of actions)
that preserves it. `PROJECT.json` lists the theorems.

* `ControlConnectionProofs`. `TypeCorrect` and `PublicationBarrier`
  (`Spec => []LiveBarrier`) hold for both server policies. `LiveBarrier`
  alone is not inductive: what the machine has accepted and what the store has
  applied differ while a handler runs. `BarrierInv` adds, for each control
  point, how they are related: `Settled` (outside a generation nothing is
  pending), `Fresh` (after connect or a snapshot both agree), `AtRecv` (between
  frames the store plus the machine's queue ends at the machine's GEID) and
  `AtApply` (in a handler, the store plus the events still to apply, and the queue,
  does).

  `NothingSkipped` (`[]NoSkippedEvent`), `ResumesInPlace` (`[]ResumeNeverSkips`)
  and `ConnectionImplementsFeed` (the refinement of `StateFeed`) are proved for an
  `OrderedServer`: replay before live events, and a `sync.complete` whose cursor is
  the replay high-water. Both halves are needed; section 4 has the runs in which TLC
  refutes `ResumeNeverSkips` without one of them. The invariant is about the frames in
  flight. `Content`: the projection is the prefix up to its GEID. `Piped`: accepted
  events continue it without a gap. `Hellos`: a hello resumes where the
  projection is, up to hidden events. `Wire`: an event that the
  projection lacks, or the machine has not accepted, is carried by a frame before the
  one that would move the client past it, or the server has yet to send it. `Positions` and `Sockets` bound the
  counters and say that nothing of a socket outlives its generation.
* `StateStoreProofs`: `ProjectionMatchesServer` (`[]MatchesServer`), `BoundaryKept`
  (the action property `BoundaryRespected`) and `TypeCorrect`. The first rests on
  `History` (every state of the server has one record per key, and each event is
  what the server did from one state to the next) and on a lemma per event type:
  the projection's rule, applied to a state, is the server's. The second needs
  `Markers` (the channel is at most one swap ahead of its marker), `Ordered` (channels
  and their events are numbered upwards), `Reading` (what a receiver holds at each
  of its awaits) and `Forward` (what it has not delivered is above what it has).
* `CommandsProofs`: `TablesBounded` (`[]TypeOK`, with the bound on waiters),
  `LossAlwaysWakes`, `AnswersCorrelated`, `IdentityWithdrawnFirst`. `OwnIds` and
  `Waiters` tie a waiter in the table to the one call that reserved it, `Sending`
  says which frames and results a request can have at each stage, `Sockets` what is
  published of a socket while it is opened, running and cleared.
* `VoiceSessionProofs`: `TypeCorrect`, `WireAlwaysOrdered`, `SilenceAfterStop`.
  `Numbering` says that a number being written is above those on the wire, unless a
  stop is about to cancel the write; `Channels` that the channel counter is the
  successor of the last media packet; `Terminal` that a terminal status is the last
  thing the worker publishes.
* `VoicePathProofs` begins with the replay window, as the specification of its own that
  the run `replay_window` checks: `WindowTyped` and `WindowIsExact`
  (`WindowSpec => []WindowExact`). The invariant is `BitsExact`: bit
  `o % W` of word `o \div W` is set exactly when sequence `high - o` has been
  recorded, and nothing recorded is above `high`. The lemmas show that the three
  cases of a shift and the late mark keep it. On top of it, for `VoicePath`:
  `TypeCorrect`, `DeliveredOnceAuthentic`, `WindowMovedByServerOnly`,
  `NegotiationSound`, `ConfigurationNeverRefuses`, `KeysDieWithSessions`.
  `Wire` says what a seal in the network was computed over, `Recorded` that what
  was delivered is in the window's history, `Sessions` what codec and key a session has.
* `FacadeProofs`: `TypeCorrect`, `ShutdownFinal` (`[]ShutdownIsFinal`),
  `SessionsReachable` (`[]NoOrphanSession`) and `KeyKept` (the action property
  `JoinKeepsKey`), with and without rejoin and old handles. None of them is inductive:
  each depends on who is where when shutdown or a relay cuts in. `Mutexes` says that the
  holder of each async mutex is exactly the task that stands at one of its awaits, and
  `Holders` what that task knows there: inside the voice gate, which handle it is about to
  install or to close (or, if its close hangs, has closed), that a session the server has just created is of no other handle,
  and that its key is cached as long as it runs; under the control lock, that no
  connection is installed when one is made; in a shutdown, that the client is stopped.
  `Outside` keeps the facts that survive without a mutex (a leave at the server, a relay
  not yet spawned). `Reached` is `NoOrphanSession`. `Discarded`: a connection that is no
  longer in its slot is closed, or shutdown is waiting for it. `Down`: once shutdown
  has stopped voice, a task that gets the gate later fails before it has a connection, so
  that aborting the relays strands no session. `Gone`: what shutdown took away stays away.
  `KeyKept` adds that a task between the installation and the end of its join
  is moved by nobody else.
* `CredentialRefreshProofs`: `LoginAlwaysWins` needs `WriterHoldsGate`: an agent
  between its comparison and its last write holds `credential_gate`, so the active pair
  cannot change under it. `StoreAlwaysFirst` rests on `Durable` (store and active pair differ only while some agent is
  between its two writes, or was dropped there), `ExpiryNeverSpurious` on `Expiry` (a flight
  publishes an expiry only after its request was refused), `SessionNeverRefused` on
  `Sound`: while nothing was cancelled, lost or revoked, the active pair is the
  server's current one or its successor is on the way to being installed.
* `ApiCallsProofs`: `KeyedAtMostOnce`, `UpdatesNeverLost`, `OutcomesHonest`,
  `PinsSurvive`, `UrlsAgree`. `Requests` and `Memory` relate the requests in flight and
  the server's memory of keys to the call that sent them; `Outcomes` relates what
  the call reports to what the server did, and to what it was about to do to the
  credentials (a call that stores or clears a pair was applied, one that returned `ok`
  without being applied is a logout that has sent nothing); `Parsed` traces a usable card to its text.

Assumptions: the bounds are naturals, flags are Booleans, `W` is positive, there is a
group, the names of login, logout and "no flight" are not callers, and no host task is
named by a connection number or 0 (those name the relays and "nobody"). They are
evaluated by TLC in every run.

## 6. Only model-checked

Liveness (`HandoffSettles`, `Converges`, `CloseTerminates`, `CommandsReturn`,
`CatchesUp`, `HostCallsReturn`, `WorkerStops`, `WaitersReturn`, `MediaStops`,
`CallsReturn`): liveness under fairness and `ENABLED` are out of the prover's
reach. `ApiCalls` has a type invariant that its proofs do not need. What a recursive definition computes for every input and `RECURSIVE`
operators are out of reach too; the modules use neither.

## 7. Plan

Done: all modules of section 2 and the proofs of section 5, which cover every safety
property that a run checks. Left: the type invariant of `ApiCalls` as a theorem, and
a refinement of `Facade` by an abstract session registry, so that what a host sees of
join, leave and shutdown is stated without the mutexes.

## 8. Not modelled

* Time: backoff, jitter, deadlines and timeouts are choices; how long they take is
  not a property.
* Control frames without effect on state (ping, unknown non-`state.*` types).
* The stream epoch changing under a client, and the first load of the credential
  store: the models start with both established.
* JSON, TLS and certificate checks, socket I/O, the cipher itself, the formatting
  of errors, identifier newtypes and serialization: no behaviour over time, or pure
  I/O. What the properties need of them (a seal that opens only unchanged, a pin that
  is present, an answer that decodes or does not) is in the modules.
* In the HTTP crate, the field by field mapping of each resource, and pagination
  cursors, which are handed through unchanged. In the facade, read-only accessors,
  builders and error conversion.
* Host futures dropped in `Facade`. A `join_voice` dropped while it awaits the voice
  slot or the close of the previous session (`zephyrvox-sdk/src/voice_api.rs:134-136`)
  leaves a running worker that nobody closes, because dropping a handle does not stop
  it. `NoOrphanSession` and `ShutdownIsFinal` are therefore statements about hosts that
  let their calls finish. Relays, which `shutdown` aborts, are dropped in the model;
  `Commands`, `CredentialRefresh` and `VoicePath` (a dropped start) have dropped futures of
  hosts.
* Metadata is cached for the life of a client (`zephyrvox-sdk/src/client.rs:121`), the
  pin failure of one request may be reported by another one that fails at the same
  time (`zephyrvox-http/src/transport.rs:129`), and `logout` clears whatever pair is
  active after its request (`auth.rs:235`): known, documented nowhere as promises, and
  without a property.
* The test kit.
