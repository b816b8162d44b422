-------------------------- MODULE CredentialRefresh --------------------------
(***************************************************************************)
(* The credentials of an ApiClient (client.rs) and the refresh             *)
(* singleflight over them (client/refresh.rs), with a login and a logout   *)
(* (auth.rs) beside the refreshes.  The server and the credential store    *)
(* are external.                                                           *)
(*                                                                         *)
(* A token pair is a number, in the order the server issued them; None is  *)
(* no pair.  Each caller makes one call of refresh_access, so the flight   *)
(* it may lead is named after it.  A future can be dropped at any await.   *)
(***************************************************************************)
EXTENDS Naturals, FiniteSets

CONSTANTS
    Callers,       \* tasks that call refresh_access
    MaxCancels,    \* bound on dropped futures
    MaxLost,       \* bound on refresh requests that end in a transport error
    LoggingOut     \* whether a host task logs out

Login == "login"
Logout == "logout"
NoFlight == "none"

ASSUME CallersAssumption ==
    /\ MaxCancels \in Nat /\ MaxLost \in Nat
    /\ LoggingOut \in BOOLEAN
    /\ {Login, Logout, NoFlight} \cap Callers = {}

Agents == Callers \cup {Login, Logout}

None == 0

VARIABLES
    \* server and store (external)
    issued,     \* number of pairs issued
    valid,      \* pairs whose refresh token the server accepts
    revoked,    \* whether the server has accepted a logout
    request,    \* per agent: "no", "sent", "answered"
    reply,      \* per agent: the answer to its request
    store,      \* the pair in the CredentialStore
    cancels, lost,
    \* ApiClient
    active,     \* token_state
    gate,       \* refresh_gate
    holder,     \* who holds credential_gate across a store write
    \* flights: result, notification and cancellation
    result, cancelled,
    \* tasks
    pc, joined, heard, used, outcome

serverVars == <<issued, valid, revoked, request, reply, store, cancels, lost>>
flightVars == <<gate, result, cancelled>>
taskVars == <<pc, joined, heard, used, outcome>>
vars == <<serverVars, active, holder, flightVars, taskVars>>

\* Answers: a pair, or why there is none.  Results carry an error name beside
\* the pair so that the two are of one type.
Ok(pair) == [pair |-> pair, error |-> "no"]
Err(error) == [pair |-> None, error |-> error]
Pending == Err("pending")

\* load_credentials with the store already loaded by an earlier request.
Init ==
    /\ issued = 1 /\ valid = {1} /\ revoked = FALSE
    /\ request = [a \in Agents |-> "no"] /\ reply = [a \in Agents |-> Pending]
    /\ store = 1 /\ active = 1 /\ cancels = 0 /\ lost = 0
    /\ gate = NoFlight /\ holder = NoFlight
    /\ result = [c \in Callers |-> Pending]
    /\ cancelled = [c \in Callers |-> FALSE]
    /\ pc = [a \in Agents |-> "idle"]
    /\ joined = [c \in Callers |-> NoFlight]
    /\ heard = [c \in Callers |-> FALSE]
    /\ used = [a \in Agents |-> None]
    /\ outcome = [a \in Agents |-> Pending]

At(a, point) == pc[a] = point
Goto(a, point) == pc' = [pc EXCEPT ![a] = point]

------------------------------------------------------------------------------
(***************************************************************************)
(* The server.  A request that was sent is processed even when its caller  *)
(* is gone.  A refresh rotates the pair; a second use of it is refused.    *)
(***************************************************************************)

Answer(a, r) ==
    /\ request' = [request EXCEPT ![a] = "answered"]
    /\ reply' = [reply EXCEPT ![a] = r]

ServerRefresh(c) ==
    /\ request[c] = "sent"
    /\ IF used[c] \in valid
         THEN /\ issued' = issued + 1
              /\ valid' = (valid \ {used[c]}) \cup {issued + 1}
              /\ Answer(c, Ok(issued + 1))
         ELSE /\ Answer(c, Err("unauthorized"))
              /\ UNCHANGED <<issued, valid>>
    /\ UNCHANGED <<revoked, store, cancels, lost, active, holder, flightVars,
                   taskVars>>

ServerLogin ==
    /\ request[Login] = "sent"
    /\ issued' = issued + 1 /\ valid' = valid \cup {issued + 1}
    /\ Answer(Login, Ok(issued + 1))
    /\ UNCHANGED <<revoked, store, cancels, lost, active, holder, flightVars,
                   taskVars>>

\* A logout revokes the pair it presents; one that was rotated is refused.
ServerLogout ==
    /\ request[Logout] = "sent"
    /\ valid' = valid \ {used[Logout]} /\ revoked' = TRUE
    /\ Answer(Logout, IF used[Logout] \in valid THEN Ok(None)
                      ELSE Err("unauthorized"))
    /\ UNCHANGED <<issued, store, cancels, lost, active, holder, flightVars,
                   taskVars>>

\* A refresh ends in a transport or decoding error, before or after the server
\* processed it.
LoseAnswer(c) ==
    /\ At(c, "sent") /\ lost < MaxLost
    /\ lost' = lost + 1
    /\ Answer(c, Err("transport"))
    /\ UNCHANGED <<issued, valid, revoked, store, cancels, active, holder,
                   flightVars, taskVars>>

------------------------------------------------------------------------------
(***************************************************************************)
(* refresh_access: the leader.                                             *)
(***************************************************************************)

\* Mutant: every caller leads a flight of its own.
Enter_NeverJoins(c) ==
    /\ At(c, "idle")
    /\ Goto(c, "load") /\ gate' = c
    /\ UNCHANGED <<serverVars, active, holder, result, cancelled, joined, heard,
                   used, outcome>>

\* The critical section of refresh_gate: lead a new flight, or join one.
Enter(c) ==
    /\ At(c, "idle")
    /\ IF gate # NoFlight /\ ~cancelled[gate]
         THEN Goto(c, "join") /\ joined' = [joined EXCEPT ![c] = gate]
              /\ UNCHANGED gate
         ELSE Goto(c, "load") /\ gate' = c /\ UNCHANGED joined
    /\ UNCHANGED <<serverVars, active, holder, result, cancelled, heard, used,
                   outcome>>

\* refresh_once, logout: load_credentials takes credential_gate for a moment.
Load(a) ==
    /\ At(a, "load") /\ holder = NoFlight
    /\ used' = [used EXCEPT ![a] = active]
    /\ IF active = None
         THEN /\ outcome' = [outcome EXCEPT ![a] =
                               IF a = Logout THEN Ok(None)
                               ELSE Err("AuthenticationRequired")]
              /\ Goto(a, "settled") /\ UNCHANGED request
         ELSE /\ request' = [request EXCEPT ![a] = "sent"]
              /\ Goto(a, "sent") /\ UNCHANGED outcome
    /\ UNCHANGED <<issued, valid, revoked, reply, store, cancels, lost, active,
                   holder, flightVars, joined, heard>>

Settle(a, r) ==
    /\ outcome' = [outcome EXCEPT ![a] = r]
    /\ Goto(a, "settled") /\ UNCHANGED holder

\* Mutant: the outcome is written whatever pair is active by then.
Decide_Unconditional(c) ==
    /\ At(c, "sent") /\ request[c] = "answered" /\ holder = NoFlight
    /\ IF reply[c].error = "transport"
         THEN Settle(c, reply[c])
         ELSE Goto(c, "write") /\ holder' = c /\ UNCHANGED outcome
    /\ UNCHANGED <<serverVars, active, flightVars, joined, heard, used>>

\* replace_if_current, expire_if_current and superseded_or_error: under
\* credential_gate, compare the active pair with the one that was sent.
Decide(c) ==
    /\ At(c, "sent") /\ request[c] = "answered" /\ holder = NoFlight
    /\ LET r == reply[c]
       IN  IF active # used[c]
             THEN Settle(c, IF active # None THEN Ok(active)
                            ELSE IF r.error = "no" THEN Err("AuthenticationRequired")
                            ELSE IF r.error = "unauthorized" THEN Err("AuthExpired")
                            ELSE r)
             ELSE IF r.error = "transport" THEN Settle(c, r)
             ELSE Goto(c, "write") /\ holder' = c /\ UNCHANGED outcome
    /\ UNCHANGED <<serverVars, active, flightVars, joined, heard, used>>

\* Mutant: the pair becomes active before the store has it.
WriteStore_ActiveFirst(a) ==
    /\ At(a, "write")
    /\ active' = reply[a].pair
    /\ Goto(a, "written")
    /\ UNCHANGED <<serverVars, holder, flightVars, joined, heard, used, outcome>>

\* The store write of save or clear takes effect.
WriteStore(a) ==
    /\ At(a, "write")
    /\ store' = reply[a].pair
    /\ Goto(a, "written")
    /\ UNCHANGED <<issued, valid, revoked, request, reply, cancels, lost,
                   active, holder, flightVars, joined, heard, used, outcome>>

\* Then the pair becomes the active one, and credential_gate is released.
WriteActive(a) ==
    /\ At(a, "written") /\ holder = a
    /\ active' = reply[a].pair /\ holder' = NoFlight
    /\ outcome' = [outcome EXCEPT ![a] =
                     IF reply[a].error = "unauthorized" THEN Err("AuthExpired")
                     ELSE reply[a]]
    /\ Goto(a, "settled")
    /\ UNCHANGED <<serverVars, flightVars, joined, heard, used>>

\* The store refuses the write: nothing changes but the outcome.
WriteFails(a) ==
    /\ At(a, "write") /\ lost < MaxLost
    /\ lost' = lost + 1
    /\ outcome' = [outcome EXCEPT ![a] = Err("Credential")]
    /\ Goto(a, "settled") /\ holder' = NoFlight
    /\ UNCHANGED <<issued, valid, revoked, request, reply, store, cancels,
                   active, flightVars, joined, heard, used>>

\* Mutant: the waiters are notified although no result was stored.
PublishResult_Forgotten(c) ==
    /\ At(c, "settled") /\ Goto(c, "notify")
    /\ UNCHANGED <<serverVars, active, holder, flightVars, joined, heard, used,
                   outcome>>

PublishResult(c) ==
    /\ At(c, "settled")
    /\ result' = [result EXCEPT ![c] = outcome[c]]
    /\ Goto(c, "notify")
    /\ UNCHANGED <<serverVars, active, holder, gate, cancelled, joined, heard,
                   used, outcome>>

\* notify_waiters reaches every Notified future that exists.
Notify(f) ==
    heard' = [c \in Callers |->
                heard[c] \/ (joined[c] = f /\ pc[c] \in {"registered", "checked", "waiting"})]

NotifyWaiters(c) ==
    /\ At(c, "notify") /\ Notify(c) /\ Goto(c, "release")
    /\ UNCHANGED <<serverVars, active, holder, flightVars, joined, used, outcome>>

\* The leader clears the gate, if it still holds its flight, and returns.
Release(c) ==
    /\ At(c, "release")
    /\ gate' = IF gate = c THEN NoFlight ELSE gate
    /\ Goto(c, "done")
    /\ UNCHANGED <<serverVars, active, holder, result, cancelled, joined, heard,
                   used, outcome>>

------------------------------------------------------------------------------
(***************************************************************************)
(* refresh_access: a waiter.  The Notified future is created first.        *)
(***************************************************************************)

Return(c, r) == outcome' = [outcome EXCEPT ![c] = r] /\ Goto(c, "done")

Register(c) ==
    /\ At(c, "join") /\ Goto(c, "registered")
    /\ UNCHANGED <<serverVars, active, holder, flightVars, joined, heard, used,
                   outcome>>

CheckCancelled(c) ==
    /\ At(c, "registered")
    /\ IF cancelled[joined[c]]
         THEN Return(c, Err("AuthExpired"))
         ELSE Goto(c, "checked") /\ UNCHANGED outcome
    /\ UNCHANGED <<serverVars, active, holder, flightVars, joined, heard, used>>

CheckResult(c) ==
    /\ At(c, "checked")
    /\ IF result[joined[c]] # Pending
         THEN Return(c, result[joined[c]])
         ELSE Goto(c, "waiting") /\ UNCHANGED outcome
    /\ UNCHANGED <<serverVars, active, holder, flightVars, joined, heard, used>>

Wake(c) ==
    /\ At(c, "waiting") /\ heard[c]
    /\ Return(c, IF result[joined[c]] # Pending THEN result[joined[c]]
                 ELSE Err("AuthExpired"))
    /\ UNCHANGED <<serverVars, active, holder, flightVars, joined, heard, used>>

------------------------------------------------------------------------------
(***************************************************************************)
(* Cancellation: the future of a leader is dropped at an await.  The guard *)
(* of an unfinished flight marks it cancelled, then wakes the waiters; a   *)
(* credential_gate it held is released.                                    *)
(***************************************************************************)

CancelLeader(c) ==
    /\ pc[c] \in {"load", "sent", "write", "written", "settled"}
    /\ cancels < MaxCancels
    /\ cancels' = cancels + 1
    /\ cancelled' = [cancelled EXCEPT ![c] = TRUE]
    /\ holder' = IF holder = c THEN NoFlight ELSE holder
    /\ Goto(c, "dropping")
    /\ UNCHANGED <<issued, valid, revoked, request, reply, store, lost, active,
                   gate, result, joined, heard, used, outcome>>

\* Mutant: the dropped leader marks its flight and wakes nobody.
DropNotifies_Silent(c) ==
    /\ At(c, "dropping") /\ Goto(c, "gone")
    /\ UNCHANGED <<serverVars, active, holder, flightVars, joined, heard, used,
                   outcome>>

DropNotifies(c) ==
    /\ At(c, "dropping") /\ Notify(c) /\ Goto(c, "gone")
    /\ UNCHANGED <<serverVars, active, holder, flightVars, joined, used, outcome>>

\* At the last await the guard is already disarmed.
CancelReleasing(c) ==
    /\ At(c, "release") /\ cancels < MaxCancels
    /\ cancels' = cancels + 1
    /\ Goto(c, "gone")
    /\ UNCHANGED <<issued, valid, revoked, request, reply, store, lost, active,
                   holder, flightVars, joined, heard, used, outcome>>

------------------------------------------------------------------------------
(***************************************************************************)
(* login: one request, then set_tokens.  logout: load, one request, then   *)
(* clear_tokens, whatever pair is active by then.                          *)
(***************************************************************************)

BeginLogin ==
    /\ At(Login, "idle") /\ Goto(Login, "sent")
    /\ request' = [request EXCEPT ![Login] = "sent"]
    /\ UNCHANGED <<issued, valid, revoked, reply, store, cancels, lost, active,
                   holder, flightVars, joined, heard, used, outcome>>

BeginLogout ==
    /\ LoggingOut /\ At(Logout, "idle") /\ Goto(Logout, "load")
    /\ UNCHANGED <<serverVars, active, holder, flightVars, joined, heard, used,
                   outcome>>

\* set_tokens or clear_tokens up to the store write: no comparison here.
BeginWrite(a) ==
    /\ a \in {Login, Logout}
    /\ At(a, "sent") /\ request[a] = "answered" /\ holder = NoFlight
    /\ IF reply[a].error = "no"
         THEN holder' = a /\ Goto(a, "write") /\ UNCHANGED outcome
         ELSE Settle(a, reply[a])
    /\ UNCHANGED <<serverVars, active, flightVars, joined, heard, used>>

Leader(c) ==
    \/ Load(c) \/ Decide(c) \/ PublishResult(c) \/ NotifyWaiters(c)
    \/ Release(c) \/ DropNotifies(c)
Waiter(c) == Register(c) \/ CheckCancelled(c) \/ CheckResult(c) \/ Wake(c)
Writer(a) == WriteStore(a) \/ WriteActive(a)

Next ==
    \/ \E c \in Callers :
         \/ Enter(c) \/ Leader(c) \/ Waiter(c)
         \/ ServerRefresh(c) \/ LoseAnswer(c)
         \/ CancelLeader(c) \/ CancelReleasing(c)
    \/ \E a \in Agents : Writer(a) \/ WriteFails(a)
    \/ ServerLogin \/ ServerLogout \/ BeginLogin \/ BeginLogout \/ Load(Logout)
    \/ \E a \in {Login, Logout} : BeginWrite(a)

\* Tasks that can run are polled and the server answers; nothing makes a call,
\* a cancellation or a failure happen.
Fairness ==
    /\ \A c \in Callers :
         WF_vars(Leader(c)) /\ WF_vars(Waiter(c)) /\ WF_vars(ServerRefresh(c))
    /\ \A a \in Agents : WF_vars(Writer(a))
    /\ WF_vars(ServerLogin) /\ WF_vars(ServerLogout)
    /\ WF_vars(Load(Logout))
    /\ \A a \in {Login, Logout} : WF_vars(BeginWrite(a))

Spec == Init /\ [][Next]_vars /\ Fairness

------------------------------------------------------------------------------
(***************************************************************************)
(* Properties.                                                             *)
(***************************************************************************)

Replies == [pair : Nat, error : {"no", "pending", "unauthorized", "transport"}]

\* What refresh_access returns: a refused refresh surfaces as AuthExpired.
Results == [pair : Nat,
            error : {"no", "pending", "transport", "Credential",
                     "AuthenticationRequired", "AuthExpired"}]

\* Pairs in use were issued by the server, and what a flight publishes to its
\* waiters is an outcome refresh_access can return, never the raw refusal of the
\* server.
TypeOK ==
    /\ issued \in Nat /\ valid \in SUBSET (1..issued) /\ revoked \in BOOLEAN
    /\ request \in [Agents -> {"no", "sent", "answered"}]
    /\ reply \in [Agents -> Replies]
    /\ store \in 0..issued /\ active \in 0..issued
    /\ cancels \in 0..MaxCancels /\ lost \in 0..MaxLost
    /\ gate \in Callers \cup {NoFlight} /\ holder \in Agents \cup {NoFlight}
    /\ result \in [Callers -> Results] /\ cancelled \in [Callers -> BOOLEAN]
    /\ pc \in [Agents -> {"idle", "load", "sent", "write", "written", "settled",
                          "notify", "release", "join", "registered", "checked",
                          "waiting", "dropping", "gone", "done"}]
    /\ joined \in [Callers -> Callers \cup {NoFlight}]
    /\ heard \in [Callers -> BOOLEAN]
    /\ used \in [Agents -> Nat] /\ outcome \in [Agents -> Results \cup Replies]

\* A concurrent login wins: while a refresh writes its outcome, be it the
\* rotated pair or the removal of an expired one, the active pair is still the
\* one it sent, so what it replaces is never a newer login.
LoginWins ==
    \A c \in Callers : pc[c] \in {"write", "written"} => active = used[c]

\* The store is written first: when it differs from the active pair it holds
\* the pair that is about to become active, or that a dropped future left
\* there, and never a pair that was replaced.  This is what a client that
\* starts again from the store relies on.
DurableFirst ==
    active # store =>
        \E a \in Agents : /\ pc[a] \in {"written", "dropping", "gone"}
                          /\ store = reply[a].pair

\* The singleflight protects the session: each pair is presented once, so the
\* server refuses no refresh and the credentials are not thrown away, unless a
\* future was dropped, an answer was lost or a host logged out.
NoRefusedRefresh ==
    cancels = 0 /\ lost = 0 /\ ~revoked =>
        \A c \in Callers : reply[c].error # "unauthorized"

\* A waiter hears AuthExpired only if the flight it joined was refused or its
\* leader was cancelled, never because it looked between two steps of the
\* leader.
NoSpuriousExpiry ==
    \A c \in Callers :
        joined[c] # NoFlight /\ pc[c] = "done" =>
            outcome[c] = result[joined[c]] \/ cancelled[joined[c]]

\* A leader that is gone leaves a gate that lets the next caller start a new
\* flight: the flight is removed, or marked cancelled.
AllowsNewFlight ==
    gate # NoFlight => cancelled[gate] \/ pc[gate] \notin {"done", "gone"}

\* No wakeup is lost: a caller that joined a flight returns, wherever it was
\* when the leader finished or was dropped.
WaitersReturn == \A c \in Callers : joined[c] # NoFlight ~> pc[c] = "done"

==============================================================================
