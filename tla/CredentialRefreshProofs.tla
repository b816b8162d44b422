----------------------- MODULE CredentialRefreshProofs -----------------------
(***************************************************************************)
(* The credentials and the refresh singleflight, for any number of         *)
(* callers, cancellations and failures: a concurrent login wins over every *)
(* refresh, the store is written first, an undisturbed session is never    *)
(* refused, and a waiter hears of an expiry only if there was one.         *)
(***************************************************************************)
EXTENDS CredentialRefresh, TLAPS

------------------------------------------------------------------------------
(***************************************************************************)
(* A concurrent login wins.                                                *)
(***************************************************************************)

\* Control points and pairs sent are kept per agent.
Tables ==
    /\ pc = [a \in Agents |-> pc[a]]
    /\ used = [a \in Agents |-> used[a]]

\* Whoever is between the comparison and the end of its write holds
\* credential_gate.
WriterHoldsGate == \A a \in Agents : pc[a] \in {"write", "written"} => holder = a

IndInv == Tables /\ WriterHoldsGate /\ LoginWins

\* The names of the gate's states are not agents.
LEMMA Names ==
    /\ Callers \subseteq Agents /\ Login \in Agents /\ Logout \in Agents
    /\ Login \notin Callers /\ Logout \notin Callers
    /\ NoFlight \notin Agents
BY CallersAssumption DEF CallersAssumption, Agents, Login, Logout, NoFlight

\* A step that moves one agent to a point outside its write, and changes
\* neither the gate nor the active pair.
LEMMA MoveOutside ==
    ASSUME IndInv, NEW a \in Agents, NEW point,
           point \notin {"write", "written"},
           pc' = [pc EXCEPT ![a] = point],
           UNCHANGED <<active, holder, used>>
    PROVE  IndInv'
BY Names DEF IndInv, Tables, WriterHoldsGate, LoginWins

\* The comparison succeeds and the gate is taken.
LEMMA TakeGate ==
    ASSUME IndInv, NEW a \in Agents, holder = NoFlight, holder' = a,
           a \in Callers => active = used[a],
           pc' = [pc EXCEPT ![a] = "write"],
           UNCHANGED <<active, used>>
    PROVE  IndInv'
BY Names DEF IndInv, Tables, WriterHoldsGate, LoginWins

\* The holder leaves its write and gives the gate back, having written or not.
LEMMA GiveGate ==
    ASSUME IndInv, NEW a \in Agents, NEW point, holder = a, holder' = NoFlight,
           point \notin {"write", "written"},
           pc' = [pc EXCEPT ![a] = point],
           UNCHANGED used
    PROVE  IndInv'
BY Names DEF IndInv, Tables, WriterHoldsGate, LoginWins

\* Every step keeps the writer in possession of the credential gate.
LEMMA Step ==
    ASSUME IndInv, [Next]_vars
    PROVE  IndInv'
<1> USE Names
<1>1. ASSUME NEW c \in Callers, Enter(c) PROVE IndInv'
  BY <1>1, MoveOutside DEF Enter, Goto
<1>2. ASSUME NEW a \in Agents, Load(a) PROVE IndInv'
  <2>1. PICK point \in {"settled", "sent"} : pc' = [pc EXCEPT ![a] = point]
    BY <1>2 DEF Load, Goto
  <2>2. /\ holder = NoFlight /\ UNCHANGED <<active, holder>>
        /\ used' = [used EXCEPT ![a] = active]
    BY <1>2 DEF Load
  <2>3. QED
    BY <2>1, <2>2 DEF IndInv, Tables, WriterHoldsGate, LoginWins
<1>3. ASSUME NEW c \in Callers, Decide(c) PROVE IndInv'
  <2>1. CASE active # used[c]
    BY <1>3, <2>1, MoveOutside DEF Decide, Settle, Goto
  <2>2. CASE active = used[c] /\ reply[c].error = "transport"
    BY <1>3, <2>2, MoveOutside DEF Decide, Settle, Goto
  <2>3. CASE active = used[c] /\ reply[c].error # "transport"
    BY <1>3, <2>3, TakeGate DEF Decide, Goto
  <2>4. QED
    BY <2>1, <2>2, <2>3
<1>4. ASSUME NEW a \in Agents, WriteStore(a) PROVE IndInv'
  BY <1>4 DEF WriteStore, At, Goto, IndInv, Tables, WriterHoldsGate, LoginWins
<1>5. ASSUME NEW a \in Agents, WriteActive(a) PROVE IndInv'
  BY <1>5, GiveGate DEF WriteActive, Goto
<1>6. ASSUME NEW a \in Agents, WriteFails(a) PROVE IndInv'
  <2>1. holder = a
    BY <1>6 DEF WriteFails, At, IndInv, WriterHoldsGate
  <2>2. QED
    BY <1>6, <2>1, GiveGate DEF WriteFails, Goto
<1>7. ASSUME NEW c \in Callers, PublishResult(c) PROVE IndInv'
  BY <1>7, MoveOutside DEF PublishResult, Goto
<1>8. ASSUME NEW c \in Callers, NotifyWaiters(c) PROVE IndInv'
  BY <1>8, MoveOutside DEF NotifyWaiters, Goto
<1>9. ASSUME NEW c \in Callers, Release(c) PROVE IndInv'
  BY <1>9, MoveOutside DEF Release, Goto
<1>10. ASSUME NEW c \in Callers, DropNotifies(c) PROVE IndInv'
  BY <1>10, MoveOutside DEF DropNotifies, Goto
<1>11. ASSUME NEW c \in Callers, Waiter(c) PROVE IndInv'
  <2>1. PICK point \in {"registered", "checked", "waiting", "done"} :
           pc' = [pc EXCEPT ![c] = point]
    BY <1>11 DEF Waiter, Register, CheckCancelled, CheckResult, Wake, Return, Goto
  <2>2. UNCHANGED <<active, holder, used>>
    BY <1>11 DEF Waiter, Register, CheckCancelled, CheckResult, Wake
  <2>3. QED
    BY <2>1, <2>2, MoveOutside
<1>12. ASSUME NEW c \in Callers, CancelLeader(c) PROVE IndInv'
  <2>1. CASE holder = c
    BY <1>12, <2>1, GiveGate DEF CancelLeader, Goto
  <2>2. CASE holder # c
    BY <1>12, <2>2, MoveOutside DEF CancelLeader, Goto
  <2>3. QED
    BY <2>1, <2>2
<1>13. ASSUME NEW c \in Callers, CancelReleasing(c) PROVE IndInv'
  BY <1>13, MoveOutside DEF CancelReleasing, Goto
<1>14. CASE BeginLogin
  BY <1>14, MoveOutside DEF BeginLogin, Goto
<1>15. CASE BeginLogout
  BY <1>15, MoveOutside DEF BeginLogout, Goto
<1>16. ASSUME NEW a \in {Login, Logout}, BeginWrite(a) PROVE IndInv'
  <2>1. CASE reply[a].error = "no"
    BY <1>16, <2>1, TakeGate DEF BeginWrite, Goto
  <2>2. CASE reply[a].error # "no"
    BY <1>16, <2>2, MoveOutside DEF BeginWrite, Settle, Goto
  <2>3. QED
    BY <2>1, <2>2
<1>17. ASSUME UNCHANGED <<pc, active, holder, used>> PROVE IndInv'
  BY <1>17 DEF IndInv, Tables, WriterHoldsGate, LoginWins
<1>18. ASSUME NEW c \in Callers, ServerRefresh(c) \/ LoseAnswer(c) PROVE IndInv'
  BY <1>17, <1>18 DEF ServerRefresh, LoseAnswer, taskVars
<1>19. CASE ServerLogin \/ ServerLogout
  BY <1>17, <1>19 DEF ServerLogin, ServerLogout, taskVars
<1>20. CASE UNCHANGED vars
  BY <1>17, <1>20 DEF vars, taskVars
<1>21. QED
  BY <1>1, <1>2, <1>3, <1>4, <1>5, <1>6, <1>7, <1>8, <1>9, <1>10, <1>11, <1>12,
     <1>13, <1>14, <1>15, <1>16, <1>18, <1>19, <1>20
     DEF Next, Leader, Writer

\* Between the comparison of a refresh with the active pair and the end of its
\* write no login can slip in: replace_if_current and expire_if_current never
\* overwrite or clear a pair other than the one the refresh has sent.
THEOREM LoginAlwaysWins == Spec => []LoginWins
<1>1. Init => IndInv
  BY Names DEF Init, IndInv, Tables, WriterHoldsGate, LoginWins
<1>2. IndInv /\ [Next]_vars => IndInv'
  BY Step
<1>3. IndInv => LoginWins
  BY DEF IndInv
<1>4. QED
  BY <1>1, <1>2, <1>3, PTL DEF Spec

------------------------------------------------------------------------------
(***************************************************************************)
(* Types.                                                                  *)
(***************************************************************************)

\* Pairs that are presented or answered were issued; an answered request has an
\* answer, a write is the write of one, a flight that settled has an outcome to
\* publish, and a waiter waits for a flight.
Answers ==
    /\ \A a \in Agents : used[a] <= issued /\ reply[a].pair <= issued
    /\ \A a \in Agents : request[a] = "answered" => reply[a].error # "pending"
    /\ \A a \in Agents : pc[a] \in {"write", "written"} => request[a] = "answered"
    /\ \A c \in Callers : pc[c] = "settled" => outcome[c] \in Results \ {Pending}
    /\ \A c \in Callers :
         pc[c] \in {"join", "registered", "checked", "waiting"} => joined[c] \in Callers

TypeInv == TypeOK /\ Answers

\* The server answers, with a pair it issues now or with none.
LEMMA AnswerTyped ==
    ASSUME TypeInv, NEW a \in Agents, NEW r \in Replies, Answer(a, r),
           r.error # "pending",
           issued' \in {issued, issued + 1}, r.pair \in 0..issued',
           valid' \subseteq 1..issued', revoked' \in BOOLEAN,
           lost' \in 0..MaxLost,
           UNCHANGED <<store, cancels, active, holder, flightVars, taskVars>>
    PROVE  TypeInv'
<1>1. UNCHANGED <<gate, result, cancelled, pc, joined, heard, used, outcome>>
  BY DEF flightVars, taskVars
<1>2. /\ issued' \in Nat /\ issued <= issued'
      /\ request' \in [Agents -> {"no", "sent", "answered"}]
      /\ reply' \in [Agents -> Replies]
      /\ store \in 0..issued' /\ active \in 0..issued'
  BY DEF TypeInv, TypeOK, Answer
<1>3. TypeOK'
  BY <1>1, <1>2 DEF TypeInv, TypeOK
<1>4. \A b \in Agents : used'[b] <= issued' /\ reply'[b].pair <= issued'
  <2>1. \A b \in Agents : used[b] \in Nat /\ reply[b].pair \in Nat
    BY DEF TypeInv, TypeOK, Replies
  <2>2. \A b \in Agents : used[b] <= issued' /\ reply[b].pair <= issued'
    BY <1>2, <2>1 DEF TypeInv, TypeOK, Answers
  <2>3. r.pair <= issued'
    BY <1>2
  <2>4. QED
    BY <1>1, <2>2, <2>3 DEF Answer, TypeInv, TypeOK
<1>5. Answers'
  BY <1>1, <1>4 DEF TypeInv, TypeOK, Answers, Answer
<1>6. QED
  BY <1>3, <1>5 DEF TypeInv

\* An agent settles its request, or returns.
LEMMA OutcomeTyped ==
    ASSUME TypeInv, NEW a \in Agents, NEW r \in Results \cup Replies,
           NEW point \in {"settled", "done"},
           a \in Callers /\ point = "settled" => r \in Results \ {Pending},
           Goto(a, point), outcome' = [outcome EXCEPT ![a] = r],
           used' \in {used, [used EXCEPT ![a] = active]},
           UNCHANGED <<serverVars, active, holder, flightVars, joined, heard>>
    PROVE  TypeInv'
<1>1. /\ UNCHANGED <<issued, valid, revoked, request, reply, store, cancels, lost>>
      /\ UNCHANGED <<gate, result, cancelled>>
  BY DEF serverVars, flightVars
<1>2. /\ used' \in [Agents -> Nat] /\ \A b \in Agents : used'[b] <= issued
      /\ outcome' \in [Agents -> Results \cup Replies]
  BY DEF TypeInv, TypeOK, Answers
<1>3. TypeOK'
  BY <1>1, <1>2 DEF TypeInv, TypeOK, Goto
<1>4. /\ pc'[a] = point /\ \A b \in Agents : b # a => pc'[b] = pc[b]
      /\ outcome'[a] = r /\ \A b \in Agents : b # a => outcome'[b] = outcome[b]
  BY DEF TypeInv, TypeOK, Goto
<1>5. \A c \in Callers : pc'[c] = "settled" => outcome'[c] \in Results \ {Pending}
  BY <1>4, Names DEF TypeInv, Answers
<1>6. Answers'
  BY <1>1, <1>2, <1>4, <1>5, Names DEF TypeInv, Answers
<1>7. QED
  BY <1>3, <1>6 DEF TypeInv

\* Every step keeps the types.
LEMMA TypeStep ==
    ASSUME TypeInv, [Next]_vars
    PROVE  TypeInv'
<1> USE Names DEF Goto, At, serverVars, flightVars, taskVars
<1>1. ASSUME NEW c \in Callers, Enter(c) PROVE TypeInv'
  BY SMTT(40), <1>1 DEF Enter, TypeInv, TypeOK, Answers
<1>2. ASSUME NEW a \in Agents, Load(a) PROVE TypeInv'
  <2>1. CASE active = None
    <3>1. PICK r \in {Ok(None), Err("AuthenticationRequired")} :
             outcome' = [outcome EXCEPT ![a] = r]
      BY <1>2, <2>1 DEF Load
    <3>2. r \in Results \ {Pending}
      BY DEF Results, Ok, Err, Pending, None
    <3>3. QED
      BY <1>2, <2>1, <3>1, <3>2, OutcomeTyped DEF Load
  <2>2. CASE active # None
    <3>1. /\ request' = [request EXCEPT ![a] = "sent"] /\ Goto(a, "sent")
          /\ used' = [used EXCEPT ![a] = active]
          /\ UNCHANGED <<issued, valid, revoked, reply, store, cancels, lost, active,
                         holder, gate, result, cancelled, joined, heard, outcome>>
      BY <1>2, <2>2 DEF Load
    <3>2. TypeOK'
      BY <3>1 DEF TypeInv, TypeOK
    <3>3. Answers'
      BY <3>1 DEF TypeInv, TypeOK, Answers
    <3>4. QED
      BY <3>2, <3>3 DEF TypeInv
  <2>3. QED
    BY <2>1, <2>2
<1>3. ASSUME NEW c \in Callers, Decide(c) PROVE TypeInv'
  <2>1. reply[c] \in Replies /\ reply[c].error # "pending" /\ active \in Nat
    BY <1>3 DEF Decide, TypeInv, TypeOK, Answers
  <2>2. ASSUME NEW r \in Results \ {Pending}, Settle(c, r) PROVE TypeInv'
    BY <1>3, <2>2, OutcomeTyped DEF Decide, Settle
  <2>3. /\ Ok(active) \in Results \ {Pending}
        /\ Err("AuthenticationRequired") \in Results \ {Pending}
        /\ Err("AuthExpired") \in Results \ {Pending}
        /\ reply[c].error = "transport" => reply[c] \in Results \ {Pending}
    BY <2>1 DEF Ok, Err, Pending, Results, Replies, None
  <2>4. CASE active # used[c]
    <3>1. reply[c].error \in {"no", "unauthorized", "transport"}
      BY <2>1 DEF Replies
    <3>2. QED
      BY <1>3, <2>2, <2>3, <2>4, <3>1 DEF Decide
  <2>5. CASE active = used[c] /\ reply[c].error = "transport"
    BY <1>3, <2>2, <2>3, <2>5 DEF Decide
  <2>6. CASE active = used[c] /\ reply[c].error # "transport"
    BY SMTT(40), <1>3, <2>6 DEF Decide, TypeInv, TypeOK, Answers
  <2>7. QED
    BY <2>4, <2>5, <2>6
<1>4. ASSUME NEW a \in Agents, WriteStore(a) PROVE TypeInv'
  BY <1>4 DEF WriteStore, TypeInv, TypeOK, Answers, Replies
<1>5. ASSUME NEW a \in Agents, WriteActive(a) PROVE TypeInv'
  BY <1>5 DEF WriteActive, TypeInv, TypeOK, Answers, Ok, Err, Pending, Results, Replies, None
<1>6. ASSUME NEW a \in Agents, WriteFails(a) PROVE TypeInv'
  BY <1>6, CallersAssumption
     DEF WriteFails, TypeInv, TypeOK, Answers, Err, Pending, Results, Replies, None
<1>7. ASSUME NEW c \in Callers, PublishResult(c) PROVE TypeInv'
  <2>1. outcome[c] \in Results
    BY <1>7 DEF PublishResult, TypeInv, Answers
  <2>2. TypeOK'
    BY <1>7, <2>1 DEF PublishResult, TypeInv, TypeOK
  <2>3. Answers'
    BY <1>7 DEF PublishResult, TypeInv, TypeOK, Answers
  <2>4. QED
    BY <2>2, <2>3 DEF TypeInv
<1>8. ASSUME NEW c \in Callers, NotifyWaiters(c) \/ DropNotifies(c) PROVE TypeInv'
  <2>1. PICK point \in {"release", "gone"} : Goto(c, point)
    BY <1>8 DEF NotifyWaiters, DropNotifies
  <2>2. heard' \in [Callers -> BOOLEAN]
    <3>1. heard' = [d \in Callers |-> heard[d] \/ (joined[d] = c
                       /\ pc[d] \in {"registered", "checked", "waiting"})]
      BY <1>8 DEF NotifyWaiters, DropNotifies, Notify
    <3>2. QED
      BY <3>1, Zenon
  <2>3. UNCHANGED <<serverVars, active, holder, flightVars, joined, used, outcome>>
    BY <1>8 DEF NotifyWaiters, DropNotifies
  <2>4. TypeOK'
    BY <2>1, <2>2, <2>3 DEF TypeInv, TypeOK
  <2>5. Answers'
    BY <2>1, <2>3 DEF TypeInv, TypeOK, Answers
  <2>6. QED
    BY <2>4, <2>5 DEF TypeInv
<1>9. ASSUME NEW c \in Callers, Release(c) PROVE TypeInv'
  BY <1>9 DEF Release, TypeInv, TypeOK, Answers
<1>10. ASSUME NEW c \in Callers, Register(c) PROVE TypeInv'
  BY <1>10 DEF Register, TypeInv, TypeOK, Answers
<1>11. ASSUME NEW c \in Callers, CheckCancelled(c) \/ CheckResult(c) \/ Wake(c)
       PROVE  TypeInv'
  <2>1. /\ joined[c] \in Callers
        /\ UNCHANGED <<serverVars, active, holder, flightVars, joined, heard, used>>
    BY <1>11 DEF CheckCancelled, CheckResult, Wake, TypeInv, Answers
  <2>2. result[joined[c]] \in Results /\ Err("AuthExpired") \in Results
    BY <2>1 DEF TypeInv, TypeOK, Err, None, Results
  <2>3. ASSUME NEW r \in Results, Return(c, r) PROVE TypeInv'
    BY <2>1, <2>3, OutcomeTyped DEF Return
  <2>4. ASSUME NEW point \in {"checked", "waiting"}, Goto(c, point), UNCHANGED outcome
        PROVE  TypeInv'
    BY <2>1, <2>4 DEF TypeInv, TypeOK, Answers
  <2>5. QED
    BY <1>11, <2>2, <2>3, <2>4 DEF CheckCancelled, CheckResult, Wake
<1>12. ASSUME NEW c \in Callers, CancelLeader(c) \/ CancelReleasing(c) PROVE TypeInv'
  <2>1. /\ cancels' \in 0..MaxCancels /\ cancelled' \in [Callers -> BOOLEAN]
        /\ holder' \in Agents \cup {NoFlight}
    <3>1. cancels' \in 0..MaxCancels
      BY <1>12, CallersAssumption DEF CancelLeader, CancelReleasing, TypeInv, TypeOK
    <3>2. cancelled' \in {cancelled, [cancelled EXCEPT ![c] = TRUE]}
      BY <1>12 DEF CancelLeader, CancelReleasing
    <3>3. cancelled' \in [Callers -> BOOLEAN]
      BY <3>2 DEF TypeInv, TypeOK
    <3>4. holder' \in Agents \cup {NoFlight}
      BY <1>12 DEF CancelLeader, CancelReleasing, TypeInv, TypeOK
    <3>5. QED
      BY <3>1, <3>3, <3>4
  <2>2. PICK point \in {"dropping", "gone"} : Goto(c, point)
    BY <1>12 DEF CancelLeader, CancelReleasing
  <2>3. UNCHANGED <<issued, valid, revoked, request, reply, store, lost, active,
                    gate, result, joined, heard, used, outcome>>
    BY <1>12 DEF CancelLeader, CancelReleasing
  <2>4. QED
    BY <2>1, <2>2, <2>3 DEF TypeInv, TypeOK, Answers
<1>13. CASE BeginLogin \/ BeginLogout
  <2>1. /\ request' \in {request, [request EXCEPT ![Login] = "sent"]}
        /\ request' # request => Goto(Login, "sent") /\ At(Login, "idle")
        /\ request' = request => Goto(Login, "sent") \/ Goto(Logout, "load")
    BY <1>13 DEF BeginLogin, BeginLogout
  <2>2. UNCHANGED <<issued, valid, revoked, reply, store, cancels, lost, active,
                    holder, flightVars, joined, heard, used, outcome>>
    BY <1>13 DEF BeginLogin, BeginLogout
  <2>3. TypeOK'
    BY <2>1, <2>2 DEF TypeInv, TypeOK
  <2>4. Answers'
    BY <2>1, <2>2 DEF TypeInv, TypeOK, Answers
  <2>5. QED
    BY <2>3, <2>4 DEF TypeInv
<1>14. ASSUME NEW a \in {Login, Logout}, BeginWrite(a) PROVE TypeInv'
  <2>1. CASE reply[a].error = "no"
    BY SMTT(40), <1>14, <2>1 DEF BeginWrite, TypeInv, TypeOK, Answers
  <2>2. CASE reply[a].error # "no"
    <3>1. reply[a] \in Replies
      BY DEF TypeInv, TypeOK
    <3>2. QED
      BY <1>14, <2>2, <3>1, OutcomeTyped DEF BeginWrite, Settle
  <2>3. QED
    BY <2>1, <2>2
<1>15. ASSUME NEW c \in Callers, ServerRefresh(c) PROVE TypeInv'
  <2>1. issued \in Nat /\ valid \subseteq 1..issued
    BY DEF TypeInv, TypeOK
  <2>2. /\ Ok(issued + 1) \in Replies /\ Ok(issued + 1).pair = issued + 1
        /\ Ok(issued + 1).error = "no"
        /\ Err("unauthorized") \in Replies /\ Err("unauthorized").pair = 0
        /\ Err("unauthorized").error = "unauthorized"
    BY <2>1 DEF Ok, Err, None, Replies
  <2>3. lost' \in 0..MaxLost /\ revoked' \in BOOLEAN
    BY <1>15 DEF ServerRefresh, TypeInv, TypeOK
  <2>4. CASE used[c] \in valid
    <3>1. /\ issued' = issued + 1 /\ Answer(c, Ok(issued + 1))
          /\ valid' = (valid \ {used[c]}) \cup {issued + 1}
          /\ UNCHANGED <<store, cancels, active, holder, flightVars, taskVars>>
      BY <1>15, <2>4 DEF ServerRefresh
    <3>2. 1..issued \subseteq 1..issued' /\ issued + 1 \in 1..issued'
      BY <2>1, <3>1
    <3>3. QED
      <4>1. valid' \subseteq 1..issued'
        BY <2>1, <3>1, <3>2
      <4>2. issued + 1 \in 0..issued'
        BY <2>1, <3>1
      <4>3. QED
        BY <2>2, <2>3, <3>1, <4>1, <4>2, AnswerTyped
  <2>5. CASE used[c] \notin valid
    <3>1. /\ issued' = issued /\ Answer(c, Err("unauthorized")) /\ valid' = valid
          /\ UNCHANGED <<store, cancels, active, holder, flightVars, taskVars>>
      BY <1>15, <2>5 DEF ServerRefresh
    <3>2. valid' \subseteq 1..issued' /\ 0 \in 0..issued'
      BY <2>1, <3>1
    <3>3. QED
      BY <2>2, <2>3, <3>1, <3>2, AnswerTyped
  <2>6. QED
    BY <2>4, <2>5
<1>16. CASE ServerLogin
  <2>1. /\ issued \in Nat /\ valid \subseteq 1..issued
        /\ lost' \in 0..MaxLost /\ revoked' \in BOOLEAN
    BY <1>16 DEF TypeInv, TypeOK, ServerLogin
  <2>2. /\ Ok(issued + 1) \in Replies /\ Ok(issued + 1).pair = issued + 1
        /\ Ok(issued + 1).error = "no"
    BY <2>1 DEF Ok, Replies
  <2>3. QED
    BY <1>16, <2>1, <2>2, AnswerTyped DEF ServerLogin
<1>17. CASE ServerLogout
  <2>1. /\ issued \in Nat /\ valid' \subseteq 1..issued
        /\ lost' \in 0..MaxLost /\ revoked' \in BOOLEAN
    BY <1>17 DEF TypeInv, TypeOK, ServerLogout
  <2>2. PICK r \in {Ok(None), Err("unauthorized")} : Answer(Logout, r)
    BY <1>17 DEF ServerLogout
  <2>3. r \in Replies /\ r.pair = 0 /\ r.error # "pending"
    BY DEF Ok, Err, None, Replies
  <2>4. QED
    BY <1>17, <2>1, <2>2, <2>3, AnswerTyped DEF ServerLogout
<1>18. ASSUME NEW c \in Callers, LoseAnswer(c) PROVE TypeInv'
  <2>1. /\ issued \in Nat /\ valid \subseteq 1..issued
        /\ lost' \in 0..MaxLost /\ revoked' \in BOOLEAN
    BY <1>18, CallersAssumption DEF TypeInv, TypeOK, LoseAnswer
  <2>2. /\ Err("transport") \in Replies /\ Err("transport").pair = 0
        /\ Err("transport").error # "pending"
    BY DEF Err, None, Replies
  <2>3. QED
    BY <1>18, <2>1, <2>2, AnswerTyped DEF LoseAnswer
<1>19. CASE UNCHANGED vars
  BY <1>19 DEF vars, TypeInv, TypeOK, Answers
<1>20. QED
  BY <1>1, <1>2, <1>3, <1>4, <1>5, <1>6, <1>7, <1>8, <1>9, <1>10, <1>11, <1>12,
     <1>13, <1>14, <1>15, <1>16, <1>17, <1>18, <1>19
     DEF Next, Leader, Waiter, Writer

\* Initially every variable has its type.
LEMMA TypeInit == Init => TypeInv
<1> SUFFICES ASSUME Init PROVE TypeInv
  OBVIOUS
<1>1. Pending \in Replies /\ Pending \in Results /\ Pending.pair = 0
  BY DEF Pending, Err, None, Replies, Results
<1>2. TypeOK
  <2>0. valid \in SUBSET (1..issued)
    <3>1. issued = 1 /\ valid = {1} /\ 1 \in 1..1
      BY DEF Init
    <3>2. QED
      BY <3>1
  <2>1. /\ issued \in Nat /\ revoked \in BOOLEAN
        /\ store \in 0..issued /\ active \in 0..issued
        /\ cancels \in 0..MaxCancels /\ lost \in 0..MaxLost
    <3>1. revoked \in BOOLEAN
      BY Zenon DEF Init
    <3>2. issued = 1 /\ store = 1 /\ active = 1 /\ cancels = 0 /\ lost = 0
      BY DEF Init
    <3>3. 0 \in 0..MaxCancels /\ 0 \in 0..MaxLost
      BY CallersAssumption
    <3>4. QED
      BY <3>1, <3>2, <3>3
  <2>2. /\ request \in [Agents -> {"no", "sent", "answered"}]
        /\ reply \in [Agents -> Replies]
        /\ gate \in Callers \cup {NoFlight} /\ holder \in Agents \cup {NoFlight}
        /\ result \in [Callers -> Results]
    BY <1>1 DEF Init
  <2>3. cancelled \in [Callers -> BOOLEAN] /\ heard \in [Callers -> BOOLEAN]
    BY DEF Init
  <2>4. /\ joined \in [Callers -> Callers \cup {NoFlight}]
        /\ used \in [Agents -> Nat] /\ outcome \in [Agents -> Results \cup Replies]
    BY <1>1 DEF Init, None
  <2>5. QED
    BY <2>0, <2>1, <2>2, <2>3, <2>4 DEF Init, TypeOK
<1>3. Answers
  BY <1>1, Names DEF Init, Answers, None
<1>4. QED
  BY <1>2, <1>3 DEF TypeInv

\* Pairs in use were issued by the server, and what a flight publishes is an
\* outcome that refresh_access returns.
THEOREM TypeCorrect == Spec => []TypeOK
<1>1. Init => TypeInv
  BY TypeInit
<1>2. TypeInv /\ [Next]_vars => TypeInv'
  BY TypeStep
<1>3. TypeInv => TypeOK
  BY DEF TypeInv
<1>4. QED
  BY <1>1, <1>2, <1>3, PTL DEF Spec

------------------------------------------------------------------------------
(***************************************************************************)
(* The store is written first.                                             *)
(***************************************************************************)

\* Points at which an agent has written the store and not the active pair.
Half == {"written", "dropping", "gone"}

\* The store holds what the current writer wrote.  A difference to the active
\* pair is the work of an agent whose answer can no longer change.
Durable ==
    /\ \A a \in Agents : pc[a] = "written" => store = reply[a].pair
    /\ active # store =>
         \E a \in Agents : /\ pc[a] \in Half /\ request[a] = "answered"
                           /\ store = reply[a].pair

\* A step that writes neither the store nor the active pair.
LEMMA DurableFrame ==
    ASSUME TypeInv, Durable, UNCHANGED <<active, store>>,
           \A b \in Agents : pc'[b] = "written" => pc[b] = "written",
           \A b \in Agents :
               pc[b] \in Half /\ request[b] = "answered" =>
                   /\ pc'[b] \in Half
                   /\ request'[b] = "answered" /\ reply'[b] = reply[b]
    PROVE  Durable'
<1>1. \A b \in Agents : pc'[b] = "written" => reply'[b] = reply[b]
  BY DEF TypeInv, Answers, Half
<1>2. QED
  BY <1>1 DEF Durable

\* One agent moves, between points at which it has not written the store or
\* after it was dropped.
LEMMA DurableMove ==
    ASSUME TypeInv, Durable, NEW a \in Agents, NEW point, Goto(a, point),
           point # "written", pc[a] \in Half => point \in Half,
           \A b \in Agents : b # a => request'[b] = request[b],
           pc[a] \in Half => request'[a] = request[a],
           UNCHANGED <<active, store, reply>>
    PROVE  Durable'
<1>1. pc'[a] = point /\ \A b \in Agents : b # a => pc'[b] = pc[b]
  BY DEF Goto, TypeInv, TypeOK
<1>2. QED
  BY <1>1, DurableFrame

\* A request that is still under way, or whose caller has not looked at the
\* answer, is answered.
LEMMA DurableAnswer ==
    ASSUME TypeInv, Durable, NEW a \in Agents, NEW r, Answer(a, r),
           request[a] = "sent" \/ pc[a] = "sent",
           UNCHANGED <<active, store, pc>>
    PROVE  Durable'
<1>1. \A b \in Agents : b # a => request'[b] = request[b] /\ reply'[b] = reply[b]
  BY DEF Answer, TypeInv, TypeOK
<1>2. ~(pc[a] \in Half /\ request[a] = "answered")
  BY DEF Half
<1>3. QED
  BY <1>1, <1>2, DurableFrame

\* Every step keeps the pair in memory behind the pair in the store.
LEMMA DurableStep ==
    ASSUME IndInv, TypeInv, Durable, [Next]_vars
    PROVE  Durable'
<1> USE Names
<1>1. ASSUME NEW c \in Callers, Enter(c) PROVE Durable'
  <2>1. PICK point \in {"join", "load"} : Goto(c, point)
    BY <1>1 DEF Enter
  <2>2. QED
    BY <1>1, <2>1, DurableMove DEF Enter, At, Half, serverVars
<1>2. ASSUME NEW a \in Agents, Load(a) PROVE Durable'
  <2>1. PICK point \in {"settled", "sent"} : Goto(a, point)
    BY <1>2 DEF Load
  <2>2. \A b \in Agents : b # a => request'[b] = request[b]
    BY <1>2 DEF Load, TypeInv, TypeOK
  <2>3. QED
    BY <1>2, <2>1, <2>2, DurableMove DEF Load, At, Half
<1>3. ASSUME NEW c \in Callers, Decide(c) PROVE Durable'
  <2>1. PICK point \in {"settled", "write"} : Goto(c, point)
    BY <1>3 DEF Decide, Settle
  <2>2. QED
    BY <1>3, <2>1, DurableMove DEF Decide, At, Half, serverVars
<1>4. ASSUME NEW a \in Agents, WriteStore(a) PROVE Durable'
  <2>1. /\ pc' = [pc EXCEPT ![a] = "written"] /\ store' = reply[a].pair
        /\ UNCHANGED <<active, request, reply>>
    BY <1>4 DEF WriteStore, Goto
  <2>2. /\ \A b \in Agents : b # a => pc[b] # "written"
        /\ request[a] = "answered"
    BY <1>4 DEF WriteStore, At, IndInv, WriterHoldsGate, TypeInv, Answers
  <2>3. pc'[a] = "written" /\ \A b \in Agents : b # a => pc'[b] = pc[b]
    BY <2>1 DEF TypeInv, TypeOK
  <2>4. QED
    BY <2>1, <2>2, <2>3 DEF Durable, Half
<1>5. ASSUME NEW a \in Agents, WriteActive(a) PROVE Durable'
  <2>1. /\ pc' = [pc EXCEPT ![a] = "settled"] /\ active' = reply[a].pair
        /\ UNCHANGED <<store, request, reply>> /\ pc[a] = "written"
    BY <1>5 DEF WriteActive, Goto, At, serverVars
  <2>2. active' = store'
    BY <2>1 DEF Durable
  <2>3. \A b \in Agents : pc'[b] = "written" => pc[b] = "written"
    BY <2>1 DEF TypeInv, TypeOK
  <2>4. QED
    BY <2>1, <2>2, <2>3 DEF Durable
<1>6. ASSUME NEW a \in Agents, WriteFails(a) PROVE Durable'
  BY <1>6, DurableMove DEF WriteFails, At, Half
<1>7. ASSUME NEW c \in Callers, PublishResult(c) PROVE Durable'
  BY <1>7, DurableMove DEF PublishResult, At, Half, serverVars
<1>8. ASSUME NEW c \in Callers, NotifyWaiters(c) PROVE Durable'
  BY <1>8, DurableMove DEF NotifyWaiters, At, Half, serverVars
<1>9. ASSUME NEW c \in Callers, Release(c) PROVE Durable'
  BY <1>9, DurableMove DEF Release, At, Half, serverVars
<1>10. ASSUME NEW c \in Callers, DropNotifies(c) PROVE Durable'
  BY <1>10, DurableMove DEF DropNotifies, At, Half, serverVars
<1>11. ASSUME NEW c \in Callers, Waiter(c) PROVE Durable'
  <2>1. PICK point \in {"registered", "checked", "waiting", "done"} : Goto(c, point)
    BY <1>11 DEF Waiter, Register, CheckCancelled, CheckResult, Wake, Return
  <2>2. pc[c] \notin Half /\ UNCHANGED <<active, store, request, reply>>
    BY <1>11 DEF Waiter, Register, CheckCancelled, CheckResult, Wake, At, Half, serverVars
  <2>3. QED
    BY <2>1, <2>2, DurableMove
<1>12. ASSUME NEW c \in Callers, CancelLeader(c) PROVE Durable'
  BY <1>12, DurableMove DEF CancelLeader, Half
<1>13. ASSUME NEW c \in Callers, CancelReleasing(c) PROVE Durable'
  BY <1>13, DurableMove DEF CancelReleasing, At, Half
<1>14. CASE BeginLogin
  <2>1. \A b \in Agents : b # Login => request'[b] = request[b]
    BY <1>14 DEF BeginLogin, TypeInv, TypeOK
  <2>2. QED
    BY <1>14, <2>1, DurableMove DEF BeginLogin, At, Half
<1>15. CASE BeginLogout
  BY <1>15, DurableMove DEF BeginLogout, At, Half, serverVars
<1>16. ASSUME NEW a \in {Login, Logout}, BeginWrite(a) PROVE Durable'
  <2>1. PICK point \in {"settled", "write"} : Goto(a, point)
    BY <1>16 DEF BeginWrite, Settle
  <2>2. QED
    BY <1>16, <2>1, DurableMove DEF BeginWrite, At, Half, serverVars
<1>17. ASSUME NEW c \in Callers, ServerRefresh(c) PROVE Durable'
  <2>1. PICK r : Answer(c, r)
    BY <1>17 DEF ServerRefresh
  <2>2. QED
    BY <1>17, <2>1, DurableAnswer DEF ServerRefresh, taskVars
<1>18. CASE ServerLogin
  BY <1>18, DurableAnswer DEF ServerLogin, taskVars
<1>19. CASE ServerLogout
  BY <1>19, DurableAnswer DEF ServerLogout, taskVars
<1>20. ASSUME NEW c \in Callers, LoseAnswer(c) PROVE Durable'
  BY <1>20, DurableAnswer DEF LoseAnswer, At, taskVars
<1>21. CASE UNCHANGED vars
  BY <1>21, DurableFrame DEF vars, taskVars, serverVars
<1>22. QED
  BY <1>1, <1>2, <1>3, <1>4, <1>5, <1>6, <1>7, <1>8, <1>9, <1>10, <1>11, <1>12,
     <1>13, <1>14, <1>15, <1>16, <1>17, <1>18, <1>19, <1>20, <1>21
     DEF Next, Leader, Writer

\* What a client that starts again from the store finds there: the active pair,
\* or one that was about to become active, and never a pair that was replaced
\* (set_tokens, replace_if_current and clear write the store before the pair in
\* memory, and a dropped future leaves its write behind).
THEOREM StoreAlwaysFirst == Spec => []DurableFirst
<1>1. Init => IndInv /\ TypeInv /\ Durable
  <2>1. Init => IndInv
    BY Names DEF Init, IndInv, Tables, WriterHoldsGate, LoginWins
  <2>2. Init => Durable
    BY DEF Init, Durable
  <2>3. QED
    BY <2>1, <2>2, TypeInit
<1>2. IndInv /\ TypeInv /\ Durable /\ [Next]_vars => (IndInv /\ TypeInv /\ Durable)'
  BY Step, TypeStep, DurableStep
<1>3. Durable => DurableFirst
  BY DEF Durable, DurableFirst, Half
<1>4. QED
  BY <1>1, <1>2, <1>3, PTL DEF Spec

------------------------------------------------------------------------------
(***************************************************************************)
(* What the waiters of a flight hear.                                      *)
(***************************************************************************)

Unpublished == {"idle", "load", "sent", "write", "written", "settled"}
Leading == (Unpublished \ {"idle"}) \cup {"notify", "release"}

\* The leader of a flight waits for nobody; its result is there before it
\* notifies, its mark before its guard does; so a waiter that was woken finds one
\* of the two, and a result that a waiter returned is never replaced.
Expiry ==
    /\ \A c \in Callers :
         pc[c] \in Unpublished \cup {"notify", "release", "dropping", "gone"}
           => joined[c] = NoFlight
    /\ \A c \in Callers : pc[c] = "dropping" => cancelled[c]
    /\ \A c \in Callers : pc[c] \in Unpublished => result[c] = Pending
    /\ \A c \in Callers : pc[c] = "notify" => result[c] # Pending
    /\ \A c \in Callers :
         heard[c] => /\ joined[c] # NoFlight
                     /\ result[joined[c]] # Pending \/ cancelled[joined[c]]
    /\ \A c \in Callers :
         joined[c] # NoFlight /\ pc[c] = "done" =>
           \/ outcome[c] = result[joined[c]] /\ outcome[c] # Pending
           \/ cancelled[joined[c]]

\* An agent goes on with its own request.
LEMMA ExpiryMove ==
    ASSUME TypeInv, Expiry, NEW a \in Agents, NEW point, Goto(a, point),
           \/ pc[a] \in Unpublished /\ point \in Unpublished
           \/ pc[a] = "release" /\ point \in {"done", "gone"},
           \A b \in Agents : b # a => outcome'[b] = outcome[b],
           UNCHANGED <<joined, cancelled, result, heard>>
    PROVE  Expiry'
<1>1. pc'[a] = point /\ \A b \in Agents : b # a => pc'[b] = pc[b]
  BY DEF Goto, TypeInv, TypeOK
<1>2. a \in Callers => joined[a] = NoFlight
  BY DEF Expiry
<1>3. QED
  BY <1>1, <1>2, Names DEF Expiry, Unpublished

\* Every step keeps expiry behind a refusal by the server.
LEMMA ExpiryStep ==
    ASSUME TypeInv, Expiry, [Next]_vars
    PROVE  Expiry'
<1> USE Names
<1>1. ASSUME NEW c \in Callers, Enter(c) PROVE Expiry'
  <2>1. /\ pc[c] = "idle" /\ joined[c] = NoFlight
        /\ UNCHANGED <<result, cancelled, heard, outcome>>
    BY <1>1 DEF Enter, At, Expiry, Unpublished
  <2>2. CASE gate # NoFlight /\ ~cancelled[gate]
    <3>1. Goto(c, "join") /\ joined' = [joined EXCEPT ![c] = gate]
      BY <1>1, <2>2 DEF Enter
    <3>2. /\ pc'[c] = "join" /\ joined'[c] = gate
          /\ \A d \in Callers : d # c => pc'[d] = pc[d] /\ joined'[d] = joined[d]
      BY <3>1 DEF Goto, TypeInv, TypeOK
    <3>3. ~heard[c]
      BY <2>1 DEF Expiry
    <3>4. QED
      BY <2>1, <3>2, <3>3 DEF Expiry, Unpublished
  <2>3. CASE ~(gate # NoFlight /\ ~cancelled[gate])
    BY <1>1, <2>1, <2>3, ExpiryMove DEF Enter, Unpublished
  <2>4. QED
    BY <2>2, <2>3
<1>2. ASSUME NEW a \in Agents, Load(a) PROVE Expiry'
  <2>1. PICK point \in {"settled", "sent"} : Goto(a, point)
    BY <1>2 DEF Load
  <2>2. \A b \in Agents : b # a => outcome'[b] = outcome[b]
    BY <1>2 DEF Load, TypeInv, TypeOK
  <2>3. QED
    BY <1>2, <2>1, <2>2, ExpiryMove DEF Load, At, Unpublished, flightVars
<1>3. ASSUME NEW c \in Callers, Decide(c) PROVE Expiry'
  <2>1. PICK point \in {"settled", "write"} : Goto(c, point)
    BY <1>3 DEF Decide, Settle
  <2>2. \A b \in Agents : b # c => outcome'[b] = outcome[b]
    BY <1>3 DEF Decide, Settle, TypeInv, TypeOK
  <2>3. QED
    BY <1>3, <2>1, <2>2, ExpiryMove DEF Decide, At, Unpublished, flightVars
<1>4. ASSUME NEW a \in Agents, WriteStore(a) PROVE Expiry'
  BY <1>4, ExpiryMove DEF WriteStore, At, Unpublished, flightVars
<1>5. ASSUME NEW a \in Agents, WriteActive(a) \/ WriteFails(a) PROVE Expiry'
  <2>1. \A b \in Agents : b # a => outcome'[b] = outcome[b]
    BY <1>5 DEF WriteActive, WriteFails, TypeInv, TypeOK
  <2>2. QED
    BY <1>5, <2>1, ExpiryMove DEF WriteActive, WriteFails, At, Unpublished, flightVars
<1>6. ASSUME NEW c \in Callers, PublishResult(c) PROVE Expiry'
  <2>1. /\ pc[c] = "settled" /\ result[c] = Pending /\ joined[c] = NoFlight
        /\ UNCHANGED <<joined, cancelled, heard, outcome>>
    BY <1>6 DEF PublishResult, At, Expiry, Unpublished
  <2>2. /\ result'[c] = outcome[c] /\ outcome[c] # Pending /\ pc'[c] = "notify"
        /\ \A d \in Callers : d # c => pc'[d] = pc[d] /\ result'[d] = result[d]
    BY <1>6, <2>1 DEF PublishResult, Goto, TypeInv, TypeOK, Answers
  <2>3. \A d \in Callers : heard[d] =>
          /\ joined[d] # NoFlight
          /\ result'[joined[d]] # Pending \/ cancelled[joined[d]]
    <3>1. \A d \in Callers : joined[d] # NoFlight => joined[d] \in Callers
      BY DEF TypeInv, TypeOK
    <3>2. QED
      BY <2>2, <3>1 DEF Expiry
  <2>4. \A d \in Callers : joined[d] # NoFlight /\ pc'[d] = "done" =>
          \/ outcome[d] = result'[joined[d]] /\ outcome[d] # Pending
          \/ cancelled[joined[d]]
    <3>1. SUFFICES ASSUME NEW d \in Callers, joined[d] # NoFlight, pc'[d] = "done",
                          ~cancelled[joined[d]]
                   PROVE  outcome[d] = result'[joined[d]] /\ outcome[d] # Pending
      OBVIOUS
    <3>2. pc[d] = "done" /\ joined[d] \in Callers
      BY <2>2, <3>1 DEF TypeInv, TypeOK
    <3>3. outcome[d] = result[joined[d]] /\ outcome[d] # Pending
      BY <3>1, <3>2 DEF Expiry
    <3>4. joined[d] # c
      BY <2>1, <3>3
    <3>5. QED
      BY <2>2, <3>2, <3>3, <3>4
  <2>5. QED
    BY <2>1, <2>2, <2>3, <2>4 DEF Expiry, Unpublished
<1>7. ASSUME NEW c \in Callers, NotifyWaiters(c) \/ DropNotifies(c) PROVE Expiry'
  <2>1. /\ pc[c] \in {"notify", "dropping"}
        /\ result[c] # Pending \/ cancelled[c]
        /\ joined[c] = NoFlight
        /\ UNCHANGED <<joined, cancelled, result, outcome>>
        /\ Notify(c)
    BY <1>7 DEF NotifyWaiters, DropNotifies, At, Expiry, flightVars
  <2>2. PICK point \in {"release", "gone"} : Goto(c, point)
    BY <1>7 DEF NotifyWaiters, DropNotifies
  <2>3. pc'[c] = point /\ \A d \in Callers : d # c => pc'[d] = pc[d]
    BY <2>2 DEF Goto, TypeInv, TypeOK
  <2>4. \A d \in Callers : heard'[d] => heard[d] \/ joined[d] = c
    BY <2>1 DEF Notify
  <2>5. c # NoFlight
    OBVIOUS
  <2>6. \A d \in Callers : heard'[d] =>
          /\ joined[d] # NoFlight
          /\ result[joined[d]] # Pending \/ cancelled[joined[d]]
    BY <2>1, <2>4, <2>5 DEF Expiry
  <2>7. QED
    BY <2>1, <2>3, <2>6 DEF Expiry, Unpublished
<1>8. ASSUME NEW c \in Callers, Release(c) \/ CancelReleasing(c) PROVE Expiry'
  BY <1>8, ExpiryMove DEF Release, CancelReleasing, At, flightVars
<1>9. ASSUME NEW c \in Callers, Waiter(c) PROVE Expiry'
  <2>1. /\ pc[c] \in {"join", "registered", "checked", "waiting"} /\ joined[c] \in Callers
        /\ UNCHANGED <<joined, cancelled, result, heard>>
    BY <1>9 DEF Waiter, Register, CheckCancelled, CheckResult, Wake, At, flightVars,
                TypeInv, Answers
  <2>2. ASSUME NEW point \in {"registered", "checked", "waiting"}, Goto(c, point),
               UNCHANGED outcome
        PROVE  Expiry'
    <3>1. pc'[c] = point /\ \A d \in Callers : d # c => pc'[d] = pc[d]
      BY <2>2 DEF Goto, TypeInv, TypeOK
    <3>2. QED
      BY <2>1, <2>2, <3>1 DEF Expiry, Unpublished
  <2>3. ASSUME Goto(c, "done"), \A d \in Callers : d # c => outcome'[d] = outcome[d],
               ~cancelled[joined[c]] => outcome'[c] = result[joined[c]] /\ outcome'[c] # Pending
        PROVE  Expiry'
    <3>1. pc'[c] = "done" /\ \A d \in Callers : d # c => pc'[d] = pc[d]
      BY <2>3 DEF Goto, TypeInv, TypeOK
    <3>2. QED
      BY <2>1, <2>3, <3>1 DEF Expiry, Unpublished
  <2>4. CASE Register(c)
    BY <2>2, <2>4 DEF Register
  <2>5. CASE CheckCancelled(c)
    BY <2>2, <2>3, <2>5 DEF CheckCancelled, Return, TypeInv, TypeOK
  <2>6. CASE CheckResult(c)
    BY <2>2, <2>3, <2>6 DEF CheckResult, Return, TypeInv, TypeOK
  <2>7. CASE Wake(c)
    <3>1. result[joined[c]] # Pending \/ cancelled[joined[c]]
      BY <2>7 DEF Wake, Expiry
    <3>2. QED
      BY <2>3, <2>7, <3>1 DEF Wake, Return, TypeInv, TypeOK
  <2>8. QED
    BY <1>9, <2>4, <2>5, <2>6, <2>7 DEF Waiter
<1>10. ASSUME NEW c \in Callers, CancelLeader(c) PROVE Expiry'
  <2>1. /\ pc[c] \in Unpublished /\ joined[c] = NoFlight
        /\ UNCHANGED <<joined, result, heard, outcome>>
    BY <1>10 DEF CancelLeader, Expiry, Unpublished
  <2>2. /\ pc'[c] = "dropping" /\ \A d \in Callers : d # c => pc'[d] = pc[d]
        /\ cancelled'[c] /\ \A d \in Callers : cancelled[d] => cancelled'[d]
    BY <1>10 DEF CancelLeader, Goto, TypeInv, TypeOK
  <2>3. \A d \in Callers : joined[d] # NoFlight => joined[d] \in Callers
    BY DEF TypeInv, TypeOK
  <2>4. QED
    BY <2>1, <2>2, <2>3 DEF Expiry, Unpublished
<1>11. CASE BeginLogin \/ BeginLogout
  <2>1. CASE BeginLogin
    BY <2>1, ExpiryMove DEF BeginLogin, At, Unpublished, flightVars
  <2>2. CASE BeginLogout
    BY <2>2, ExpiryMove DEF BeginLogout, At, Unpublished, flightVars
  <2>3. QED
    BY <1>11, <2>1, <2>2
<1>12. ASSUME NEW a \in {Login, Logout}, BeginWrite(a) PROVE Expiry'
  <2>1. PICK point \in {"settled", "write"} : Goto(a, point)
    BY <1>12 DEF BeginWrite, Settle
  <2>2. \A b \in Agents : b # a => outcome'[b] = outcome[b]
    BY <1>12 DEF BeginWrite, Settle, TypeInv, TypeOK
  <2>3. QED
    BY <1>12, <2>1, <2>2, ExpiryMove DEF BeginWrite, At, Unpublished, flightVars
<1>13. CASE UNCHANGED <<flightVars, taskVars>>
  BY <1>13 DEF flightVars, taskVars, Expiry
<1>14. QED
  BY <1>1, <1>2, <1>3, <1>4, <1>5, <1>6, <1>7, <1>8, <1>9, <1>10, <1>11, <1>12, <1>13
     DEF Next, Leader, Writer, ServerRefresh, LoseAnswer, ServerLogin, ServerLogout, vars

\* Whatever the order in which a leader publishes, notifies, is dropped and
\* marks its flight, and a waiter registers, checks and sleeps: a waiter returns
\* the result of its flight, or AuthExpired for a flight that was cancelled.
THEOREM ExpiryNeverSpurious == Spec => []NoSpuriousExpiry
<1>1. Init => TypeInv /\ Expiry
  <2>1. Init => Expiry
    <3>1. ASSUME Init PROVE \A c \in Callers :
             /\ pc[c] = "idle" /\ joined[c] = NoFlight /\ result[c] = Pending
             /\ heard[c] = FALSE
      BY <3>1, Names DEF Init
    <3>2. QED
      BY <3>1 DEF Expiry
  <2>2. QED
    BY <2>1, TypeInit
<1>2. TypeInv /\ Expiry /\ [Next]_vars => (TypeInv /\ Expiry)'
  BY TypeStep, ExpiryStep
<1>3. Expiry => NoSpuriousExpiry
  BY DEF Expiry, NoSpuriousExpiry
<1>4. QED
  BY <1>1, <1>2, <1>3, PTL DEF Spec

------------------------------------------------------------------------------
(***************************************************************************)
(* The singleflight protects the session.                                  *)
(***************************************************************************)

\* No future was dropped, no answer lost, and no host logged out.
Undisturbed == cancels = 0 /\ lost = 0 /\ ~revoked

\* The agent has a new pair that is not active yet.
Carrying == {"sent", "write", "written"}
Fresh(a) == pc[a] \in Carrying /\ request[a] = "answered"

\* Only the caller in the gate leads a flight, so the pair it presents is one
\* the server still accepts; new pairs under way are all different, not active
\* and presented by nobody; and the active pair is accepted, unless the one
\* leader has already exchanged it.
Sound ==
    /\ \A c \in Callers : ~cancelled[c]
    /\ \A c \in Callers : pc[c] \in Leading => gate = c
    /\ \A c \in Callers : request[c] = "sent" => pc[c] = "sent" /\ used[c] \in valid
    /\ \A a \in Callers \cup {Login} : Fresh(a) =>
         /\ reply[a].error = "no" /\ reply[a].pair \in valid /\ reply[a].pair # active
         /\ \A c \in Callers : request[c] = "sent" => used[c] # reply[a].pair
         /\ \A b \in Callers \cup {Login} : Fresh(b) /\ b # a => reply[a].pair # reply[b].pair
    /\ active \in valid \/ \E c \in Callers : Fresh(c) /\ active = used[c]
    /\ \A c \in Callers : reply[c].error # "unauthorized"
    /\ request[Logout] # "answered"

\* One agent moves on, and what it carries stays with it until another pair is
\* active.
LEMMA SoundMove ==
    ASSUME TypeInv, Sound, NEW a \in Agents, NEW point, Goto(a, point),
           point \in Leading => pc[a] \in Leading \/ a = Logout \/ a = Login,
           pc[a] = "sent" => request[a] = "answered",
           point \in Carrying => pc[a] \in Carrying,
           Fresh(a) /\ active = used[a] /\ a \in Callers => point \in Carrying,
           UNCHANGED <<cancelled, gate, request, used, valid, reply, active>>
    PROVE  Sound'
<1>1. pc'[a] = point /\ \A b \in Agents : b # a => pc'[b] = pc[b]
  BY DEF Goto, TypeInv, TypeOK
<1>2. \A b \in Agents : Fresh(b)' => Fresh(b)
  BY <1>1 DEF Fresh
<1>3. \A c \in Callers : Fresh(c) /\ active = used[c] => Fresh(c)'
  BY <1>1, Names DEF Fresh
<1>4. \A c \in Callers : pc'[c] \in Leading => gate' = c
  BY <1>1, Names DEF Sound
<1>5. \A c \in Callers : request'[c] = "sent" => pc'[c] = "sent" /\ used'[c] \in valid'
  BY <1>1, Names DEF Sound
<1>6. Callers \cup {Login} \subseteq Agents
  BY Names
<1>7. QED
  BY <1>2, <1>3, <1>4, <1>5, <1>6 DEF Sound

\* The server issues a new pair to an agent whose request it serves.
LEMMA SoundAnswer ==
    ASSUME TypeInv, Sound, NEW a \in Callers \cup {Login},
           request[a] = "sent", Answer(a, Ok(issued + 1)),
           valid' = (IF a = Login THEN valid ELSE valid \ {used[a]}) \cup {issued + 1},
           UNCHANGED <<cancelled, gate, pc, used, active>>
    PROVE  Sound'
<1> DEFINE n == issued + 1
<1>1. /\ reply'[a].pair = n /\ reply'[a].error = "no" /\ request'[a] = "answered"
      /\ \A b \in Agents : b # a => reply'[b] = reply[b] /\ request'[b] = request[b]
  BY Names DEF Answer, Ok, TypeInv, TypeOK
<1>2. /\ n \in Nat /\ n \notin valid /\ active # n
      /\ \A b \in Agents : used[b] # n /\ reply[b].pair # n
  BY DEF TypeInv, TypeOK, Answers, Replies
<1>3. /\ Callers \cup {Login} \subseteq Agents
      /\ \A b \in Agents : b # a => (Fresh(b)' <=> Fresh(b))
  BY <1>1, Names DEF Fresh
<1>4. \A c \in Callers : c # a => ~(a \in Callers /\ request[c] = "sent")
  BY DEF Sound, Leading, Unpublished
<1>5. n \in valid'
  OBVIOUS
<1> HIDE DEF n
<1>6. ASSUME NEW b \in Callers \cup {Login}, Fresh(b)'
      PROVE  /\ reply'[b].error = "no" /\ reply'[b].pair \in valid' /\ reply'[b].pair # active'
             /\ \A c \in Callers : request'[c] = "sent" => used'[c] # reply'[b].pair
             /\ \A d \in Callers \cup {Login} : Fresh(d)' /\ d # b => reply'[b].pair # reply'[d].pair
  <2>1. CASE b = a
    BY <1>1, <1>2, <1>3, <1>5, <2>1
  <2>2. CASE b # a
    <3>1. Fresh(b) /\ reply'[b] = reply[b] /\ b \in Agents
      BY <1>1, <1>3, <1>6, <2>2
    <3>2. /\ reply[b].error = "no" /\ reply[b].pair \in valid /\ reply[b].pair # active
          /\ \A c \in Callers : request[c] = "sent" => used[c] # reply[b].pair
          /\ \A d \in Callers \cup {Login} : Fresh(d) /\ d # b => reply[b].pair # reply[d].pair
      BY <3>1 DEF Sound
    <3>3. a \in Callers => reply[b].pair # used[a]
      BY <3>2
    <3>4. reply[b].pair \in valid'
      BY <3>2, <3>3 DEF n
    <3>5. \A d \in Callers \cup {Login} : Fresh(d)' /\ d # b => reply[b].pair # reply'[d].pair
      BY <1>1, <1>2, <1>3, <3>1, <3>2
    <3>6. \A c \in Callers : request'[c] = "sent" => request[c] = "sent"
      BY <1>1, <1>3
    <3>7. QED
      BY <3>1, <3>2, <3>4, <3>5, <3>6
  <2>3. QED
    BY <2>1, <2>2
<1>7. \A c \in Callers : request'[c] = "sent" => pc'[c] = "sent" /\ used'[c] \in valid'
  <2>1. SUFFICES ASSUME NEW c \in Callers, request'[c] = "sent"
                 PROVE  pc[c] = "sent" /\ used[c] \in valid'
    OBVIOUS
  <2>2. c # a /\ request[c] = "sent"
    BY <1>1, <1>3, <2>1
  <2>3. a = Login
    BY <1>4, <2>2
  <2>4. QED
    BY <2>2, <2>3 DEF Sound
<1>8. active' \in valid' \/ \E c \in Callers : Fresh(c)' /\ active' = used'[c]
  <2>1. CASE active \in valid
    <3>1. CASE a = Login \/ active # used[a]
      BY <2>1, <3>1
    <3>2. CASE a # Login /\ active = used[a]
      <4>1. a \in Callers /\ pc[a] = "sent"
        BY <3>2 DEF Sound
      <4>2. Fresh(a)'
        BY <1>1, <4>1 DEF Fresh, Carrying
      <4>3. QED
        BY <3>2, <4>1, <4>2
    <3>3. QED
      BY <3>1, <3>2
  <2>2. ASSUME NEW c \in Callers, Fresh(c), active = used[c]
        PROVE  \E d \in Callers : Fresh(d)' /\ active' = used'[d]
    <3>1. c # a
      BY <2>2 DEF Fresh
    <3>2. QED
      BY <1>3, <2>2, <3>1
  <2>3. QED
    BY <2>1, <2>2 DEF Sound
<1>9. \A c \in Callers : reply'[c].error # "unauthorized"
  BY <1>1, <1>3 DEF Sound
<1>10. request'[Logout] # "answered"
  BY <1>1, Names DEF Sound, Login, Logout
<1>11. QED
  BY <1>6, <1>7, <1>8, <1>9, <1>10 DEF Sound

\* The new pair becomes active.
LEMMA SoundWrite ==
    ASSUME TypeInv, IndInv, Sound, NEW a \in Callers \cup {Login}, WriteActive(a)
    PROVE  Sound'
<1>1. /\ pc[a] = "written" /\ active' = reply[a].pair /\ Goto(a, "settled")
      /\ UNCHANGED <<cancelled, gate, request, used, valid, reply>>
      /\ a \in Agents
  BY Names DEF WriteActive, At, serverVars, flightVars
<1>2. pc'[a] = "settled" /\ \A b \in Agents : b # a => pc'[b] = pc[b]
  BY <1>1 DEF Goto, TypeInv, TypeOK
<1>3. Fresh(a) /\ reply[a].pair \in valid
  BY <1>1 DEF Fresh, Carrying, TypeInv, Answers, Sound
<1>4. /\ Callers \cup {Login} \subseteq Agents
      /\ \A b \in Agents : Fresh(b)' => Fresh(b) /\ b # a
  BY <1>1, <1>2, Names DEF Fresh, Carrying
<1>5. \A b \in Callers \cup {Login} : Fresh(b)' => reply[b].pair # active'
  BY <1>1, <1>3, <1>4 DEF Sound
<1>6. \A c \in Callers : pc'[c] \in Leading => gate' = c
  BY <1>1, <1>2, <1>4 DEF Sound, Leading, Unpublished
<1>7. \A c \in Callers : request'[c] = "sent" => pc'[c] = "sent" /\ used'[c] \in valid'
  BY <1>1, <1>2, <1>4 DEF Sound
<1>8. QED
  BY <1>1, <1>3, <1>4, <1>5, <1>6, <1>7 DEF Sound

\* The pair a request presents is loaded.
LEMMA SoundLoad ==
    ASSUME TypeInv, Sound, NEW a \in Callers \cup {Logout}, Load(a)
    PROVE  Sound'
<1>1. /\ pc[a] = "load" /\ used' = [used EXCEPT ![a] = active]
      /\ UNCHANGED <<cancelled, gate, valid, reply, active>> /\ a \in Agents
  BY Names DEF Load, At, flightVars
<1>2. PICK point \in {"settled", "sent"} :
         /\ Goto(a, point)
         /\ request' = [request EXCEPT ![a] = IF point = "sent" THEN "sent" ELSE @]
  <2>1. CASE active = None
    BY <2>1 DEF Load, TypeInv, TypeOK
  <2>2. CASE active # None
    BY <2>2 DEF Load
  <2>3. QED
    BY <2>1, <2>2
<1>3. /\ pc'[a] = point /\ \A b \in Agents : b # a => pc'[b] = pc[b]
      /\ used'[a] = active /\ \A b \in Agents : b # a => used'[b] = used[b]
      /\ request'[a] = (IF point = "sent" THEN "sent" ELSE request[a])
      /\ \A b \in Agents : b # a => request'[b] = request[b]
  BY <1>1, <1>2 DEF Goto, TypeInv, TypeOK
<1>4. /\ Callers \cup {Login, Logout} \subseteq Agents /\ Login # a
      /\ \A b \in Agents : b # a => (Fresh(b)' <=> Fresh(b))
      /\ ~Fresh(a) /\ ~Fresh(a)'
  <2>1. Callers \cup {Login, Logout} \subseteq Agents /\ Login # a
    BY Names DEF Login, Logout
  <2>2. ~Fresh(a) /\ ~Fresh(a)'
    BY <1>1, <1>3 DEF Fresh, Carrying
  <2>3. QED
    BY <1>3, <2>1, <2>2 DEF Fresh
<1>5. a \in Callers => request[a] # "sent"
  BY <1>1 DEF Sound
<1>6. a \in Callers => active \in valid
  <2>1. ASSUME a \in Callers, NEW c \in Callers, Fresh(c) PROVE FALSE
    <3>1. c # a
      BY <1>1, <2>1 DEF Fresh, Carrying
    <3>2. pc[c] \in Leading /\ pc[a] \in Leading
      BY <1>1, <2>1 DEF Fresh, Carrying, Leading, Unpublished
    <3>3. QED
      BY <2>1, <3>1, <3>2 DEF Sound
  <2>2. QED
    BY <2>1 DEF Sound
<1>7. \A c \in Callers : pc'[c] \in Leading => gate' = c
  BY <1>1, <1>3, <1>4 DEF Sound, Leading, Unpublished
<1>8. \A c \in Callers : request'[c] = "sent" => pc'[c] = "sent" /\ used'[c] \in valid'
  BY <1>1, <1>3, <1>4, <1>5, <1>6 DEF Sound
<1>9. ASSUME NEW b \in Callers \cup {Login}, Fresh(b)'
      PROVE  /\ reply'[b].error = "no" /\ reply'[b].pair \in valid' /\ reply'[b].pair # active'
             /\ \A c \in Callers : request'[c] = "sent" => used'[c] # reply'[b].pair
             /\ \A d \in Callers \cup {Login} : Fresh(d)' /\ d # b => reply'[b].pair # reply'[d].pair
  <2>1. b # a /\ Fresh(b)
    BY <1>4, <1>9
  <2>2. \A c \in Callers : request'[c] = "sent" =>
           used'[c] = active \/ (request[c] = "sent" /\ used'[c] = used[c])
    BY <1>3, <1>4
  <2>3. \A d \in Callers \cup {Login} : Fresh(d)' => Fresh(d)
    BY <1>4
  <2>4. QED
    BY <1>1, <2>1, <2>2, <2>3 DEF Sound
<1>10. active' \in valid' \/ \E c \in Callers : Fresh(c)' /\ active' = used'[c]
  BY <1>1, <1>3, <1>4 DEF Sound
<1>11. request'[Logout] # "answered"
  BY <1>3, <1>4 DEF Sound
<1>12. QED
  BY <1>1, <1>7, <1>8, <1>9, <1>10, <1>11 DEF Sound

\* Every undisturbed step keeps the pair that will be sent valid.
LEMMA SoundStep ==
    ASSUME TypeInv, IndInv, Undisturbed => Sound, [Next]_vars, Undisturbed'
    PROVE  Undisturbed /\ Sound'
<1> USE Names
<1>1. ASSUME NEW c \in Callers, CancelLeader(c) \/ CancelReleasing(c) PROVE FALSE
  BY <1>1 DEF CancelLeader, CancelReleasing, Undisturbed, TypeInv, TypeOK
<1>2. ASSUME NEW a \in Agents, WriteFails(a) \/ LoseAnswer(a) PROVE FALSE
  BY <1>2 DEF WriteFails, LoseAnswer, Undisturbed, TypeInv, TypeOK
<1>3. ASSUME ServerLogout PROVE FALSE
  BY <1>3 DEF ServerLogout, Undisturbed
<1>4. UNCHANGED <<cancels, lost, revoked>>
  <2> USE DEF serverVars
  <2>1. ASSUME NEW c \in Callers, Enter(c) \/ Waiter(c) \/ ServerRefresh(c)
        PROVE  UNCHANGED <<cancels, lost, revoked>>
    BY <2>1 DEF Enter, Waiter, Register, CheckCancelled, CheckResult, Wake, ServerRefresh
  <2>2. ASSUME NEW a \in Agents, Load(a) PROVE UNCHANGED <<cancels, lost, revoked>>
    BY <2>2 DEF Load
  <2>3. ASSUME NEW c \in Callers, Leader(c) PROVE UNCHANGED <<cancels, lost, revoked>>
    BY <2>2, <2>3 DEF Leader, Decide, PublishResult, NotifyWaiters, Release, DropNotifies
  <2>4. ASSUME NEW a \in Agents, Writer(a) \/ BeginWrite(a)
        PROVE  UNCHANGED <<cancels, lost, revoked>>
    BY <2>4 DEF Writer, WriteStore, WriteActive, BeginWrite
  <2>5. CASE ServerLogin \/ BeginLogin \/ BeginLogout \/ UNCHANGED vars
    BY <2>5 DEF ServerLogin, BeginLogin, BeginLogout, vars
  <2>6. QED
    <3>1. CASE \E c \in Callers :
                 \/ Enter(c) \/ Leader(c) \/ Waiter(c)
                 \/ ServerRefresh(c) \/ LoseAnswer(c)
                 \/ CancelLeader(c) \/ CancelReleasing(c)
      BY <1>1, <1>2, <2>1, <2>3, <3>1
    <3>2. CASE \E a \in Agents : Writer(a) \/ WriteFails(a)
      BY <1>2, <2>4, <3>2
    <3>3. CASE ServerLogin \/ ServerLogout \/ BeginLogin \/ BeginLogout \/ Load(Logout)
      BY <1>3, <2>2, <2>5, <3>3
    <3>4. CASE \E a \in {Login, Logout} : BeginWrite(a)
      BY <2>4, <3>4
    <3>5. CASE UNCHANGED vars
      BY <2>5, <3>5
    <3>6. QED
      BY <3>1, <3>2, <3>3, <3>4, <3>5 DEF Next
<1>5. Undisturbed /\ Sound
  BY <1>4 DEF Undisturbed
<1>6. ASSUME NEW c \in Callers, Enter(c) PROVE Sound'
  <2>1. ~(gate # NoFlight /\ ~cancelled[gate]) => gate = NoFlight
    BY <1>5 DEF Sound, TypeInv, TypeOK
  <2>2. CASE gate # NoFlight /\ ~cancelled[gate]
    BY <1>5, <1>6, <2>2, SoundMove
       DEF Enter, At, Fresh, Carrying, Leading, Unpublished, serverVars
  <2>3. CASE ~(gate # NoFlight /\ ~cancelled[gate])
    <3>1. /\ gate' = c /\ gate = NoFlight /\ Goto(c, "load") /\ pc[c] = "idle"
          /\ UNCHANGED <<cancelled, request, used, valid, reply, active>>
      BY <1>6, <2>1, <2>3 DEF Enter, At, serverVars
    <3>2. pc'[c] = "load" /\ \A b \in Agents : b # c => pc'[b] = pc[b]
      BY <3>1 DEF Goto, TypeInv, TypeOK
    <3>3. \A b \in Agents : Fresh(b)' <=> Fresh(b)
      BY <3>1, <3>2 DEF Fresh, Carrying
    <3>4. \A d \in Callers : pc[d] \notin Leading
      BY <1>5, <3>1 DEF Sound
    <3>5. \A d \in Callers : pc'[d] \in Leading => gate' = d
      BY <3>1, <3>2, <3>4
    <3>6. \A d \in Callers : request'[d] = "sent" => pc'[d] = "sent" /\ used'[d] \in valid'
      BY <1>5, <3>1, <3>2 DEF Sound
    <3>7. Callers \cup {Login} \subseteq Agents
      OBVIOUS
    <3>8. QED
      BY <1>5, <3>1, <3>3, <3>5, <3>6, <3>7 DEF Sound
  <2>4. QED
    BY <2>2, <2>3
<1>7. ASSUME NEW a \in Callers \cup {Logout}, Load(a) PROVE Sound'
  BY <1>5, <1>7, SoundLoad
<1>8. ASSUME NEW c \in Callers, Decide(c) PROVE Sound'
  <2>1. pc[c] = "sent" /\ request[c] = "answered" /\ Fresh(c)
    BY <1>8 DEF Decide, At, Fresh, Carrying
  <2>2. reply[c].error = "no"
    BY <1>5, <2>1 DEF Sound
  <2>3. PICK point \in {"settled", "write"} :
           Goto(c, point) /\ (active = used[c] => point = "write")
    BY <1>8, <2>2 DEF Decide, Settle
  <2>4. QED
    BY <1>5, <1>8, <2>1, <2>3, SoundMove
       DEF Decide, Carrying, Leading, Unpublished, serverVars, flightVars
<1>9. ASSUME NEW a \in Agents, WriteStore(a) PROVE Sound'
  <2>1. a # Logout
    BY <1>5, <1>9 DEF WriteStore, At, Sound, TypeInv, Answers
  <2>2. QED
    BY <1>5, <1>9, <2>1, SoundMove
       DEF WriteStore, At, Carrying, Leading, Unpublished, flightVars
<1>10. ASSUME NEW a \in Agents, WriteActive(a) PROVE Sound'
  <2>1. a # Logout
    BY <1>5, <1>10 DEF WriteActive, At, Sound, TypeInv, Answers
  <2>2. a \in Callers \cup {Login}
    BY <2>1 DEF Agents
  <2>3. QED
    BY <1>5, <1>10, <2>2, SoundWrite
<1>11. ASSUME NEW c \in Callers, PublishResult(c) PROVE Sound'
  BY <1>5, <1>11, SoundMove
     DEF PublishResult, At, Fresh, Carrying, Leading, Unpublished, serverVars
<1>12. ASSUME NEW c \in Callers, NotifyWaiters(c) PROVE Sound'
  BY <1>5, <1>12, SoundMove
     DEF NotifyWaiters, At, Fresh, Carrying, Leading, Unpublished, serverVars, flightVars
<1>13. ASSUME NEW c \in Callers, DropNotifies(c) PROVE Sound'
  BY <1>5, <1>13, SoundMove
     DEF DropNotifies, At, Fresh, Carrying, Leading, Unpublished, serverVars, flightVars
<1>14. ASSUME NEW c \in Callers, Release(c) PROVE Sound'
  <2>1. /\ gate = c /\ gate' = NoFlight /\ Goto(c, "done") /\ pc[c] = "release"
        /\ UNCHANGED <<cancelled, request, used, valid, reply, active>>
    BY <1>5, <1>14 DEF Release, At, serverVars, Sound, Leading
  <2>2. pc'[c] = "done" /\ \A b \in Agents : b # c => pc'[b] = pc[b]
    BY <2>1 DEF Goto, TypeInv, TypeOK
  <2>3. \A b \in Agents : Fresh(b)' <=> Fresh(b)
    BY <2>1, <2>2 DEF Fresh, Carrying
  <2>4. \A d \in Callers : pc'[d] \notin Leading
    BY <1>5, <2>1, <2>2 DEF Sound, Leading, Unpublished
  <2>5. \A d \in Callers : request'[d] = "sent" => pc'[d] = "sent" /\ used'[d] \in valid'
    BY <1>5, <2>1, <2>2 DEF Sound
  <2>6. Callers \cup {Login} \subseteq Agents
    OBVIOUS
  <2>7. QED
    BY <1>5, <2>1, <2>3, <2>4, <2>5, <2>6 DEF Sound
<1>15. ASSUME NEW c \in Callers, Waiter(c) PROVE Sound'
  <2>1. PICK point \in {"registered", "checked", "waiting", "done"} : Goto(c, point)
    BY <1>15 DEF Waiter, Register, CheckCancelled, CheckResult, Wake, Return
  <2>2. /\ pc[c] \in {"join", "registered", "checked", "waiting"}
        /\ UNCHANGED <<cancelled, gate, request, used, valid, reply, active>>
    BY <1>15 DEF Waiter, Register, CheckCancelled, CheckResult, Wake, At, serverVars,
                 flightVars
  <2>3. QED
    BY <1>5, <2>1, <2>2, SoundMove DEF Fresh, Carrying, Leading, Unpublished
<1>16. ASSUME NEW c \in Callers, ServerRefresh(c) PROVE Sound'
  <2>1. request[c] = "sent" /\ used[c] \in valid
    BY <1>5, <1>16 DEF ServerRefresh, Sound
  <2>2. QED
    BY <1>5, <1>16, <2>1, SoundAnswer DEF ServerRefresh, taskVars, flightVars
<1>17. CASE ServerLogin
  BY <1>5, <1>17, SoundAnswer DEF ServerLogin, taskVars, flightVars
<1>18. CASE BeginLogin
  <2>1. /\ pc[Login] = "idle" /\ Goto(Login, "sent")
        /\ request' = [request EXCEPT ![Login] = "sent"]
        /\ UNCHANGED <<cancelled, gate, used, valid, reply, active>>
    BY <1>18 DEF BeginLogin, At, flightVars
  <2>2. /\ pc'[Login] = "sent" /\ request'[Login] = "sent"
        /\ \A b \in Agents : b # Login => pc'[b] = pc[b] /\ request'[b] = request[b]
    BY <2>1 DEF Goto, TypeInv, TypeOK
  <2>3. \A b \in Agents : Fresh(b)' <=> Fresh(b)
    BY <2>1, <2>2 DEF Fresh, Carrying
  <2>4. Callers \cup {Login} \subseteq Agents /\ Logout # Login
    BY DEF Login, Logout
  <2>5. \A c \in Callers : pc'[c] = pc[c] /\ request'[c] = request[c]
    BY <2>2
  <2>6. request'[Logout] = request[Logout]
    BY <2>2, <2>4
  <2>7. QED
    BY <1>5, <2>1, <2>3, <2>4, <2>5, <2>6 DEF Sound
<1>19. CASE BeginLogout
  BY <1>5, <1>19, SoundMove
     DEF BeginLogout, At, Fresh, Carrying, Leading, Unpublished, serverVars, flightVars
<1>20. ASSUME NEW a \in {Login, Logout}, BeginWrite(a) PROVE Sound'
  <2>1. a = Login /\ pc[a] = "sent" /\ request[a] = "answered"
    BY <1>5, <1>20 DEF BeginWrite, At, Sound
  <2>2. PICK point \in {"settled", "write"} : Goto(a, point)
    BY <1>20 DEF BeginWrite, Settle
  <2>3. QED
    BY <1>5, <1>20, <2>1, <2>2, SoundMove
       DEF BeginWrite, Carrying, Leading, Unpublished, serverVars, flightVars
<1>21. CASE UNCHANGED vars
  BY <1>5, <1>21 DEF vars, serverVars, flightVars, taskVars, Sound, Fresh
<1>22. QED
  BY <1>1, <1>2, <1>3, <1>5, <1>6, <1>7, <1>8, <1>9, <1>10, <1>11, <1>12, <1>13, <1>14,
     <1>15, <1>16, <1>17, <1>18, <1>19, <1>20, <1>21
     DEF Next, Leader, Writer

\* refresh_access shares one flight among its callers: each pair is presented
\* once, so without a dropped future, a lost answer or a logout the server
\* refuses no refresh, and the session is not thrown away, for any number of
\* callers and whatever login runs beside them.
THEOREM SessionNeverRefused == Spec => []NoRefusedRefresh
<1> DEFINE Inv == IndInv /\ TypeInv /\ (Undisturbed => Sound)
<1>1. Init => Inv
  <2> SUFFICES ASSUME Init PROVE Inv
    OBVIOUS
  <2>1. IndInv
    BY Names DEF Init, IndInv, Tables, WriterHoldsGate, LoginWins
  <2>2. \A a \in Agents : /\ pc[a] = "idle" /\ request[a] = "no"
                          /\ reply[a].error = "pending"
    BY DEF Init, Pending, Err
  <2>3. \A a \in Agents : ~Fresh(a)
    BY <2>2 DEF Fresh
  <2>4. active \in valid /\ \A c \in Callers : ~cancelled[c]
    BY DEF Init
  <2>5. \A c \in Callers : pc[c] \notin Leading
    BY <2>2, Names DEF Leading, Unpublished
  <2>6. Sound
    BY <2>2, <2>3, <2>4, <2>5, Names DEF Sound
  <2>7. QED
    BY <2>1, <2>6, TypeInit
<1>2. Inv /\ [Next]_vars => Inv'
  BY Step, TypeStep, SoundStep
<1>3. Inv => NoRefusedRefresh
  BY DEF Sound, Undisturbed, NoRefusedRefresh
<1>4. QED
  BY <1>1, <1>2, <1>3, PTL DEF Spec

==============================================================================
