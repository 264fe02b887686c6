------------------------ MODULE CdasSession_proofs ------------------------
(***************************************************************************)
(* Theorems about CdasSession: its types, writes that are sent once,       *)
(* logins that exclude each other, the daily allowance, and the session    *)
(* that is stored whole, for any number of processes and calls.            *)
(***************************************************************************)
EXTENDS CdasSession, FiniteSetTheorems, TLAPS

-----------------------------------------------------------------------------
(* Types.                                                                  *)

(* TypeOK by the parts that the steps change together.                     *)
CallsOK == call \in [Calls -> CallRow]
SessionsOK ==
    /\ holder \in [Clients -> Calls \cup {NoCall}]
    /\ local \in [Clients -> Session]
    /\ shared \in Session
    /\ lock \in Calls \cup {NoCall}
    /\ issued \in Nat /\ live \subseteq 1 .. issued /\ aged \subseteq 1 .. issued
    /\ overtaken \subseteq Calls /\ late \subseteq Clients
CountsOK ==
    /\ used \in 0 .. Limit /\ received \in Nat /\ carried \subseteq Calls
    /\ sent \in [Calls -> Nat]
    /\ writes \subseteq Calls /\ events \in 0 .. MaxEvents

LEMMA Parts == TypeOK <=> CallsOK /\ SessionsOK /\ CountsOK
BY DEF TypeOK, CallsOK, SessionsOK, CountsOK

LEMMA RowType ==
    ASSUME CallsOK, NEW k \in Calls
    PROVE  /\ call[k] \in CallRow
           /\ call[k].stage \in Stages /\ call[k].round \in 1 .. 2 /\ call[k].token \in Nat
           /\ call[k].cookies \in Nat /\ call[k].previous \in Nat /\ call[k].mode \in 1 .. Modes
BY DEF CallsOK, CallRow

LEMMA SetRow ==
    ASSUME CallsOK, NEW k \in Calls, NEW r \in CallRow, call' = [call EXCEPT ![k] = r]
    PROVE  CallsOK'
BY DEF CallsOK

LEMMA GotoType ==
    ASSUME CallsOK, NEW k \in Calls, NEW s \in Stages, Goto(k, s)
    PROVE  CallsOK'
<1>1. [call[k] EXCEPT !.stage = s] \in CallRow
  BY RowType DEF CallRow
<1>2. call' = [call EXCEPT ![k] = [call[k] EXCEPT !.stage = s]]
  BY DEF Goto
<1> QED BY <1>1, <1>2, SetRow

LEMMA EndType ==
    ASSUME CallsOK, NEW k \in Calls, NEW s \in Stages, End(k, s)
    PROVE  CallsOK'
<1>1. [NewCall EXCEPT !.stage = s] \in CallRow
  BY NumbersAssumption DEF CallRow, NewCall
<1> QED BY <1>1, SetRow DEF End

LEMMA RequestType ==
    ASSUME CallsOK, CountsOK, NEW k \in Calls, NEW t \in Nat, NEW c \in Nat, NEW m \in 1 .. Modes,
           Request(k, t, c, m)
    PROVE  /\ CallsOK' /\ received' = received /\ carried' = carried
           /\ used' \in 0 .. Limit /\ sent' \in [Calls -> Nat]
<1>1. CASE used < Limit
  <2>1. [call[k] EXCEPT !.stage = "sent", !.token = t, !.cookies = c, !.previous = 0,
                        !.mode = m] \in CallRow
    BY RowType DEF CallRow, Stages, InFlight
  <2>2. call' = [call EXCEPT ![k] = [call[k] EXCEPT !.stage = "sent", !.token = t, !.cookies = c,
                                                    !.previous = 0, !.mode = m]]
    BY <1>1 DEF Request
  <2>3. CallsOK'
    BY <2>1, <2>2, SetRow
  <2>4. used' \in 0 .. Limit /\ sent' \in [Calls -> Nat]
    BY <1>1, NumbersAssumption DEF Request, CountsOK
  <2> QED BY <1>1, <2>3, <2>4 DEF Request
<1>2. CASE ~(used < Limit)
  <2>1. "failed" \in Stages
    BY DEF Stages, Ended
  <2>2. End(k, "failed") /\ UNCHANGED <<used, received, carried, sent>>
    BY <1>2 DEF Request, allowance
  <2> QED BY <2>1, <2>2, EndType DEF CountsOK
<1> QED BY <1>1, <1>2

(* Every action keeps the types.                                           *)

LEMMA MineType ==
    ASSUME SessionsOK, NEW k \in Calls
    PROVE  /\ ClientOf[k] \in Clients
           /\ Mine(k) \in Session /\ Mine(k).token \in Nat /\ Mine(k).cookies \in Nat
BY CallsAssumption DEF SessionsOK, Mine, Session

LEMMA SessionRow ==
    ASSUME NEW r \in CallRow, NEW s \in Stages, NEW t \in Nat, NEW c \in Nat
    PROVE  [r EXCEPT !.stage = s, !.token = t, !.cookies = c] \in CallRow
BY DEF CallRow

LEMMA EnterRow ==
    ASSUME NEW r \in CallRow, NEW s \in Stages, NEW n \in 1 .. 2, NEW t \in Nat
    PROVE  [r EXCEPT !.stage = s, !.round = n, !.previous = t] \in CallRow
BY DEF CallRow

LEMMA LeaveType ==
    ASSUME CallsOK, NEW k \in Calls, NEW t \in Nat,
           call' = [call EXCEPT ![k] = [call[k] EXCEPT !.stage = "leaving", !.token = t]]
    PROVE  CallsOK'
<1>1. [call[k] EXCEPT !.stage = "leaving", !.token = t] \in CallRow
  BY RowType DEF CallRow, Stages, Inside
<1> QED BY <1>1, SetRow

LEMMA PouredType ==
    ASSUME CallsOK, SessionsOK, NEW k \in Calls
    PROVE  Poured(k) \in Session /\ Poured(k).cookies \in Nat /\ [Poured(k) EXCEPT !.age = "used"] \in Session
BY RowType, MineType DEF Poured, Session

LEMMA TypesInit == Init => TypeOK
<1> SUFFICES ASSUME Init PROVE TypeOK
  OBVIOUS
<1>1. NewCall \in CallRow
  BY NumbersAssumption DEF NewCall, CallRow, Stages
<1>2. CallsOK
  BY <1>1 DEF Init, CallsOK
<1>3. SessionsOK
  BY CallsAssumption DEF Init, SessionsOK, NoSession, Session
<1>4. CountsOK
  BY CallsAssumption, NumbersAssumption DEF Init, CountsOK
<1> QED BY <1>2, <1>3, <1>4, Parts

LEMMA AuthenticateTypes ==
    ASSUME TypeOK, NEW k \in Calls, Authenticate(k)
    PROVE  TypeOK'
<1> USE DEF provider, notes, fixed, allowance, sessions
<1>1. CallsOK /\ SessionsOK /\ CountsOK /\ ClientOf[k] \in Clients
  BY Parts, CallsAssumption
<1>2. SUFFICES CallsOK' /\ SessionsOK' /\ CountsOK'
  BY Parts DEF TypeOK, CallsOK, SessionsOK, CountsOK
<1>3. CASE UseLocal(k)
  <2>1. CallsOK'
    BY <1>1, <1>3, MineType, RequestType, NumbersAssumption DEF UseLocal
  <2>2. SessionsOK'
    BY <1>1, <1>3, MineType DEF UseLocal, SessionsOK
  <2>3. CountsOK'
    BY <1>1, <1>3, MineType, RequestType, NumbersAssumption DEF UseLocal, CountsOK
  <2> QED BY <2>1, <2>2, <2>3
<1>4. CASE Enter(k)
  <2>1. CallsOK'
    <3>1. [call[k] EXCEPT !.stage = IF Stage(k) = "again" THEN "waiting" ELSE "loading",
                         !.round = IF Stage(k) = "again" THEN 2 ELSE 1,
                         !.previous = Mine(k).token] \in CallRow
      <4>1. {"waiting", "loading"} \subseteq Stages
        BY DEF Stages
      <4>2. (IF Stage(k) = "again" THEN "waiting" ELSE "loading") \in Stages
        BY <4>1
      <4>3. (IF Stage(k) = "again" THEN 2 ELSE 1) \in 1 .. 2
        OBVIOUS
      <4>4. Mine(k).token \in Nat /\ call[k] \in CallRow
        BY <1>1, MineType, RowType
      <4> QED BY <4>2, <4>3, <4>4, EnterRow
    <3> QED BY <1>1, <1>4, <3>1, SetRow DEF Enter
  <2>2. SessionsOK'
    BY <1>1, <1>4, MineType DEF Enter, SessionsOK
  <2>3. CountsOK'
    BY <1>1, <1>4 DEF Enter, CountsOK
  <2> QED BY <2>1, <2>2, <2>3
<1>5. CASE LoadShared(k)
  <2>1. CallsOK'
    <3>1. "waiting" \in Stages
      BY DEF Stages
    <3>2. shared.token \in Nat /\ shared.cookies \in Nat /\ 1 \in 1 .. Modes
      BY <1>1, NumbersAssumption DEF SessionsOK, Session
    <3> QED BY <1>1, <1>5, <3>1, <3>2, RequestType, GotoType DEF LoadShared
  <2>2. SessionsOK'
    BY <1>1, <1>5 DEF LoadShared, SessionsOK, SetMine, FreeClient
  <2>3. CountsOK'
    <3>1. shared.token \in Nat /\ shared.cookies \in Nat /\ 1 \in 1 .. Modes
      BY <1>1, NumbersAssumption DEF SessionsOK, Session
    <3> QED BY <1>1, <1>5, <3>1, RequestType DEF LoadShared, CountsOK
  <2> QED BY <2>1, <2>2, <2>3
<1>6. CASE GiveUp(k)
  <2>1. CallsOK'
    <3>1. "failed" \in Stages
      BY DEF Stages, Ended
    <3> QED BY <1>1, <1>6, <3>1, EndType DEF GiveUp
  <2>2. SessionsOK'
    BY <1>1, <1>6 DEF GiveUp, SessionsOK, FreeClient
  <2>3. CountsOK'
    BY <1>1, <1>6 DEF GiveUp, CountsOK
  <2> QED BY <2>1, <2>2, <2>3
<1>7. CASE TakeLock(k)
  <2>1. CallsOK'
    <3>1. "deciding" \in Stages
      BY DEF Stages, Inside
    <3> QED BY <1>1, <1>7, <3>1, GotoType DEF TakeLock
  <2>2. SessionsOK'
    BY <1>1, <1>7, MineType DEF TakeLock, SessionsOK
  <2>3. CountsOK'
    BY <1>1, <1>7 DEF TakeLock, CountsOK
  <2> QED BY <2>1, <2>2, <2>3
<1>8. CASE Reuse(k)
  <2>1. CallsOK'
    BY <1>1, <1>8, LeaveType DEF Reuse, SessionsOK, Session
  <2>2. SessionsOK'
    BY <1>1, <1>8 DEF Reuse, SessionsOK, SetMine
  <2>3. CountsOK'
    BY <1>1, <1>8 DEF Reuse, CountsOK
  <2> QED BY <2>1, <2>2, <2>3
<1>9. CASE Login(k)
  <2>1. CallsOK'
    <3>1. "login" \in Stages
      BY DEF Stages, Inside
    <3> QED BY <1>1, <1>9, <3>1, GotoType, LeaveType DEF Login
  <2>2. SessionsOK'
    BY <1>1, <1>9 DEF Login, SessionsOK, SetMine
  <2>3. CountsOK'
    BY <1>1, <1>9, NumbersAssumption DEF Login, CountsOK
  <2> QED BY <2>1, <2>2, <2>3
<1>10. CASE LookupFails(k)
  <2>1. CallsOK'
    BY <1>1, <1>10, LeaveType DEF LookupFails
  <2>2. SessionsOK'
    BY <1>1, <1>10, MineType DEF LookupFails, SessionsOK
  <2>3. CountsOK'
    BY <1>1, <1>10 DEF LookupFails, CountsOK
  <2> QED BY <2>1, <2>2, <2>3
<1>11. CASE LoginSucceeds(k)
  <2>1. CallsOK'
    <3>1. [call[k] EXCEPT !.stage = "storing", !.token = issued + 1, !.cookies = issued + 1] \in CallRow
      <4>1. "storing" \in Stages /\ issued + 1 \in Nat
        BY <1>1 DEF Stages, Inside, SessionsOK
      <4> QED BY <1>1, <4>1, RowType, SessionRow
    <3> QED BY <1>1, <1>11, <3>1, SetRow DEF LoginSucceeds
  <2>2. SessionsOK'
    <3>1. [token |-> issued + 1, cookies |-> issued + 1, age |-> "used"] \in Session
      BY <1>1 DEF SessionsOK, Session
    <3>2. local' \in [Clients -> Session]
      BY <1>1, <1>11, <3>1 DEF LoginSucceeds, SessionsOK, SetMine
    <3> QED BY <1>1, <1>11, <3>2 DEF LoginSucceeds, SessionsOK
  <2>3. CountsOK'
    BY <1>1, <1>11 DEF LoginSucceeds, CountsOK
  <2> QED BY <2>1, <2>2, <2>3
<1>12. CASE LoginFails(k)
  <2>1. CallsOK'
    BY <1>1, <1>12, LeaveType DEF LoginFails
  <2>2. SessionsOK'
    BY <1>1, <1>12, MineType DEF LoginFails, SessionsOK
  <2>3. CountsOK'
    BY <1>1, <1>12 DEF LoginFails, CountsOK
  <2> QED BY <2>1, <2>2, <2>3
<1>13. CASE StoreLogin(k)
  <2>1. CallsOK'
    <3>1. "leaving" \in Stages
      BY DEF Stages, Inside
    <3> QED BY <1>1, <1>13, <3>1, GotoType, LeaveType DEF StoreLogin
  <2>2. SessionsOK'
    BY <1>1, <1>13, RowType DEF StoreLogin, SessionsOK, Session
  <2>3. CountsOK'
    BY <1>1, <1>13 DEF StoreLogin, CountsOK
  <2> QED BY <2>1, <2>2, <2>3
<1>14. CASE Release(k)
  <2>1. CallsOK'
    <3>1. "failed" \in Stages
      BY DEF Stages, Ended
    <3> QED BY <1>1, <1>14, <3>1, MineType, RowType, RequestType, EndType, NumbersAssumption DEF Release
  <2>2. SessionsOK'
    BY <1>1, <1>14 DEF Release, SessionsOK, FreeClient
  <2>3. CountsOK'
    BY <1>1, <1>14, MineType, RowType, RequestType, NumbersAssumption DEF Release, CountsOK
  <2> QED BY <2>1, <2>2, <2>3
<1> QED BY <1>3, <1>4, <1>5, <1>6, <1>7, <1>8, <1>9, <1>10, <1>11, <1>12, <1>13, <1>14 DEF Authenticate

LEMMA AnswerTypes ==
    ASSUME TypeOK, NEW k \in Calls, Answer(k)
    PROVE  TypeOK'
<1> USE DEF provider, notes, fixed, allowance, sessions
<1>1. CallsOK /\ SessionsOK /\ CountsOK /\ ClientOf[k] \in Clients
  BY Parts, CallsAssumption
<1>2. SUFFICES CallsOK' /\ SessionsOK' /\ CountsOK'
  BY Parts DEF TypeOK, CallsOK, SessionsOK, CountsOK
<1>3. CASE Handle(k)
  <2>1. CallsOK'
    <3>1. Outcomes(k) \subseteq Stages
      BY DEF Outcomes, Stages
    <3> QED BY <1>1, <1>3, <3>1, GotoType DEF Handle
  <2>2. SessionsOK'
    BY <1>1, <1>3, MineType DEF Handle, SessionsOK
  <2>3. CountsOK'
    BY <1>1, <1>3 DEF Handle, CountsOK
  <2> QED BY <2>1, <2>2, <2>3
<1>4. CASE Lost(k)
  <2>1. CallsOK'
    <3>1. "failed" \in Stages /\ "done" \in Stages
      BY DEF Stages, Ended
    <3> QED BY <1>1, <1>4, <3>1, EndType DEF Lost
  <2>2. SessionsOK'
    BY <1>1, <1>4, MineType DEF Lost, SessionsOK
  <2>3. CountsOK'
    BY <1>1, <1>4 DEF Lost, CountsOK
  <2> QED BY <2>1, <2>2, <2>3
<1>5. CASE Succeed(k)
  <2>1. CallsOK'
    <3>1. [NewCall EXCEPT !.stage = "refreshing", !.token = Mine(k).token,
                          !.cookies = Poured(k).cookies] \in CallRow
      <4>1. NewCall \in CallRow /\ "refreshing" \in Stages
        BY NumbersAssumption DEF NewCall, CallRow, Stages
      <4> QED BY <1>1, <4>1, MineType, PouredType, SessionRow
    <3>2. "done" \in Stages
      BY DEF Stages, Ended
    <3> QED BY <1>1, <1>5, <3>1, <3>2, SetRow, EndType DEF Succeed
  <2>2. SessionsOK'
    BY <1>1, <1>5, PouredType DEF Succeed, SessionsOK, SetMine, NoteLate
  <2>3. CountsOK'
    BY <1>1, <1>5 DEF Succeed, CountsOK
  <2> QED BY <2>1, <2>2, <2>3
<1>6. CASE Refuse(k)
  <2>1. CallsOK'
    <3>1. "failed" \in Stages /\ "done" \in Stages
      BY DEF Stages, Ended
    <3> QED BY <1>1, <1>6, <3>1, EndType DEF Refuse
  <2>2. SessionsOK'
    BY <1>1, <1>6, PouredType DEF Refuse, SessionsOK, SetMine, NoteLate
  <2>3. CountsOK'
    BY <1>1, <1>6 DEF Refuse, CountsOK
  <2> QED BY <2>1, <2>2, <2>3
<1>7. CASE TryNextMode(k)
  <2>1. CallsOK'
    <3>1. call[k].mode + 1 \in 1 .. Modes
      BY <1>1, <1>7, RowType, NumbersAssumption DEF TryNextMode
    <3> QED BY <1>1, <1>7, <3>1, RowType, PouredType, RequestType DEF TryNextMode
  <2>2. SessionsOK'
    BY <1>1, <1>7, PouredType DEF TryNextMode, SessionsOK, SetMine, NoteLate
  <2>3. CountsOK'
    <3>1. call[k].mode + 1 \in 1 .. Modes
      BY <1>1, <1>7, RowType, NumbersAssumption DEF TryNextMode
    <3> QED BY <1>1, <1>7, <3>1, RowType, PouredType, RequestType DEF TryNextMode, CountsOK
  <2> QED BY <2>1, <2>2, <2>3
<1>8. CASE LogInAgain(k)
  <2>1. CallsOK'
    <3>1. "again" \in Stages
      BY DEF Stages
    <3> QED BY <1>1, <1>8, <3>1, GotoType DEF LogInAgain
  <2>2. SessionsOK'
    BY <1>1, <1>8, PouredType DEF LogInAgain, SessionsOK, SetMine, NoteLate
  <2>3. CountsOK'
    BY <1>1, <1>8 DEF LogInAgain, CountsOK
  <2> QED BY <2>1, <2>2, <2>3
<1>9. CASE Invalidate(k)
  <2>1. CallsOK'
    <3>1. [NewCall EXCEPT !.stage = "clearing"] \in CallRow
      BY NumbersAssumption DEF NewCall, CallRow, Stages
    <3> QED BY <1>1, <1>9, <3>1, SetRow DEF Invalidate
  <2>2. SessionsOK'
    BY <1>1, <1>9 DEF Invalidate, SessionsOK, SetMine, NoteLate, NoSession, Session
  <2>3. CountsOK'
    BY <1>1, <1>9 DEF Invalidate, CountsOK
  <2> QED BY <2>1, <2>2, <2>3
<1>10. CASE Refresh(k)
  <2>1. CallsOK'
    <3>1. "failed" \in Stages /\ "done" \in Stages
      BY DEF Stages, Ended
    <3> QED BY <1>1, <1>10, <3>1, EndType DEF Refresh
  <2>2. SessionsOK'
    BY <1>1, <1>10, RowType DEF Refresh, SessionsOK, Session
  <2>3. CountsOK'
    BY <1>1, <1>10 DEF Refresh, CountsOK
  <2> QED BY <2>1, <2>2, <2>3
<1>11. CASE ClearShared(k)
  <2>1. CallsOK'
    <3>1. "failed" \in Stages /\ "done" \in Stages
      BY DEF Stages, Ended
    <3> QED BY <1>1, <1>11, <3>1, EndType DEF ClearShared
  <2>2. SessionsOK'
    BY <1>1, <1>11 DEF ClearShared, SessionsOK, NoSession, Session
  <2>3. CountsOK'
    BY <1>1, <1>11 DEF ClearShared, CountsOK
  <2> QED BY <2>1, <2>2, <2>3
<1> QED BY <1>3, <1>4, <1>5, <1>6, <1>7, <1>8, <1>9, <1>10, <1>11 DEF Answer

LEMMA EnvironmentTypes ==
    ASSUME TypeOK, Environment
    PROVE  TypeOK'
<1> USE DEF provider, notes, fixed, allowance, sessions
<1>1. CallsOK /\ SessionsOK /\ CountsOK
  BY Parts
<1>2. SUFFICES CallsOK' /\ SessionsOK' /\ CountsOK'
  BY Parts DEF TypeOK, CallsOK, SessionsOK, CountsOK
<1>3. Event => events' \in 0 .. MaxEvents
  BY <1>1, NumbersAssumption DEF Event, CountsOK
<1>4. CASE LockExpires
  BY <1>1, <1>3, <1>4, CallsAssumption DEF LockExpires, CallsOK, SessionsOK, CountsOK
<1>5. CASE Idles
  <2>1. \A s \in Session : [s EXCEPT !.age = "idle"] \in Session
    BY DEF Session
  <2>2. SessionsOK'
    BY <1>1, <1>5, <2>1 DEF Idles, SessionsOK
  <2> QED BY <1>1, <1>3, <1>5, <2>2 DEF Idles, CallsOK, CountsOK
<1>6. CASE Midnight
  BY <1>1, <1>3, <1>6, NumbersAssumption DEF Midnight, Flying, CallsOK, SessionsOK, CountsOK
<1>7. ASSUME NEW t \in 1 .. issued, ProviderEnds(t) \/ Ages(t)
      PROVE  CallsOK' /\ SessionsOK' /\ CountsOK'
  BY <1>1, <1>3, <1>7 DEF ProviderEnds, Ages, CallsOK, SessionsOK, CountsOK
<1>8. ASSUME NEW c \in Clients, Crash(c)
      PROVE  CallsOK' /\ SessionsOK' /\ CountsOK'
  <2>1. [NewCall EXCEPT !.stage = "failed"] \in CallRow
    BY NumbersAssumption DEF NewCall, CallRow, Stages, Ended
  <2>2. CallsOK'
    BY <1>1, <1>8, <2>1 DEF Crash, CallsOK
  <2>3. SessionsOK'
    BY <1>1, <1>8 DEF Crash, SessionsOK, NoSession, Session
  <2>4. Cardinality(Running(c) \cap Flying) \in Nat
    <3>1. IsFiniteSet(Running(c) \cap Flying)
      BY CallsAssumption, FS_Subset DEF Flying
    <3> QED BY <3>1, FS_CardinalityType
  <2>5. CountsOK'
    BY <1>1, <1>3, <1>8, <2>4 DEF Crash, CountsOK
  <2> QED BY <2>2, <2>3, <2>5
<1> QED BY <1>4, <1>5, <1>6, <1>7, <1>8 DEF Environment

LEMMA TypesStep == TypeOK /\ [Next]_vars => TypeOK'
<1>1. TypeOK /\ UNCHANGED vars => TypeOK'
  BY DEF TypeOK, vars, sessions, provider, notes, allowance, fixed
<1> QED BY <1>1, AuthenticateTypes, AnswerTypes, EnvironmentTypes DEF Next

(* Every session in memory and in Redis, every call and every count is of  *)
(* its kind, whatever fails on the way.                                    *)
THEOREM SessionTypes == Spec => []TypeOK
BY TypesInit, TypesStep, PTL DEF Spec

-----------------------------------------------------------------------------
(* Requests sent.                                                          *)

Step(k) == Authenticate(k) \/ Answer(k)
Before == {"new", "loading", "waiting"} \cup Inside
After == {"sent", "ok", "error", "format", "expired"}

(* A step of a call touches the row and the count of no other call.        *)
LEMMA OthersKeep ==
    ASSUME TypeOK, NEW k \in Calls, NEW j \in Calls \ {k}, Step(k)
    PROVE  call'[j] = call[j] /\ sent'[j] = sent[j] /\ writes' = writes
<1> USE DEF TypeOK, Goto, End, Request, fixed, allowance
<1>1. CASE UseLocal(k)
  BY <1>1 DEF UseLocal
<1>2. CASE Enter(k)
  BY <1>2 DEF Enter
<1>3. CASE LoadShared(k)
  BY <1>3 DEF LoadShared
<1>4. CASE GiveUp(k)
  BY <1>4 DEF GiveUp
<1>5. CASE TakeLock(k)
  BY <1>5 DEF TakeLock
<1>6. CASE Reuse(k)
  BY <1>6 DEF Reuse
<1>7. CASE Login(k)
  BY <1>7 DEF Login
<1>8. CASE LookupFails(k)
  BY <1>8 DEF LookupFails
<1>9. CASE LoginSucceeds(k)
  BY <1>9 DEF LoginSucceeds
<1>10. CASE LoginFails(k)
  BY <1>10 DEF LoginFails
<1>11. CASE StoreLogin(k)
  BY <1>11 DEF StoreLogin
<1>12. CASE Release(k)
  BY <1>12 DEF Release
<1>13. CASE Handle(k)
  BY <1>13 DEF Handle
<1>14. CASE Lost(k)
  BY <1>14 DEF Lost
<1>15. CASE Succeed(k)
  BY <1>15 DEF Succeed
<1>16. CASE Refuse(k)
  BY <1>16 DEF Refuse
<1>17. CASE TryNextMode(k)
  BY <1>17 DEF TryNextMode
<1>18. CASE LogInAgain(k)
  BY <1>18 DEF LogInAgain
<1>19. CASE Invalidate(k)
  BY <1>19 DEF Invalidate
<1>20. CASE Refresh(k)
  BY <1>20 DEF Refresh
<1>21. CASE ClearShared(k)
  BY <1>21 DEF ClearShared
<1> QED
  BY <1>1, <1>2, <1>3, <1>4, <1>5, <1>6, <1>7, <1>8, <1>9, <1>10, <1>11, <1>12, <1>13, <1>14, <1>15, <1>16, <1>17, <1>18, <1>19, <1>20, <1>21
  DEF Step, Authenticate, Answer

(* The row that a call is left with.                                       *)
LEMMA GotoRow ==
    ASSUME TypeOK, NEW k \in Calls, NEW s, Goto(k, s)
    PROVE  /\ call'[k].stage = s /\ call'[k].round = call[k].round /\ call'[k].mode = call[k].mode
           /\ call'[k].token = call[k].token /\ call'[k].cookies = call[k].cookies
BY DEF TypeOK, CallRow, Goto

LEMMA EndRow ==
    ASSUME TypeOK, NEW k \in Calls, NEW s, End(k, s)
    PROVE  call'[k].stage = s /\ call'[k].round = 1 /\ call'[k].mode = 1
BY DEF TypeOK, CallRow, End, NewCall

LEMMA RequestRow ==
    ASSUME TypeOK, NEW k \in Calls, NEW t, NEW c, NEW m, Request(k, t, c, m)
    PROVE  \/ /\ call'[k].stage = "sent" /\ call'[k].token = t /\ call'[k].cookies = c
              /\ used' = used + 1 /\ received' = received /\ carried' = carried
           \/ /\ call'[k].stage = "failed"
              /\ used' = used /\ received' = received /\ carried' = carried
<1>1. CASE used < Limit
  <2>1. call \in [Calls -> CallRow]
    BY DEF TypeOK
  <2> QED BY <1>1, <2>1 DEF CallRow, Request
<1>2. CASE ~(used < Limit)
  <2>1. End(k, "failed") /\ used' = used /\ received' = received /\ carried' = carried
    BY <1>2 DEF Request, allowance
  <2> QED BY <2>1, EndRow
<1> QED BY <1>1, <1>2

(* What a call may have sent by the place it has reached.                  *)
Earlier(k) == IF call[k].round = 2 THEN Modes ELSE 0
SentOK(k) ==
    /\ k \in writes => call[k].round = 1 /\ Stage(k) \notin {"again", "format"}
    /\ Stage(k) = "new" => call[k].round = 1
    /\ Stage(k) \in Before => sent[k] <= Earlier(k)
    /\ Stage(k) \in After => sent[k] <= Earlier(k) + call[k].mode
    /\ Stage(k) = "again" => sent[k] <= Modes
    /\ sent[k] <= IF k \in writes THEN 1 ELSE 2 * Modes
SentInv == \A k \in Calls : SentOK(k)

LEMMA SentByRequest ==
    ASSUME TypeOK, NEW k \in Calls, NEW t, NEW c, NEW m \in 1 .. Modes,
           Request(k, t, c, m), writes' = writes, SentOK(k),
           sent[k] <= Earlier(k) + (m - 1), Stage(k) \in Before \cup {"format"}
    PROVE  SentOK(k)'
<1>1. /\ sent[k] \in Nat /\ call[k].round \in 1 .. 2 /\ call[k].mode \in 1 .. Modes
      /\ Modes \in Nat /\ sent \in [Calls -> Nat] /\ call \in [Calls -> CallRow]
  BY RowType, Parts, NumbersAssumption DEF CountsOK, CallsOK
<1>2. CASE used < Limit
  <2>1. call'[k].stage = "sent" /\ call'[k].mode = m /\ call'[k].round = call[k].round
        /\ sent'[k] = sent[k] + 1
    BY <1>1, <1>2 DEF Request, CallRow
  <2>3. sent'[k] <= Earlier(k) + m
    BY <1>1, <2>1 DEF Earlier
  <2>4. Earlier(k)' = Earlier(k)
    BY <2>1 DEF Earlier
  <2>5. k \in writes => sent'[k] <= 1
    BY <1>1, <2>1 DEF SentOK, Before, Inside, Stage, Earlier
  <2>6. k \notin writes => sent'[k] <= 2 * Modes
    <3>1. Earlier(k) \in Nat /\ Earlier(k) <= Modes
      BY <1>1 DEF Earlier
    <3>2. m <= Modes /\ m \in Nat /\ sent'[k] \in Nat
      BY <1>1, <2>1
    <3> QED BY <1>1, <2>3, <3>1, <3>2
  <2>7. k \in writes => call[k].round = 1
    BY DEF SentOK
  <2> QED
    BY <2>1, <2>3, <2>4, <2>5, <2>6, <2>7 DEF SentOK, Stage, Before, After, Inside
<1>3. CASE ~(used < Limit)
  <2>1. End(k, "failed") /\ sent' = sent
    BY <1>3 DEF Request
  <2>2. call'[k].stage = "failed" /\ call'[k].round = 1
    BY <2>1, EndRow
  <2> QED BY <2>1, <2>2 DEF SentOK, Stage, Before, After, Inside
<1> QED BY <1>2, <1>3

(* A step that sends nothing: within the login, into the handling of an    *)
(* answer, or to the end of the call.                                      *)
LEMMA SentBefore ==
    ASSUME NEW k \in Calls, SentOK(k), Stage(k) \in Before, call'[k].stage \in Inside \cup {"waiting"},
           call'[k].round = call[k].round, sent'[k] = sent[k], writes' = writes
    PROVE  SentOK(k)'
BY DEF SentOK, Stage, Before, After, Inside, Earlier

LEMMA SentEnd ==
    ASSUME NEW k \in Calls, SentOK(k),
           call'[k].stage \in Ended \cup {"refreshing", "clearing"},
           call'[k].round = 1, sent'[k] = sent[k], writes' = writes
    PROVE  SentOK(k)'
BY DEF SentOK, Stage, Before, After, Inside, Earlier, Ended

LEMMA SentByStep ==
    ASSUME TypeOK, NEW k \in Calls, Step(k), SentOK(k)
    PROVE  SentOK(k)'
<1>1. /\ sent[k] \in Nat /\ call[k].round \in 1 .. 2 /\ call[k].mode \in 1 .. Modes
      /\ Modes \in Nat /\ 1 \in 1 .. Modes /\ call \in [Calls -> CallRow]
  BY RowType, Parts, NumbersAssumption DEF CountsOK, CallsOK
<1> USE DEF fixed, allowance, sessions
<1>2. CASE UseLocal(k)
  <2>1. Request(k, Mine(k).token, Mine(k).cookies, 1) /\ writes' = writes /\ Stage(k) \in Before
    BY <1>2 DEF UseLocal, Before
  <2>2. sent[k] <= Earlier(k) + (1 - 1)
    BY <1>1, <2>1 DEF SentOK, Earlier
  <2> QED BY <1>1, <2>1, <2>2, SentByRequest
<1>3. CASE Enter(k)
  <2>1. CASE Stage(k) = "new"
    <3>1. call'[k].stage = "loading" /\ call'[k].round = 1
      BY <1>1, <1>3, <2>1 DEF Enter, CallRow
    <3> QED BY <1>3, <2>1, <3>1 DEF Enter, SentOK, Stage, Before, After, Inside, Earlier
  <2>2. CASE Stage(k) = "again"
    <3>1. call'[k].stage = "waiting" /\ call'[k].round = 2
      BY <1>1, <1>3, <2>2 DEF Enter, CallRow
    <3> QED BY <1>3, <2>2, <3>1 DEF Enter, SentOK, Stage, Before, After, Inside, Earlier
  <2> QED BY <1>3, <2>1, <2>2 DEF Enter
<1>4. CASE LoadShared(k)
  <2>1. CASE Fresh(shared)
    <3>1. /\ Request(k, shared.token, shared.cookies, 1)
          /\ writes' = writes /\ Stage(k) \in Before
      BY <1>4, <2>1 DEF LoadShared, Before
    <3>2. sent[k] <= Earlier(k) + (1 - 1)
      BY <1>1, <3>1 DEF SentOK, Earlier
    <3> QED BY <1>1, <3>1, <3>2, SentByRequest
  <2>2. CASE ~Fresh(shared)
    BY <1>4, <2>2, GotoRow, SentBefore DEF LoadShared, Before
  <2> QED BY <2>1, <2>2
<1>5. CASE GiveUp(k)
  BY <1>5, EndRow, SentEnd DEF GiveUp, Ended
<1>6. CASE TakeLock(k)
  BY <1>6, GotoRow, SentBefore DEF TakeLock, Before, Inside
<1>7. CASE Reuse(k)
  <2>1. call'[k].stage \in Inside /\ call'[k].round = call[k].round
    BY <1>1, <1>7, GotoRow DEF Reuse, Inside, CallRow
  <2> QED BY <1>7, <2>1, SentBefore DEF Reuse, Before, Inside
<1>8. CASE Login(k)
  <2>1. call'[k].stage \in Inside /\ call'[k].round = call[k].round
    BY <1>1, <1>8, GotoRow DEF Login, Inside, CallRow
  <2> QED BY <1>8, <2>1, SentBefore DEF Login, Before, Inside
<1>9. CASE LookupFails(k)
  <2>1. call'[k].stage \in Inside /\ call'[k].round = call[k].round
    BY <1>1, <1>9, GotoRow DEF LookupFails, Inside, CallRow
  <2> QED BY <1>9, <2>1, SentBefore DEF LookupFails, Before, Inside
<1>10. CASE LoginSucceeds(k)
  <2>1. call'[k].stage \in Inside /\ call'[k].round = call[k].round
    BY <1>1, <1>10, GotoRow DEF LoginSucceeds, Inside, CallRow
  <2> QED BY <1>10, <2>1, SentBefore DEF LoginSucceeds, Before, Inside
<1>11. CASE LoginFails(k)
  <2>1. call'[k].stage \in Inside /\ call'[k].round = call[k].round
    BY <1>1, <1>11, GotoRow DEF LoginFails, Inside, CallRow
  <2> QED BY <1>11, <2>1, SentBefore DEF LoginFails, Before, Inside
<1>12. CASE StoreLogin(k)
  <2>1. call'[k].stage = "leaving" /\ call'[k].round = call[k].round
    <3>1. CASE Goto(k, "leaving")
      BY <3>1, GotoRow
    <3>2. CASE call' = [call EXCEPT ![k] = [@ EXCEPT !.stage = "leaving", !.token = 0]]
      BY <1>1, <3>2 DEF CallRow
    <3> QED BY <1>12, <3>1, <3>2 DEF StoreLogin
  <2> QED BY <1>12, <2>1, SentBefore DEF StoreLogin, Before, Inside
<1>13. CASE Release(k)
  <2>1. CASE call[k].token # 0
    <3>1. /\ Request(k, call[k].token, Mine(k).cookies, 1)
          /\ writes' = writes /\ Stage(k) \in Before
      BY <1>13, <2>1 DEF Release, Before, Inside
    <3>2. sent[k] <= Earlier(k) + (1 - 1)
      BY <1>1, <3>1 DEF SentOK, Earlier
    <3> QED BY <1>1, <3>1, <3>2, SentByRequest
  <2>2. CASE call[k].token = 0
    BY <1>13, <2>2, EndRow, SentEnd DEF Release, Ended
  <2> QED BY <2>1, <2>2
<1>14. CASE Handle(k)
  <2>1. /\ call'[k].stage \in {"ok", "error", "format", "expired"}
        /\ k \in writes => call'[k].stage # "format"
        /\ call'[k].round = call[k].round /\ call'[k].mode = call[k].mode
    BY <1>1, <1>14, GotoRow DEF Handle, Outcomes
  <2> QED BY <1>14, <2>1 DEF Handle, SentOK, Stage, Before, After, Inside, Earlier
<1>15. CASE Lost(k)
  BY <1>15, EndRow, SentEnd DEF Lost, Ended
<1>16. CASE Succeed(k)
  <2>1. call'[k].stage \in {"done", "refreshing"} /\ call'[k].round = 1
    BY <1>1, <1>16, EndRow DEF Succeed, NewCall
  <2> QED BY <1>16, <2>1, SentEnd DEF Succeed, Ended
<1>17. CASE Refuse(k)
  BY <1>17, EndRow, SentEnd DEF Refuse, Ended
<1>18. CASE TryNextMode(k)
  <2>1. call[k].mode + 1 \in 1 .. Modes
    BY <1>1, <1>18 DEF TryNextMode
  <2>2. sent[k] <= Earlier(k) + ((call[k].mode + 1) - 1)
    BY <1>1, <1>18 DEF TryNextMode, SentOK, Earlier, After
  <2> QED BY <1>18, <2>1, <2>2, SentByRequest DEF TryNextMode
<1>19. CASE LogInAgain(k)
  <2>1. call'[k].stage = "again" /\ call'[k].round = 1 /\ k \notin writes
    BY <1>1, <1>19, GotoRow DEF LogInAgain, MayRetry
  <2>2. sent[k] <= Modes
    BY <1>1, <1>19 DEF LogInAgain, Refused, MayRetry, SentOK, Stage, After, Earlier
  <2> QED BY <1>19, <2>1, <2>2 DEF LogInAgain, SentOK, Stage, Before, After, Inside, Earlier
<1>20. CASE Invalidate(k)
  <2>1. call'[k].stage = "clearing" /\ call'[k].round = 1
    BY <1>1, <1>20 DEF Invalidate, NewCall
  <2> QED BY <1>20, <2>1, SentEnd DEF Invalidate
<1>21. CASE Refresh(k)
  BY <1>21, EndRow, SentEnd DEF Refresh, Ended
<1>22. CASE ClearShared(k)
  BY <1>22, EndRow, SentEnd DEF ClearShared, Ended
<1> QED
  BY <1>2, <1>3, <1>4, <1>5, <1>6, <1>7, <1>8, <1>9, <1>10, <1>11, <1>12, <1>13, <1>14, <1>15, <1>16, <1>17, <1>18, <1>19, <1>20, <1>21, <1>22
  DEF Step, Authenticate, Answer

LEMMA SentStep == TypeOK /\ SentInv /\ [Next]_vars => SentInv'
<1> SUFFICES ASSUME TypeOK, SentInv, [Next]_vars, NEW j \in Calls PROVE SentOK(j)'
  BY DEF SentInv
<1>1. SentOK(j)
  BY DEF SentInv
<1>2. ASSUME NEW k \in Calls, Step(k) PROVE SentOK(j)'
  <2>1. CASE j = k
    BY <1>1, <1>2, <2>1, SentByStep
  <2>2. CASE j # k
    BY <1>1, <1>2, <2>2, OthersKeep DEF SentOK, Stage, Earlier
  <2> QED BY <2>1, <2>2
<1>3. CASE Environment
  <2>1. ASSUME NEW c \in Clients, Crash(c) PROVE SentOK(j)'
    <3>1. sent' = sent /\ writes' = writes
          /\ call'[j] = IF j \in Running(c) THEN [NewCall EXCEPT !.stage = "failed"] ELSE call[j]
      BY <2>1 DEF Crash
    <3>2. CASE j \in Running(c)
      <4>1. call'[j].stage = "failed" /\ call'[j].round = 1
        BY <3>1, <3>2 DEF NewCall
      <4> QED BY <1>1, <3>1, <4>1 DEF SentOK, Stage, Before, After, Inside
    <3>3. CASE j \notin Running(c)
      BY <1>1, <3>1, <3>3 DEF SentOK, Stage, Earlier
    <3> QED BY <3>2, <3>3
  <2>2. call' = call /\ sent' = sent /\ writes' = writes => SentOK(j)'
    BY <1>1 DEF SentOK, Stage, Earlier
  <2> QED
    BY <1>3, <2>1, <2>2 DEF Environment, LockExpires, Idles, Midnight, ProviderEnds, Ages
<1>4. CASE UNCHANGED vars
  BY <1>1, <1>4 DEF vars, fixed, SentOK, Stage, Earlier
<1> QED BY <1>2, <1>3, <1>4 DEF Next, Step

(* "State-changing calls are never automatically replayed"                 *)
(* (docs/cdas-reintegration.md:50): whatever expires, is lost or crashes,  *)
(* a write is sent once and a read in each format with two sessions.       *)
THEOREM NeverReplayed == Spec => []SentAsPromised
<1>1. Init => SentInv
  BY NumbersAssumption DEF Init, SentInv, SentOK, NewCall, Stage, Before, After, Inside, Earlier
<1>2. SentInv => SentAsPromised
  BY DEF SentInv, SentOK, SentAsPromised
<1> QED BY <1>1, <1>2, TypesInit, TypesStep, SentStep, PTL DEF Spec

-----------------------------------------------------------------------------
(* Logins exclude each other.                                              *)

(* Only TakeLock lets a call in, and only TakeLock and Release touch the   *)
(* lock and the note of who lost it.                                       *)
LEMMA WhoEnters ==
    ASSUME TypeOK, NEW k \in Calls, Step(k)
    PROVE  \/ TakeLock(k) \/ Release(k)
           \/ /\ lock' = lock /\ overtaken' = overtaken
              /\ call'[k].stage \in Inside => Stage(k) \in Inside
<1> DEFINE Same == /\ lock' = lock /\ overtaken' = overtaken
                   /\ call'[k].stage \in Inside => Stage(k) \in Inside
<1> USE DEF provider, notes, sessions
<1>1. call \in [Calls -> CallRow]
  BY DEF TypeOK
<1>2. CASE UseLocal(k)
  <2>1. call'[k].stage \in {"sent", "failed", "waiting"}
    BY <1>2, GotoRow, RequestRow DEF UseLocal
  <2> QED BY <1>2, <2>1 DEF UseLocal, Inside
<1>3. CASE Enter(k)
  <2>1. call'[k].stage \in {"loading", "waiting"}
    BY <1>1, <1>3 DEF Enter, CallRow
  <2> QED BY <1>3, <2>1 DEF Enter, Inside
<1>4. CASE LoadShared(k)
  <2>1. call'[k].stage \in {"sent", "failed", "waiting"}
    BY <1>4, GotoRow, RequestRow DEF LoadShared
  <2> QED BY <1>4, <2>1 DEF LoadShared, Inside
<1>5. CASE GiveUp(k)
  BY <1>5, EndRow DEF GiveUp, Inside
<1>6. CASE Reuse(k)
  BY <1>6 DEF Reuse, Inside
<1>7. CASE Login(k)
  BY <1>7 DEF Login, Inside
<1>8. CASE LookupFails(k)
  BY <1>8 DEF LookupFails, Inside
<1>9. CASE LoginSucceeds(k)
  BY <1>9 DEF LoginSucceeds, Inside
<1>10. CASE LoginFails(k)
  BY <1>10 DEF LoginFails, Inside
<1>11. CASE StoreLogin(k)
  BY <1>11 DEF StoreLogin, Inside
<1>12. CASE Handle(k)
  <2>1. call'[k].stage \in {"ok", "error", "format", "expired"}
    BY <1>12, GotoRow DEF Handle, Outcomes
  <2> QED BY <1>12, <2>1 DEF Handle, Inside
<1>13. CASE Lost(k)
  BY <1>13, EndRow DEF Lost, Inside
<1>14. CASE Succeed(k)
  <2>1. call'[k].stage \in {"done", "refreshing", "clearing"}
    BY <1>1, <1>14, EndRow DEF Succeed, NewCall
  <2> QED BY <1>14, <2>1 DEF Succeed, Inside
<1>15. CASE Refuse(k)
  BY <1>15, EndRow DEF Refuse, Inside
<1>16. CASE TryNextMode(k)
  <2>1. call'[k].stage \in {"sent", "failed", "waiting"}
    BY <1>16, GotoRow, RequestRow DEF TryNextMode
  <2> QED BY <1>16, <2>1 DEF TryNextMode, Inside
<1>17. CASE LogInAgain(k)
  BY <1>17, GotoRow DEF LogInAgain, Inside
<1>18. CASE Invalidate(k)
  <2>1. call'[k].stage \in {"done", "refreshing", "clearing"}
    BY <1>1, <1>18, EndRow DEF Invalidate, NewCall
  <2> QED BY <1>18, <2>1 DEF Invalidate, Inside
<1>19. CASE Refresh(k)
  BY <1>19, EndRow DEF Refresh, Inside
<1>20. CASE ClearShared(k)
  BY <1>20, EndRow DEF ClearShared, Inside
<1> QED
  BY <1>2, <1>3, <1>4, <1>5, <1>6, <1>7, <1>8, <1>9, <1>10, <1>11, <1>12, <1>13, <1>14, <1>15, <1>16, <1>17, <1>18, <1>19, <1>20
  DEF Step, Authenticate, Answer

LEMMA Untouched ==
    ASSUME Environment \/ UNCHANGED vars
    PROVE  \/ \E c \in Clients : Crash(c)
           \/ /\ UNCHANGED <<call, holder, writes, sent>>
              /\ \/ LockExpires
                 \/ UNCHANGED <<lock, overtaken>>
BY DEF Environment, LockExpires, Idles, Midnight, ProviderEnds, Ages, vars, sessions, notes,
       provider, fixed, allowance

LEMMA CrashRows ==
    ASSUME TypeOK, NEW c \in Clients, Crash(c), NEW j \in Calls
    PROVE  /\ j \in Running(c) => call'[j].stage = "failed"
           /\ j \notin Running(c) => call'[j] = call[j]
BY DEF Crash, NewCall

LockInv == \A k \in Calls : Stage(k) \in Inside /\ k \notin overtaken => lock = k

LEMMA LockStep == TypeOK /\ LockInv /\ [Next]_vars => LockInv'
<1> SUFFICES ASSUME TypeOK, LockInv, [Next]_vars, NEW j \in Calls,
                    call'[j].stage \in Inside, j \notin overtaken'
             PROVE  lock' = j
  BY DEF LockInv, Stage
<1>1. ASSUME NEW k \in Calls, Step(k) PROVE lock' = j
  <2>1. CASE TakeLock(k)
    <3>1. CASE j = k
      BY <2>1, <3>1 DEF TakeLock
    <3>2. CASE j # k
      <4>1. call'[j] = call[j] /\ j \notin overtaken
        BY <1>1, <2>1, <3>2, OthersKeep DEF TakeLock
      <4> QED BY <2>1, <4>1, CallsAssumption DEF TakeLock, LockInv, Stage
    <3> QED BY <3>1, <3>2
  <2>2. CASE Release(k)
    <3>1. call'[k].stage \in {"sent", "failed"}
      BY <2>2, EndRow, RequestRow DEF Release
    <3>2. j # k
      BY <3>1 DEF Inside
    <3>3. call'[j] = call[j] /\ j \notin overtaken
      BY <1>1, <2>2, <3>2, OthersKeep DEF Release, notes
    <3>4. lock = j
      BY <3>3 DEF LockInv, Stage
    <3> QED BY <2>2, <3>2, <3>4 DEF Release
  <2>3. CASE /\ lock' = lock /\ overtaken' = overtaken
             /\ call'[k].stage \in Inside => Stage(k) \in Inside
    <3>1. CASE j = k
      BY <2>3, <3>1 DEF LockInv
    <3>2. CASE j # k
      BY <1>1, <2>3, <3>2, OthersKeep DEF LockInv, Stage
    <3> QED BY <3>1, <3>2
  <2> QED BY <1>1, <2>1, <2>2, <2>3, WhoEnters
<1>2. CASE Environment \/ UNCHANGED vars
  <2>1. ASSUME NEW c \in Clients, Crash(c) PROVE lock' = j
    <3>1. j \notin Running(c)
      BY <2>1, CrashRows DEF Inside
    <3>2. call'[j] = call[j]
      BY <2>1, <3>1, CrashRows
    <3> QED BY <2>1, <3>2 DEF Crash, notes, LockInv, Stage
  <2>2. CASE call' = call /\ LockExpires
    BY <2>2 DEF LockExpires, LockInv, Stage
  <2>3. CASE UNCHANGED <<call, lock, overtaken>>
    BY <2>3 DEF LockInv, Stage
  <2> QED BY <1>2, <2>1, <2>2, <2>3, Untouched
<1> QED BY <1>1, <1>2 DEF Next, Step

(* A call that still believes in its lock holds it: the release deletes    *)
(* its own value only, so a lock that expired during a slow login never    *)
(* opens the one taken after it.                                           *)
THEOREM LoginsExclude == Spec => []LoginsExclusive
<1>1. Init => LockInv
  BY DEF Init, LockInv, Stage, NewCall, Inside
<1>2. LockInv => LoginsExclusive
  BY DEF LockInv, LoginsExclusive
<1> QED BY <1>1, <1>2, TypesInit, TypesStep, LockStep, PTL DEF Spec

-----------------------------------------------------------------------------
(* The allowance of the day.                                               *)

(* A step counts a request and sends it, or lets one arrive that was       *)
(* counted, or touches neither.                                            *)
Stays(k) == /\ used' = used /\ received' = received
            /\ call'[k].stage \in InFlight <=> Stage(k) \in InFlight
Departs(k) == /\ used' = used + 1 /\ received' = received
              /\ Stage(k) \notin InFlight /\ call'[k].stage \in InFlight
Lands(k) == /\ used' = used /\ received' \in {received, received + 1}
            /\ Stage(k) \in InFlight /\ call'[k].stage \notin InFlight

LEMMA HowItMoves ==
    ASSUME TypeOK, NEW k \in Calls, Step(k)
    PROVE  carried' = carried /\ (Stays(k) \/ Departs(k) \/ Lands(k))
<1> USE DEF allowance
<1>1. call \in [Calls -> CallRow]
  BY DEF TypeOK
<1>2. CASE UseLocal(k)
  BY <1>2, RequestRow DEF UseLocal, Stays, Departs, Lands, InFlight
<1>3. CASE Enter(k)
  <2>1. call'[k].stage \in {"loading", "waiting"}
    BY <1>1, <1>3 DEF Enter, CallRow
  <2> QED BY <1>3, <2>1 DEF Enter, Stays, Departs, Lands, InFlight
<1>4. CASE LoadShared(k)
  BY <1>4, RequestRow, GotoRow DEF LoadShared, Stays, Departs, Lands, InFlight
<1>5. CASE GiveUp(k)
  BY <1>5, EndRow DEF GiveUp, Stays, Departs, Lands, InFlight
<1>6. CASE TakeLock(k)
  BY <1>6, GotoRow DEF TakeLock, Stays, Departs, Lands, InFlight, Refused
<1>7. CASE Reuse(k)
  <2>1. call'[k].stage \in {"leaving", "storing"}
    BY <1>1, <1>7 DEF Reuse, CallRow
  <2> QED BY <1>7, <2>1 DEF Reuse, Stays, Departs, Lands, InFlight
<1>8. CASE Login(k)
  <2>1. CASE used < Limit
    <3>1. call'[k].stage = "login"
      BY <1>8, <2>1, GotoRow DEF Login
    <3> QED BY <1>8, <2>1, <3>1 DEF Login, Stays, Departs, Lands, InFlight
  <2>2. CASE ~(used < Limit)
    <3>1. call'[k].stage = "leaving"
      BY <1>1, <1>8, <2>2 DEF Login, CallRow
    <3> QED BY <1>8, <2>2, <3>1 DEF Login, Stays, Departs, Lands, InFlight
  <2> QED BY <2>1, <2>2
<1>9. CASE LookupFails(k)
  <2>1. call'[k].stage \in {"leaving", "storing"}
    BY <1>1, <1>9 DEF LookupFails, CallRow
  <2> QED BY <1>9, <2>1 DEF LookupFails, Stays, Departs, Lands, InFlight
<1>10. CASE LoginSucceeds(k)
  <2>1. call'[k].stage \in {"leaving", "storing"}
    BY <1>1, <1>10 DEF LoginSucceeds, CallRow
  <2> QED BY <1>10, <2>1 DEF LoginSucceeds, Stays, Departs, Lands, InFlight
<1>11. CASE LoginFails(k)
  <2>1. call'[k].stage \in {"leaving", "storing"}
    BY <1>1, <1>11 DEF LoginFails, CallRow
  <2> QED BY <1>11, <2>1 DEF LoginFails, Stays, Departs, Lands, InFlight
<1>12. CASE StoreLogin(k)
  <2>1. call'[k].stage = "leaving"
    <3>1. CASE Goto(k, "leaving")
      BY <3>1, GotoRow
    <3>2. CASE call' = [call EXCEPT ![k] = [@ EXCEPT !.stage = "leaving", !.token = 0]]
      BY <1>1, <3>2 DEF CallRow
    <3> QED BY <1>12, <3>1, <3>2 DEF StoreLogin
  <2> QED BY <1>12, <2>1 DEF StoreLogin, Stays, Departs, Lands, InFlight
<1>13. CASE Release(k)
  BY <1>13, RequestRow, EndRow DEF Release, Stays, Departs, Lands, InFlight, Inside
<1>14. CASE Handle(k)
  <2>1. call'[k].stage \in {"ok", "error", "format", "expired"}
    BY <1>14, GotoRow DEF Handle, Outcomes
  <2> QED BY <1>14, <2>1 DEF Handle, Stays, Departs, Lands, InFlight
<1>15. CASE Lost(k)
  BY <1>15, EndRow DEF Lost, Stays, Departs, Lands, InFlight
<1>16. CASE Succeed(k)
  <2>1. call'[k].stage \in {"done", "refreshing", "clearing"}
    BY <1>1, <1>16, EndRow DEF Succeed, NewCall
  <2> QED BY <1>16, <2>1 DEF Succeed, Stays, Departs, Lands, InFlight, Refused
<1>17. CASE Refuse(k)
  BY <1>17, EndRow DEF Refuse, Stays, Departs, Lands, InFlight
<1>18. CASE TryNextMode(k)
  BY <1>18, RequestRow DEF TryNextMode, Stays, Departs, Lands, InFlight
<1>19. CASE LogInAgain(k)
  BY <1>19, GotoRow DEF LogInAgain, Stays, Departs, Lands, InFlight, Refused
<1>20. CASE Invalidate(k)
  <2>1. call'[k].stage \in {"done", "refreshing", "clearing"}
    BY <1>1, <1>20, EndRow DEF Invalidate, NewCall
  <2> QED BY <1>20, <2>1 DEF Invalidate, Stays, Departs, Lands, InFlight, Refused
<1>21. CASE Refresh(k)
  BY <1>21, EndRow DEF Refresh, Stays, Departs, Lands, InFlight
<1>22. CASE ClearShared(k)
  BY <1>22, EndRow DEF ClearShared, Stays, Departs, Lands, InFlight
<1> QED
  BY <1>2, <1>3, <1>4, <1>5, <1>6, <1>7, <1>8, <1>9, <1>10, <1>11, <1>12, <1>13, <1>14, <1>15, <1>16, <1>17, <1>18, <1>19, <1>20, <1>21, <1>22
  DEF Step, Authenticate, Answer

(* What has arrived and what is still on its way was counted today, or     *)
(* was on its way at midnight.                                             *)
AllowanceInv == received + Cardinality(Flying) <= used + Cardinality(carried)

LEMMA Counts ==
    ASSUME TypeOK
    PROVE  /\ IsFiniteSet(Flying) /\ Cardinality(Flying) \in Nat
           /\ IsFiniteSet(carried) /\ Cardinality(carried) \in Nat
           /\ used \in Nat /\ used <= Limit /\ received \in Nat /\ Limit \in Nat
<1>1. IsFiniteSet(Flying) /\ IsFiniteSet(carried)
  BY CallsAssumption, FS_Subset DEF Flying, TypeOK
<1>2. used \in Nat /\ used <= Limit /\ received \in Nat /\ Limit \in Nat
  BY NumbersAssumption DEF TypeOK
<1> QED BY <1>1, <1>2, FS_CardinalityType

LEMMA AllowanceByCall ==
    ASSUME TypeOK, AllowanceInv, NEW k \in Calls, Step(k)
    PROVE  AllowanceInv'
<1>1. \A j \in Calls \ {k} : call'[j] = call[j]
  BY OthersKeep
<1>2. carried' = carried /\ (Stays(k) \/ Departs(k) \/ Lands(k))
  BY HowItMoves
<1>3. CASE Stays(k)
  <2>1. Flying' = Flying
    BY <1>1, <1>3 DEF Flying, Stays, Stage
  <2> QED BY <1>2, <1>3, <2>1, Counts DEF AllowanceInv, Stays
<1>4. CASE Departs(k)
  <2>1. Flying' = Flying \cup {k} /\ k \notin Flying
    BY <1>1, <1>4 DEF Flying, Departs, Stage
  <2>2. Cardinality(Flying') = Cardinality(Flying) + 1
    BY <2>1, Counts, FS_AddElement
  <2> QED BY <1>2, <1>4, <2>2, Counts DEF AllowanceInv, Departs
<1>5. CASE Lands(k)
  <2>1. Flying' = Flying \ {k} /\ k \in Flying
    BY <1>1, <1>5 DEF Flying, Lands, Stage
  <2>2. Cardinality(Flying') = Cardinality(Flying) - 1
    BY <2>1, Counts, FS_RemoveElement
  <2> QED BY <1>2, <1>5, <2>2, Counts DEF AllowanceInv, Lands
<1> QED BY <1>2, <1>3, <1>4, <1>5

LEMMA AllowanceByCrash ==
    ASSUME TypeOK, AllowanceInv, NEW c \in Clients, Crash(c)
    PROVE  AllowanceInv'
<1>1. Flying' = Flying \ Running(c)
  BY CrashRows DEF Flying, Stage, InFlight
<1>2. Cardinality(Flying') = Cardinality(Flying) - Cardinality(Flying \cap Running(c))
  BY <1>1, Counts, FS_Difference
<1>3. /\ used' = used /\ carried' = carried
      /\ received' \in received .. received + Cardinality(Flying \cap Running(c))
  <2>1. Running(c) \cap Flying = Flying \cap Running(c)
    OBVIOUS
  <2> QED BY <2>1 DEF Crash
<1>4. Cardinality(Flying \cap Running(c)) \in Nat
  <2>1. IsFiniteSet(Flying \cap Running(c))
    BY Counts, FS_Subset
  <2> QED BY <2>1, FS_CardinalityType
<1> QED BY <1>2, <1>3, <1>4, Counts DEF AllowanceInv

LEMMA AllowanceStep == TypeOK /\ AllowanceInv /\ [Next]_vars => AllowanceInv'
<1> SUFFICES ASSUME TypeOK, AllowanceInv, [Next]_vars PROVE AllowanceInv'
  OBVIOUS
<1>1. CASE Midnight
  <2>1. Flying' = Flying
    BY <1>1 DEF Midnight, Flying, Stage
  <2> QED BY <1>1, <2>1, Counts DEF Midnight, AllowanceInv
<1>2. CASE UNCHANGED <<call, allowance>>
  <2>1. Flying' = Flying
    BY <1>2 DEF Flying, Stage
  <2> QED BY <1>2, <2>1 DEF AllowanceInv, allowance
<1>3. CASE Environment
  BY <1>1, <1>2, <1>3, AllowanceByCrash
  DEF Environment, LockExpires, Idles, ProviderEnds, Ages
<1> QED BY <1>2, <1>3, AllowanceByCall DEF Next, Step, vars

(* However many processes and retries: the provider receives no more       *)
(* requests in a day than the allowance, but for those that were on their  *)
(* way at midnight.                                                        *)
THEOREM AllowanceKept == Spec => []WithinAllowance
<1>1. Init => AllowanceInv
  <2>1. ASSUME Init PROVE Flying = {}
    BY <2>1 DEF Init, Flying, Stage, NewCall, InFlight
  <2> QED BY <2>1, FS_EmptySet DEF Init, AllowanceInv
<1>2. TypeOK /\ AllowanceInv => WithinAllowance
  BY Counts DEF AllowanceInv, WithinAllowance
<1> QED BY <1>1, <1>2, TypesInit, TypesStep, AllowanceStep, PTL DEF Spec

-----------------------------------------------------------------------------
(* The session that is stored whole.                                       *)

(* A call within a login holds its client.                                 *)
Holding == {"loading", "waiting"} \cup Inside
HoldInv == \A k \in Calls : Stage(k) \in Holding => holder[ClientOf[k]] = k

LEMMA WhoHolds ==
    ASSUME TypeOK, NEW k \in Calls, Step(k)
    PROVE  \/ Enter(k)
           \/ Stage(k) \in Holding /\ call'[k].stage \notin Holding /\ FreeClient(k)
           \/ holder' = holder /\ (call'[k].stage \in Holding => Stage(k) \in Holding)
<1> USE DEF sessions
<1>1. call \in [Calls -> CallRow]
  BY DEF TypeOK
<1>2. CASE UseLocal(k)
  BY <1>2, RequestRow DEF UseLocal, Holding, Inside
<1>3. CASE LoadShared(k)
  BY <1>3, RequestRow, GotoRow DEF LoadShared, Holding, Inside
<1>4. CASE GiveUp(k)
  BY <1>4, EndRow DEF GiveUp, Holding, Inside
<1>5. CASE TakeLock(k)
  BY <1>5, GotoRow DEF TakeLock, Holding, Inside
<1>6. CASE Reuse(k)
  BY <1>6 DEF Reuse, Holding, Inside
<1>7. CASE Login(k)
  BY <1>7 DEF Login, Holding, Inside
<1>8. CASE LookupFails(k)
  BY <1>8 DEF LookupFails, Holding, Inside
<1>9. CASE LoginSucceeds(k)
  BY <1>9 DEF LoginSucceeds, Holding, Inside
<1>10. CASE LoginFails(k)
  BY <1>10 DEF LoginFails, Holding, Inside
<1>11. CASE StoreLogin(k)
  BY <1>11 DEF StoreLogin, Holding, Inside
<1>12. CASE Release(k)
  BY <1>12, RequestRow, EndRow DEF Release, Holding, Inside
<1>13. CASE Handle(k)
  <2>1. call'[k].stage \in {"ok", "error", "format", "expired"}
    BY <1>13, GotoRow DEF Handle, Outcomes
  <2> QED BY <1>13, <2>1 DEF Handle, Holding, Inside
<1>14. CASE Lost(k)
  BY <1>14, EndRow DEF Lost, Holding, Inside
<1>15. CASE Succeed(k)
  <2>1. call'[k].stage \in {"done", "refreshing", "clearing"}
    BY <1>1, <1>15, EndRow DEF Succeed, NewCall
  <2> QED BY <1>15, <2>1 DEF Succeed, Holding, Inside
<1>16. CASE Refuse(k)
  BY <1>16, EndRow DEF Refuse, Holding, Inside
<1>17. CASE TryNextMode(k)
  BY <1>17, RequestRow DEF TryNextMode, Holding, Inside
<1>18. CASE LogInAgain(k)
  BY <1>18, GotoRow DEF LogInAgain, Holding, Inside
<1>19. CASE Invalidate(k)
  <2>1. call'[k].stage \in {"done", "refreshing", "clearing"}
    BY <1>1, <1>19, EndRow DEF Invalidate, NewCall
  <2> QED BY <1>19, <2>1 DEF Invalidate, Holding, Inside
<1>20. CASE Refresh(k)
  BY <1>20, EndRow DEF Refresh, Holding, Inside
<1>21. CASE ClearShared(k)
  BY <1>21, EndRow DEF ClearShared, Holding, Inside
<1> QED
  BY <1>2, <1>3, <1>4, <1>5, <1>6, <1>7, <1>8, <1>9, <1>10, <1>11, <1>12, <1>13, <1>14, <1>15, <1>16, <1>17, <1>18, <1>19, <1>20, <1>21
  DEF Step, Authenticate, Answer

LEMMA HoldStep == TypeOK /\ HoldInv /\ [Next]_vars => HoldInv'
<1> SUFFICES ASSUME TypeOK, HoldInv, [Next]_vars, NEW j \in Calls, call'[j].stage \in Holding
             PROVE  holder'[ClientOf[j]] = j
  BY DEF HoldInv, Stage
<1>1. /\ holder \in [Clients -> Calls \cup {NoCall}] /\ NoCall \notin Calls
      /\ \A k \in Calls : ClientOf[k] \in Clients
  BY CallsAssumption DEF TypeOK
<1>2. ASSUME NEW k \in Calls, Step(k) PROVE holder'[ClientOf[j]] = j
  <2>1. j # k => call'[j] = call[j]
    BY <1>2, OthersKeep
  <2>2. j # k => holder[ClientOf[j]] = j
    BY <2>1 DEF HoldInv, Stage
  <2>3. CASE Enter(k)
    BY <1>1, <2>2, <2>3 DEF Enter
  <2>4. CASE Stage(k) \in Holding /\ call'[k].stage \notin Holding /\ FreeClient(k)
    <3>1. j # k /\ holder[ClientOf[k]] = k
      BY <2>4 DEF HoldInv
    <3> QED BY <1>1, <2>2, <2>4, <3>1 DEF FreeClient
  <2>5. CASE holder' = holder /\ (call'[k].stage \in Holding => Stage(k) \in Holding)
    BY <2>2, <2>5 DEF HoldInv
  <2> QED BY <1>2, <2>3, <2>4, <2>5, WhoHolds
<1>3. CASE Environment \/ UNCHANGED vars
  <2>1. ASSUME NEW c \in Clients, Crash(c) PROVE holder'[ClientOf[j]] = j
    <3>1. j \notin Running(c) /\ call'[j] = call[j]
      BY <2>1, CrashRows DEF Holding, Inside
    <3>2. ClientOf[j] # c
      BY <3>1 DEF Running, Ended, Holding, Inside, Stage
    <3> QED BY <1>1, <2>1, <3>1, <3>2 DEF Crash, HoldInv, Stage
  <2> QED BY <1>3, <2>1, Untouched DEF HoldInv, Stage
<1> QED BY <1>2, <1>3 DEF Next, Step

(* A session is whole when its cookies are of its token's login.  While no *)
(* answer has come late, every session kept anywhere is whole, and a call  *)
(* that uses one has that login's cookies or none.                         *)
Whole(x) == x.cookies = x.token
WholeRow(k) ==
    /\ Stage(k) \in After => call[k].cookies \in {0, call[k].token}
    /\ Stage(k) \in {"storing", "refreshing"} => call[k].cookies = call[k].token
    /\ Stage(k) \in {"storing", "leaving"} /\ call[k].token # 0
       => Mine(k).token \in {0, call[k].token}
WholeInv ==
    late = {} => /\ Whole(shared)
                 /\ \A c \in Clients : Whole(local[c])
                 /\ \A k \in Calls : WholeRow(k)

LEMMA PouredWhole ==
    ASSUME TypeOK, NEW k \in Calls, Whole(Mine(k)), call[k].cookies \in {0, call[k].token},
           NoteLate(k), late' = {}
    PROVE  /\ Poured(k) \in Session /\ Whole(Poured(k))
           /\ Poured(k).token = Mine(k).token /\ call[k].token = Mine(k).token
<1>1. call[k].token = Mine(k).token
  BY DEF NoteLate
<1>2. Mine(k) \in Session
  BY MineType, Parts
<1>3. Poured(k) \in Session
  BY PouredType, Parts
<1>4. CASE call[k].cookies # 0
  BY <1>1, <1>2, <1>3, <1>4 DEF Poured, Whole, Session
<1>5. CASE call[k].cookies = 0
  BY <1>1, <1>3, <1>5 DEF Poured, Whole
<1> QED BY <1>1, <1>3, <1>4, <1>5

(* What a step of a call does to its client's session and to its own row.  *)
KeepsWhole(k) ==
    /\ Whole(shared')
    /\ \/ local' = local
       \/ \E x \in Session : /\ SetMine(k, x) /\ Whole(x)
                             /\ x.token \in {0, Mine(k).token} \/ Stage(k) \in Holding
    /\ WholeRow(k)'

LEMMA SetMineNext ==
    ASSUME TypeOK, NEW k \in Calls, NEW x, SetMine(k, x)
    PROVE  Mine(k)' = x
BY CallsAssumption DEF TypeOK, SetMine, Mine

LEMMA WholeByCall ==
    ASSUME TypeOK, WholeInv, NEW k \in Calls, Step(k), late = {}, late' = {}
    PROVE  KeepsWhole(k)
<1> USE DEF sessions, notes
<1>1. call \in [Calls -> CallRow] /\ shared \in Session /\ issued \in Nat
  BY DEF TypeOK
<1>2. Whole(shared) /\ Whole(Mine(k)) /\ WholeRow(k)
  BY CallsAssumption DEF WholeInv, Mine
<1>3. Mine(k) \in Session /\ NoSession \in Session /\ Whole(NoSession)
  BY MineType, Parts DEF NoSession, Session, Whole
<1>4. CASE UseLocal(k)
  <2>1. WholeRow(k)'
    BY <1>2, <1>4, RequestRow DEF UseLocal, WholeRow, Stage, After, Whole
  <2> QED BY <1>2, <1>4, <2>1 DEF UseLocal, KeepsWhole
<1>5. CASE Enter(k)
  <2>1. call'[k].stage \in {"loading", "waiting"}
    BY <1>1, <1>5 DEF Enter, CallRow
  <2>2. WholeRow(k)'
    BY <2>1 DEF WholeRow, Stage, After
  <2> QED BY <1>2, <1>5, <2>2 DEF Enter, KeepsWhole
<1>6. CASE LoadShared(k)
  <2>1. WholeRow(k)'
    BY <1>2, <1>6, RequestRow, GotoRow DEF LoadShared, WholeRow, Stage, After, Whole
  <2>2. Stage(k) \in Holding /\ shared' = shared /\ (SetMine(k, shared) \/ local' = local)
    BY <1>6 DEF LoadShared, Holding
  <2> QED BY <1>1, <1>2, <2>1, <2>2 DEF KeepsWhole
<1>7. CASE GiveUp(k)
  <2>1. WholeRow(k)'
    BY <1>7, EndRow DEF GiveUp, WholeRow, Stage, After
  <2> QED BY <1>2, <1>7, <2>1 DEF GiveUp, KeepsWhole
<1>8. CASE TakeLock(k)
  <2>1. WholeRow(k)'
    BY <1>8, GotoRow DEF TakeLock, WholeRow, Stage, After
  <2> QED BY <1>2, <1>8, <2>1 DEF TakeLock, KeepsWhole
<1>9. CASE Reuse(k)
  <2>1. call'[k].stage = "leaving" /\ call'[k].token = shared.token
    BY <1>1, <1>9 DEF Reuse, CallRow
  <2>2. Mine(k)' = shared
    BY <1>9, SetMineNext DEF Reuse
  <2>3. WholeRow(k)'
    BY <2>1, <2>2 DEF WholeRow, Stage, After
  <2>4. Stage(k) \in Holding /\ shared' = shared /\ SetMine(k, shared)
    BY <1>9 DEF Reuse, Holding, Inside
  <2> QED BY <1>1, <1>2, <2>3, <2>4 DEF KeepsWhole
<1>10. CASE Login(k)
  <2>1. \/ call'[k].stage = "login"
        \/ call'[k].stage = "leaving" /\ call'[k].token = 0
    <3>1. CASE Goto(k, "login")
      BY <3>1, GotoRow
    <3>2. CASE call' = [call EXCEPT ![k] = [@ EXCEPT !.stage = "leaving", !.token = 0]]
      BY <1>1, <3>2 DEF CallRow
    <3> QED BY <1>10, <3>1, <3>2 DEF Login
  <2>2. WholeRow(k)'
    BY <2>1 DEF WholeRow, Stage, After
  <2>3. Stage(k) \in Holding /\ shared' = shared /\ (SetMine(k, shared) \/ local' = local)
    BY <1>10 DEF Login, Holding, Inside
  <2> QED BY <1>1, <1>2, <2>2, <2>3 DEF KeepsWhole
<1>11. CASE LookupFails(k)
  <2>1. call'[k].stage = "leaving" /\ call'[k].token = 0
    BY <1>1, <1>11 DEF LookupFails, CallRow
  <2>2. WholeRow(k)'
    BY <2>1 DEF WholeRow, Stage, After
  <2> QED BY <1>2, <1>11, <2>2 DEF LookupFails, KeepsWhole
<1>12. CASE LoginSucceeds(k)
  <2> DEFINE x == [token |-> issued + 1, cookies |-> issued + 1, age |-> "used"]
  <2>1. call'[k].stage = "storing" /\ call'[k].token = issued + 1 /\ call'[k].cookies = issued + 1
    BY <1>1, <1>12 DEF LoginSucceeds, CallRow
  <2>2. x \in Session /\ Whole(x) /\ x.token = issued + 1 /\ SetMine(k, x)
    BY <1>1, <1>12 DEF LoginSucceeds, Session, Whole
  <2>3. Mine(k)' = x
    BY <2>2, SetMineNext
  <2>4. WholeRow(k)'
    BY <2>1, <2>2, <2>3 DEF WholeRow, Stage, After
  <2>5. Stage(k) \in Holding /\ shared' = shared
    BY <1>12 DEF LoginSucceeds, Holding, Inside
  <2> QED BY <1>2, <2>2, <2>4, <2>5 DEF KeepsWhole
<1>13. CASE LoginFails(k)
  <2>1. call'[k].stage = "leaving" /\ call'[k].token = 0
    BY <1>1, <1>13 DEF LoginFails, CallRow
  <2>2. WholeRow(k)'
    BY <2>1 DEF WholeRow, Stage, After
  <2> QED BY <1>2, <1>13, <2>2 DEF LoginFails, KeepsWhole
<1>14. CASE StoreLogin(k)
  <2>1. call'[k].stage = "leaving" /\ call'[k].token \in {0, call[k].token}
    <3>1. CASE Goto(k, "leaving")
      BY <3>1, GotoRow
    <3>2. CASE call' = [call EXCEPT ![k] = [@ EXCEPT !.stage = "leaving", !.token = 0]]
      BY <1>1, <3>2 DEF CallRow
    <3> QED BY <1>14, <3>1, <3>2 DEF StoreLogin
  <2>2. Stage(k) = "storing" /\ local' = local
    BY <1>14 DEF StoreLogin
  <2>3. Mine(k)' = Mine(k)
    BY <2>2 DEF Mine
  <2>4. WholeRow(k)'
    BY <1>2, <2>1, <2>2, <2>3 DEF WholeRow, Stage, After
  <2>5. Whole(shared')
    BY <1>2, <1>14, <2>2 DEF StoreLogin, Whole, WholeRow
  <2> QED BY <2>2, <2>4, <2>5 DEF KeepsWhole
<1>15. CASE Release(k)
  <2>1. ASSUME call[k].token # 0 PROVE WholeRow(k)'
    <3>1. Request(k, call[k].token, Mine(k).cookies, 1) /\ Stage(k) = "leaving"
      BY <1>15, <2>1 DEF Release
    <3>2. Mine(k).cookies \in {0, call[k].token}
      BY <1>2, <2>1, <3>1 DEF WholeRow, Whole
    <3> QED BY <3>1, <3>2, RequestRow DEF WholeRow, Stage, After
  <2>2. ASSUME call[k].token = 0 PROVE WholeRow(k)'
    BY <1>15, <2>2, EndRow DEF Release, WholeRow, Stage, After
  <2>3. WholeRow(k)'
    BY <2>1, <2>2
  <2> QED BY <1>2, <1>15, <2>3 DEF Release, KeepsWhole
<1>16. CASE Handle(k)
  <2>1. /\ call'[k].stage \in {"ok", "error", "format", "expired"}
        /\ call'[k].token = call[k].token /\ call'[k].cookies = call[k].cookies
    BY <1>16, GotoRow DEF Handle, Outcomes
  <2>2. WholeRow(k)'
    BY <1>2, <1>16, <2>1 DEF Handle, WholeRow, Stage, After
  <2> QED BY <1>2, <1>16, <2>2 DEF Handle, KeepsWhole
<1>17. CASE Lost(k)
  <2>1. WholeRow(k)'
    BY <1>17, EndRow DEF Lost, WholeRow, Stage, After
  <2> QED BY <1>2, <1>17, <2>1 DEF Lost, KeepsWhole
<1>18. CASE Succeed(k)
  <2>1. Poured(k) \in Session /\ Whole(Poured(k)) /\ Poured(k).token = Mine(k).token
        /\ call[k].token = Mine(k).token
    BY <1>2, <1>18, PouredWhole DEF Succeed, WholeRow, After, Refused
  <2> DEFINE x == [Poured(k) EXCEPT !.age = "used"]
  <2>2. x \in Session /\ Whole(x) /\ x.token = Mine(k).token
    BY <2>1 DEF Session, Whole
  <2>3. ASSUME Mine(k).token = 0 PROVE WholeRow(k)'
    BY <1>18, <2>3, EndRow DEF Succeed, WholeRow, Stage, After
  <2>4. ASSUME Mine(k).token # 0 PROVE WholeRow(k)'
    <3>1. /\ call'[k].stage = "refreshing" /\ call'[k].token = Mine(k).token
          /\ call'[k].cookies = Poured(k).cookies
      BY <1>1, <1>18, <2>4 DEF Succeed, NewCall
    <3> QED BY <2>1, <3>1 DEF WholeRow, Stage, After, Whole
  <2>5. WholeRow(k)'
    BY <2>3, <2>4
  <2>6. SetMine(k, x) /\ shared' = shared
    BY <1>18 DEF Succeed
  <2> QED BY <1>2, <2>2, <2>5, <2>6 DEF KeepsWhole
<1>19. CASE Refuse(k)
  <2>1. Poured(k) \in Session /\ Whole(Poured(k)) /\ Poured(k).token = Mine(k).token
        /\ call[k].token = Mine(k).token
    BY <1>2, <1>19, PouredWhole DEF Refuse, WholeRow, After, Refused
  <2>2. WholeRow(k)'
    BY <1>19, EndRow DEF Refuse, WholeRow, Stage, After, Whole
  <2>3. SetMine(k, Poured(k)) /\ shared' = shared
    BY <1>19 DEF Refuse
  <2> QED BY <1>2, <2>1, <2>2, <2>3 DEF KeepsWhole
<1>20. CASE TryNextMode(k)
  <2>1. Poured(k) \in Session /\ Whole(Poured(k)) /\ Poured(k).token = Mine(k).token
        /\ call[k].token = Mine(k).token
    BY <1>2, <1>20, PouredWhole DEF TryNextMode, WholeRow, After, Refused
  <2>2. WholeRow(k)'
    BY <1>20, <2>1, RequestRow DEF TryNextMode, WholeRow, Stage, After, Whole
  <2>3. SetMine(k, Poured(k)) /\ shared' = shared
    BY <1>20 DEF TryNextMode
  <2> QED BY <1>2, <2>1, <2>2, <2>3 DEF KeepsWhole
<1>21. CASE LogInAgain(k)
  <2>1. Poured(k) \in Session /\ Whole(Poured(k)) /\ Poured(k).token = Mine(k).token
        /\ call[k].token = Mine(k).token
    BY <1>2, <1>21, PouredWhole DEF LogInAgain, WholeRow, After, Refused
  <2>2. WholeRow(k)'
    BY <1>21, GotoRow DEF LogInAgain, WholeRow, Stage, After, Whole
  <2>3. SetMine(k, Poured(k)) /\ shared' = shared
    BY <1>21 DEF LogInAgain
  <2> QED BY <1>2, <2>1, <2>2, <2>3 DEF KeepsWhole
<1>22. CASE Invalidate(k)
  <2>1. call'[k].stage = "clearing"
    BY <1>1, <1>22 DEF Invalidate, NewCall
  <2>2. WholeRow(k)'
    BY <2>1 DEF WholeRow, Stage, After
  <2>3. SetMine(k, NoSession) /\ shared' = shared /\ NoSession.token = 0
    BY <1>22 DEF Invalidate, NoSession
  <2> QED BY <1>2, <1>3, <2>2, <2>3 DEF KeepsWhole
<1>23. CASE Refresh(k)
  <2>1. WholeRow(k)'
    BY <1>23, EndRow DEF Refresh, WholeRow, Stage, After
  <2>2. Whole(shared')
    BY <1>2, <1>3, <1>23 DEF Refresh, Whole, WholeRow
  <2> QED BY <1>23, <2>1, <2>2 DEF Refresh, KeepsWhole
<1>24. CASE ClearShared(k)
  <2>1. WholeRow(k)'
    BY <1>24, EndRow DEF ClearShared, WholeRow, Stage, After
  <2>2. Whole(shared')
    BY <1>2, <1>3, <1>24 DEF ClearShared, Whole, WholeRow
  <2> QED BY <1>24, <2>1, <2>2 DEF ClearShared, KeepsWhole
<1> QED
  BY <1>4, <1>5, <1>6, <1>7, <1>8, <1>9, <1>10, <1>11, <1>12, <1>13, <1>14, <1>15, <1>16, <1>17, <1>18, <1>19, <1>20, <1>21, <1>22, <1>23, <1>24
  DEF Step, Authenticate, Answer

LEMMA LateGrows == TypeOK /\ [Next]_vars /\ late' = {} => late = {}
<1>1. ASSUME NEW k \in Calls, Step(k), late' = {} PROVE late = {}
  BY <1>1 DEF Step, Authenticate, Answer, UseLocal, Enter, LoadShared, GiveUp, TakeLock, Reuse, Login,
     LookupFails, LoginSucceeds, LoginFails, StoreLogin, Release, Handle, Lost, Succeed, Refuse,
     TryNextMode, LogInAgain, Invalidate, Refresh, ClearShared, NoteLate, sessions, notes
<1>2. ASSUME Environment \/ UNCHANGED vars, late' = {} PROVE late = {}
  BY <1>2 DEF Environment, LockExpires, Idles, Midnight, ProviderEnds, Ages, Crash, vars, sessions,
     notes
<1> QED BY <1>1, <1>2 DEF Next, Step

LEMMA WholeStep == TypeOK /\ HoldInv /\ WholeInv /\ [Next]_vars => WholeInv'
<1> SUFFICES ASSUME TypeOK, HoldInv, WholeInv, [Next]_vars, late' = {}
             PROVE  /\ Whole(shared')
                    /\ \A c \in Clients : Whole(local'[c])
                    /\ \A j \in Calls : WholeRow(j)'
  BY DEF WholeInv, Whole
<1>1. late = {}
  BY LateGrows
<1>2. /\ Whole(shared) /\ \A c \in Clients : Whole(local[c])
      /\ \A j \in Calls : WholeRow(j) /\ ClientOf[j] \in Clients
      /\ local \in [Clients -> Session]
  BY <1>1, CallsAssumption DEF WholeInv, TypeOK
<1>3. ASSUME NEW k \in Calls, Step(k)
      PROVE  /\ Whole(shared') /\ \A c \in Clients : Whole(local'[c])
             /\ \A j \in Calls : WholeRow(j)'
  <2>1. KeepsWhole(k)
    BY <1>1, <1>3, WholeByCall
  <2>2. \A c \in Clients : Whole(local'[c])
    BY <1>2, <2>1 DEF KeepsWhole, SetMine
  <2>3. ASSUME NEW j \in Calls, j # k PROVE WholeRow(j)'
    <3>1. call'[j] = call[j]
      BY <1>3, <2>3, OthersKeep
    <3>2. CASE Stage(j) \in {"storing", "leaving"}
      <4>1. Stage(k) \in Holding => ClientOf[j] # ClientOf[k]
        BY <2>3, <3>2 DEF HoldInv, Holding, Inside
      <4>2. Mine(j)'.token \in {0, Mine(j).token}
        BY <1>2, <2>1, <4>1 DEF KeepsWhole, SetMine, Mine
      <4> QED BY <1>2, <3>1, <4>2 DEF WholeRow, Stage
    <3>3. CASE Stage(j) \notin {"storing", "leaving"}
      BY <1>2, <3>1, <3>3 DEF WholeRow, Stage
    <3> QED BY <3>2, <3>3
  <2> QED BY <2>1, <2>2, <2>3 DEF KeepsWhole
<1>4. CASE Environment \/ UNCHANGED vars
  <2>1. ASSUME NEW c \in Clients, Crash(c)
        PROVE  /\ Whole(shared') /\ \A d \in Clients : Whole(local'[d])
               /\ \A j \in Calls : WholeRow(j)'
    <3>1. shared' = shared /\ local' = [local EXCEPT ![c] = NoSession]
      BY <2>1 DEF Crash
    <3>2. NoSession.token = 0 /\ Whole(NoSession)
      BY DEF NoSession, Whole
    <3>3. \A j \in Calls : Mine(j)'.token \in {0, Mine(j).token}
      BY <1>2, <3>1, <3>2 DEF Mine
    <3>4. ASSUME NEW j \in Calls PROVE WholeRow(j)'
      <4>1. CASE j \in Running(c)
        BY <2>1, <4>1, CrashRows DEF WholeRow, Stage, After
      <4>2. CASE j \notin Running(c)
        <5>1. call'[j] = call[j]
          BY <2>1, <4>2, CrashRows
        <5> QED BY <1>2, <3>3, <5>1 DEF WholeRow, Stage
      <4> QED BY <4>1, <4>2
    <3> QED BY <1>2, <3>1, <3>2, <3>4
  <2>2. CASE call' = call /\ Idles
    <3>1. /\ \A c \in Clients : /\ local'[c].token = local[c].token
                                /\ local'[c].cookies = local[c].cookies
          /\ shared'.token = shared.token /\ shared'.cookies = shared.cookies
      <4>1. shared \in Session
        BY DEF TypeOK
      <4> QED BY <1>2, <2>2, <4>1 DEF Idles, Session
    <3> QED BY <1>2, <2>2, <3>1 DEF Whole, WholeRow, Stage, Mine
  <2>3. CASE call' = call /\ local' = local /\ shared' = shared
    BY <1>2, <2>3 DEF Whole, WholeRow, Stage, Mine
  <2> QED
    BY <1>4, <2>1, <2>2, <2>3
    DEF Environment, LockExpires, Idles, Midnight, ProviderEnds, Ages, vars, sessions
<1> QED BY <1>3, <1>4 DEF Next, Step

(* As long as no answer comes after its client has changed sessions, the   *)
(* processes share one login's token with that login's cookies, whatever   *)
(* the order of their logins, saves and crashes.                           *)
THEOREM SharedWhole == Spec => []WholeSession
<1>1. Init => HoldInv /\ WholeInv
  BY DEF Init, HoldInv, WholeInv, WholeRow, Whole, Stage, Mine, NewCall, NoSession, Holding, Inside,
     After
<1>2. WholeInv => WholeSession
  BY DEF WholeInv, WholeSession, Whole
<1> QED BY <1>1, <1>2, TypesInit, TypesStep, HoldStep, WholeStep, PTL DEF Spec
=============================================================================
