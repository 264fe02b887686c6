---------------------------- MODULE CdasSession ----------------------------
(***************************************************************************)
(* The provider session that all backend processes share, and the daily    *)
(* allowance of requests (integrations/cdas.py, cdas_compatible.py,        *)
(* services/cdas_session_broker.py, cdas_request_budget.py).               *)
(*                                                                         *)
(* A process has one CdasClient; its coroutines are the calls.  A call     *)
(* takes a session from its client, from Redis, or from a login made under *)
(* a lock in Redis that expires by itself; then it sends its request.  A   *)
(* read that the provider refuses logs in again and is sent once more; a   *)
(* write never is.  Coroutines change turns only where the code awaits:    *)
(* each action runs from one await to the next.                            *)
(*                                                                         *)
(* Sessions are numbered by their login; a session's cookies carry its     *)
(* number.                                                                 *)
(***************************************************************************)
EXTENDS Integers, FiniteSets

CONSTANTS
    Calls,     \* operations of a client: coroutines
    Mixes,     \* the sets of calls that may be the writes
    Clients,   \* processes
    ClientOf,  \* the client that makes a call
    NoCall,    \* of a lock that is free
    Modes,     \* header formats that a read tries (_read_candidates)
    Limit,     \* CDAS_DAILY_REQUEST_LIMIT
    MaxEvents  \* bound on expiries, crashes and midnights

ASSUME CallsAssumption ==
    /\ IsFiniteSet(Calls) /\ NoCall \notin Calls
    /\ Mixes \subseteq SUBSET Calls /\ ClientOf \in [Calls -> Clients]
ASSUME NumbersAssumption == Modes \in Nat \ {0} /\ Limit \in Nat /\ MaxEvents \in Nat

VARIABLES
    writes,    \* calls that change a deduction (retry_expired_session=False)
    call,      \* a call's place in the code, the session it uses, its attempt
    holder,    \* _token_lock of a client
    local,     \* a client's _token and _session_cookies
    shared,    \* the session in Redis
    lock,      \* the login lock in Redis: whose value it holds
    issued,    \* external: logins so far
    live,      \* external: sessions that the provider accepts
    aged,      \* sessions past _TOKEN_MAX_AGE
    used,      \* request_count of today
    received,  \* external: requests that reached the provider today
    carried,   \* calls whose request was in flight at midnight
    sent,      \* requests sent for a call, logins aside
    overtaken, \* calls whose login lock expired before they gave it back
    late,      \* clients that an answer found with another session
    events     \* external events so far

provider == <<issued, live, aged>>
notes == <<overtaken, late>>
fixed == <<writes, events>>
sessions == <<holder, local, shared, lock, provider, notes>>
allowance == <<used, received, carried>>
vars == <<writes, call, sessions, allowance, sent, events>>

NoSession == [token |-> 0, cookies |-> 0, age |-> "used"]
Session == [token : Nat, cookies : Nat, age : {"used", "idle"}]

Inside == {"deciding", "login", "storing", "leaving"}
InFlight == {"sent", "login"}
Ended == {"done", "failed"}
Stages == Inside \cup InFlight \cup Ended
          \cup {"new", "again", "loading", "waiting", "ok", "error", "format", "expired",
                "refreshing", "clearing"}

NewCall == [stage |-> "new", round |-> 1, token |-> 0, cookies |-> 0, previous |-> 0,
            mode |-> 1]

Init ==
    /\ writes \in Mixes
    /\ call = [k \in Calls |-> NewCall]
    /\ holder = [c \in Clients |-> NoCall]
    /\ local = [c \in Clients |-> NoSession]
    /\ shared = NoSession
    /\ lock = NoCall
    /\ issued = 0 /\ live = {} /\ aged = {}
    /\ used = 0 /\ received = 0 /\ carried = {}
    /\ sent = [k \in Calls |-> 0]
    /\ overtaken = {} /\ late = {}
    /\ events = 0

Stage(k) == call[k].stage
Mine(k) == local[ClientOf[k]]
SetMine(k, s) == local' = [local EXCEPT ![ClientOf[k]] = s]

(* _session_is_fresh *)
Fresh(s) == s.token # 0 /\ s.age = "used" /\ s.token \notin aged

Goto(k, stage) == call' = [call EXCEPT ![k].stage = stage]
End(k, stage) == call' = [call EXCEPT ![k] = [NewCall EXCEPT !.stage = stage]]
FreeClient(k) == holder' = [holder EXCEPT ![ClientOf[k]] = NoCall]

(* _reserve_request and the post: counted and committed, then sent, or     *)
(* refused for the day.                                                    *)
Request(k, token, cookies, mode) ==
    IF used < Limit
    THEN /\ call' = [call EXCEPT ![k] = [@ EXCEPT !.stage = "sent", !.token = token,
                                           !.cookies = cookies, !.previous = 0, !.mode = mode]]
         /\ used' = used + 1
         /\ sent' = [sent EXCEPT ![k] = @ + 1]
         /\ UNCHANGED <<received, carried>>
    ELSE /\ End(k, "failed")
         /\ UNCHANGED <<allowance, sent>>

-----------------------------------------------------------------------------
(* authenticate                                                            *)

UseLocal(k) ==
    /\ Stage(k) = "new" /\ holder[ClientOf[k]] = NoCall
    /\ Fresh(Mine(k))
    /\ Request(k, Mine(k).token, Mine(k).cookies, 1)
    /\ UNCHANGED <<sessions, fixed>>

Enter(k) ==
    /\ Stage(k) \in {"new", "again"} /\ holder[ClientOf[k]] = NoCall
    /\ Stage(k) = "new" => ~Fresh(Mine(k))
    /\ holder' = [holder EXCEPT ![ClientOf[k]] = k]
    /\ call' = [call EXCEPT
                  ![k] = [@ EXCEPT !.stage = IF Stage(k) = "again" THEN "waiting" ELSE "loading",
                                   !.round = IF Stage(k) = "again" THEN 2 ELSE 1,
                                   !.previous = Mine(k).token]]
    /\ UNCHANGED <<local, shared, lock, provider, notes, allowance, sent, fixed>>

LoadShared(k) ==
    /\ Stage(k) = "loading"
    /\ IF Fresh(shared)
       THEN SetMine(k, shared) /\ FreeClient(k) /\ Request(k, shared.token, shared.cookies, 1)
       ELSE Goto(k, "waiting") /\ UNCHANGED <<local, holder, allowance, sent>>
    /\ UNCHANGED <<shared, lock, provider, notes, fixed>>

(* Redis does not answer, or the lock stays taken for 25 seconds.          *)
GiveUp(k) ==
    /\ Stage(k) \in {"loading", "waiting"}
    /\ End(k, "failed") /\ FreeClient(k)
    /\ UNCHANGED <<local, shared, lock, provider, notes, allowance, sent, fixed>>

TakeLock(k) ==
    /\ Stage(k) = "waiting" /\ lock = NoCall
    /\ lock' = k /\ overtaken' = overtaken \ {k}
    /\ Goto(k, "deciding")
    /\ UNCHANGED <<holder, local, shared, provider, late, allowance, sent, fixed>>

(* What another worker stored serves, unless it is what was just refused.  *)
Serves(k, s) == Fresh(s) /\ (call[k].round = 2 => s.token # call[k].previous)

Reuse(k) ==
    /\ Stage(k) = "deciding" /\ Serves(k, shared)
    /\ SetMine(k, shared)
    /\ call' = [call EXCEPT ![k] = [@ EXCEPT !.stage = "leaving", !.token = shared.token]]
    /\ UNCHANGED <<holder, shared, lock, provider, notes, allowance, sent, fixed>>

(* Mutant: a login is not counted.                                         *)
Login_Uncounted(k) ==
    /\ Stage(k) = "deciding" /\ ~Serves(k, shared)
    /\ IF Fresh(shared) THEN SetMine(k, shared) ELSE UNCHANGED local
    /\ Goto(k, "login")
    /\ UNCHANGED <<holder, shared, lock, provider, notes, allowance, sent, fixed>>

Login(k) ==
    /\ Stage(k) = "deciding" /\ ~Serves(k, shared)
    /\ IF Fresh(shared) THEN SetMine(k, shared) ELSE UNCHANGED local
    /\ IF used < Limit
       THEN Goto(k, "login") /\ used' = used + 1
       ELSE /\ call' = [call EXCEPT ![k] = [@ EXCEPT !.stage = "leaving", !.token = 0]]
            /\ UNCHANGED used
    /\ UNCHANGED <<holder, shared, lock, provider, notes, received, carried, sent, fixed>>

(* Redis does not answer under the lock.                                   *)
LookupFails(k) ==
    /\ Stage(k) = "deciding"
    /\ call' = [call EXCEPT ![k] = [@ EXCEPT !.stage = "leaving", !.token = 0]]
    /\ UNCHANGED <<sessions, allowance, sent, fixed>>

(* Mutant: the jar keeps the cookies of the session before.                *)
LoginSucceeds_OldJar(k) ==
    /\ Stage(k) = "login"
    /\ issued' = issued + 1 /\ live' = live \cup {issued + 1}
    /\ received' = received + 1
    /\ SetMine(k, [token |-> issued + 1, age |-> "used",
                   cookies |-> IF Mine(k).cookies # 0 THEN Mine(k).cookies ELSE issued + 1])
    /\ call' = [call EXCEPT ![k] = [@ EXCEPT !.stage = "storing", !.token = issued + 1,
                                      !.cookies = local'[ClientOf[k]].cookies]]
    /\ UNCHANGED <<holder, shared, lock, aged, notes, used, carried, sent, fixed>>

LoginSucceeds(k) ==
    /\ Stage(k) = "login"
    /\ issued' = issued + 1 /\ live' = live \cup {issued + 1}
    /\ received' = received + 1
    /\ SetMine(k, [token |-> issued + 1, cookies |-> issued + 1, age |-> "used"])
    /\ call' = [call EXCEPT ![k] = [@ EXCEPT !.stage = "storing", !.token = issued + 1,
                                      !.cookies = issued + 1]]
    /\ UNCHANGED <<holder, shared, lock, aged, notes, used, carried, sent, fixed>>

(* No answer or one that is no session: the request may have arrived.      *)
LoginFails(k) ==
    /\ Stage(k) = "login"
    /\ received' \in {received, received + 1}
    /\ call' = [call EXCEPT ![k] = [@ EXCEPT !.stage = "leaving", !.token = 0]]
    /\ UNCHANGED <<sessions, used, carried, sent, fixed>>

(* _save_shared_session(strict=True)                                       *)
StoreLogin(k) ==
    /\ Stage(k) = "storing"
    /\ \/ /\ shared' = [token |-> call[k].token, cookies |-> call[k].cookies, age |-> "used"]
          /\ Goto(k, "leaving")
       \/ /\ call' = [call EXCEPT ![k] = [@ EXCEPT !.stage = "leaving", !.token = 0]]
          /\ UNCHANGED shared
    /\ UNCHANGED <<holder, local, lock, provider, notes, allowance, sent, fixed>>

(* Mutant: the release deletes the lock, whoever holds it.                 *)
Release_Any(k) ==
    /\ Stage(k) = "leaving"
    /\ lock' = NoCall
    /\ FreeClient(k)
    /\ IF call[k].token # 0 THEN Request(k, call[k].token, Mine(k).cookies, 1)
                            ELSE End(k, "failed") /\ UNCHANGED <<allowance, sent>>
    /\ UNCHANGED <<local, shared, provider, notes, fixed>>

(* The lock is deleted if it still holds the call's value and Redis        *)
(* answers; then the request goes out, with the cookies the client has.    *)
Release(k) ==
    /\ Stage(k) = "leaving"
    /\ lock' \in {lock} \cup (IF lock = k THEN {NoCall} ELSE {})
    /\ FreeClient(k)
    /\ IF call[k].token # 0 THEN Request(k, call[k].token, Mine(k).cookies, 1)
                            ELSE End(k, "failed") /\ UNCHANGED <<allowance, sent>>
    /\ UNCHANGED <<local, shared, provider, notes, fixed>>

-----------------------------------------------------------------------------
(* The request and its answer.                                             *)

(* External: the provider knows the session, or not; a read's header may   *)
(* have the wrong format.                                                  *)
Outcomes(k) ==
    LET known == call[k].token \in live
    IN  {o \in {"ok", "error"} : known} \cup {o \in {"format"} : known /\ k \notin writes}
        \cup {o \in {"expired"} : ~known \/ call[k].cookies # call[k].token}

Handle(k) ==
    /\ Stage(k) = "sent"
    /\ received' = received + 1
    /\ \E o \in Outcomes(k) : Goto(k, o)
    /\ UNCHANGED <<sessions, used, carried, sent, fixed>>

(* No answer arrives.                                                      *)
Lost(k) ==
    /\ Stage(k) = "sent"
    /\ received' \in {received, received + 1}
    /\ End(k, "failed")
    /\ UNCHANGED <<sessions, used, carried, sent, fixed>>

(* _session_cookies.update(client.cookies): the jar that was sent along is *)
(* poured into the jar that the client has by now.                         *)
Poured(k) == IF call[k].cookies # 0 THEN [Mine(k) EXCEPT !.cookies = call[k].cookies] ELSE Mine(k)
NoteLate(k) ==
    late' = late \cup (IF call[k].token # Mine(k).token THEN {ClientOf[k]} ELSE {})

(* last_used_at, and the snapshot for Redis.                               *)
Succeed(k) ==
    /\ Stage(k) = "ok"
    /\ SetMine(k, [Poured(k) EXCEPT !.age = "used"])
    /\ NoteLate(k)
    /\ IF Mine(k).token = 0
       THEN End(k, "done")
       ELSE call' = [call EXCEPT ![k] = [NewCall EXCEPT !.stage = "refreshing",
                                                        !.token = Mine(k).token,
                                                        !.cookies = Poured(k).cookies]]
    /\ UNCHANGED <<holder, shared, lock, provider, overtaken, allowance, sent, fixed>>

Refuse(k) ==
    /\ Stage(k) = "error"
    /\ SetMine(k, Poured(k)) /\ NoteLate(k)
    /\ End(k, "failed")
    /\ UNCHANGED <<holder, shared, lock, provider, overtaken, allowance, sent, fixed>>

TryNextMode(k) ==
    /\ Stage(k) = "format" /\ call[k].mode < Modes
    /\ SetMine(k, Poured(k)) /\ NoteLate(k)
    /\ Request(k, call[k].token, Poured(k).cookies, call[k].mode + 1)
    /\ UNCHANGED <<holder, shared, lock, provider, overtaken, fixed>>

Refused(k) == Stage(k) = "expired" \/ (Stage(k) = "format" /\ call[k].mode = Modes)

(* Mutant: a write is sent again with a fresh session.                     *)
MayRetry_Writes(k) == call[k].round = 1

(* One fresh login is allowed for a read.                                  *)
MayRetry(k) == k \notin writes /\ call[k].round = 1

LogInAgain(k) ==
    /\ Refused(k) /\ MayRetry(k)
    /\ SetMine(k, Poured(k)) /\ NoteLate(k)
    /\ Goto(k, "again")
    /\ UNCHANGED <<holder, shared, lock, provider, overtaken, allowance, sent, fixed>>

(* _invalidate_session: first the client, then Redis.                      *)
Invalidate(k) ==
    /\ Refused(k) /\ ~MayRetry(k)
    /\ SetMine(k, NoSession) /\ NoteLate(k)
    /\ call' = [call EXCEPT ![k] = [NewCall EXCEPT !.stage = "clearing"]]
    /\ UNCHANGED <<holder, shared, lock, provider, overtaken, allowance, sent, fixed>>

(* _save_shared_session(strict=False); a failure is swallowed.             *)
Refresh(k) ==
    /\ Stage(k) = "refreshing"
    /\ shared' \in {shared, [token |-> call[k].token, cookies |-> call[k].cookies, age |-> "used"]}
    /\ End(k, "done")
    /\ UNCHANGED <<holder, local, lock, provider, notes, allowance, sent, fixed>>

ClearShared(k) ==
    /\ Stage(k) = "clearing"
    /\ shared' \in {shared, NoSession}
    /\ End(k, "failed")
    /\ UNCHANGED <<holder, local, lock, provider, notes, allowance, sent, fixed>>

-----------------------------------------------------------------------------
(* Time, the provider, and processes that die.                             *)

Flying == {k \in Calls : Stage(k) \in InFlight}

Event == events < MaxEvents /\ events' = events + 1

(* The lock's 30 seconds are over.                                         *)
LockExpires ==
    /\ lock # NoCall /\ Event
    /\ lock' = NoCall /\ overtaken' = overtaken \cup {lock}
    /\ UNCHANGED <<call, holder, local, shared, provider, late, allowance, sent, writes>>

ProviderEnds(t) ==
    /\ t \in live /\ Event
    /\ live' = live \ {t}
    /\ UNCHANGED <<call, holder, local, shared, lock, issued, aged, notes, allowance, sent, writes>>

Ages(t) ==
    /\ t \notin aged /\ Event
    /\ aged' = aged \cup {t}
    /\ UNCHANGED <<call, holder, local, shared, lock, issued, live, notes, allowance, sent, writes>>

(* Nine minutes without use, as a client's or as Redis's copy has it.      *)
Idles ==
    /\ Event
    /\ \/ \E c \in Clients : local' = [local EXCEPT ![c].age = "idle"] /\ UNCHANGED shared
       \/ shared' = [shared EXCEPT !.age = "idle"] /\ UNCHANGED local
    /\ UNCHANGED <<call, holder, lock, provider, notes, allowance, sent, writes>>

Midnight ==
    /\ Event
    /\ used' = 0 /\ received' = 0
    /\ carried' = Flying
    /\ UNCHANGED <<call, sessions, sent, writes>>

(* A process dies and starts again; its login lock stays until it expires, *)
(* and what it had sent may still arrive.                                  *)
Running(c) == {k \in Calls : ClientOf[k] = c /\ Stage(k) \notin Ended \cup {"new"}}
Crash(c) ==
    /\ Event
    /\ call' = [k \in Calls |-> IF k \in Running(c) THEN [NewCall EXCEPT !.stage = "failed"]
                                                    ELSE call[k]]
    /\ received' \in received .. received + Cardinality(Running(c) \cap Flying)
    /\ holder' = [holder EXCEPT ![c] = NoCall]
    /\ local' = [local EXCEPT ![c] = NoSession]
    /\ UNCHANGED <<shared, lock, provider, notes, used, carried, sent, writes>>

Authenticate(k) ==
    \/ UseLocal(k) \/ Enter(k) \/ LoadShared(k) \/ GiveUp(k) \/ TakeLock(k)
    \/ Reuse(k) \/ Login(k) \/ LookupFails(k) \/ LoginSucceeds(k) \/ LoginFails(k)
    \/ StoreLogin(k) \/ Release(k)

Answer(k) ==
    \/ Handle(k) \/ Lost(k) \/ Succeed(k) \/ Refuse(k) \/ TryNextMode(k)
    \/ LogInAgain(k) \/ Invalidate(k) \/ Refresh(k) \/ ClearShared(k)

Environment ==
    \/ LockExpires \/ Idles \/ Midnight
    \/ \E t \in 1 .. issued : ProviderEnds(t) \/ Ages(t)
    \/ \E c \in Clients : Crash(c)

Next == (\E k \in Calls : Authenticate(k) \/ Answer(k)) \/ Environment

Spec == Init /\ [][Next]_vars

-----------------------------------------------------------------------------
(* Properties.                                                             *)

CallRow == [stage : Stages, round : 1 .. 2, token : Nat, cookies : Nat, previous : Nat,
            mode : 1 .. Modes]

(* The type invariant.                                                     *)
TypeOK ==
    /\ writes \subseteq Calls
    /\ call \in [Calls -> CallRow]
    /\ holder \in [Clients -> Calls \cup {NoCall}]
    /\ local \in [Clients -> Session]
    /\ shared \in Session
    /\ lock \in Calls \cup {NoCall}
    /\ issued \in Nat /\ live \subseteq 1 .. issued /\ aged \subseteq 1 .. issued
    /\ used \in 0 .. Limit /\ received \in Nat /\ carried \subseteq Calls
    /\ sent \in [Calls -> Nat]
    /\ overtaken \subseteq Calls /\ late \subseteq Clients
    /\ events \in 0 .. MaxEvents

(* "State-changing calls are never automatically replayed"                 *)
(* (docs/cdas-reintegration.md:50), and a read is tried in each format     *)
(* with at most two sessions, whatever expires meanwhile.                  *)
SentAsPromised ==
    \A k \in Calls : sent[k] <= IF k \in writes THEN 1 ELSE 2 * Modes

(* Of two calls that log in at the same time, one has lost its lock to     *)
(* the clock: giving back a lock that expired never opens another's.       *)
LoginsExclusive ==
    \A j, k \in Calls :
        Stage(j) \in Inside /\ Stage(k) \in Inside /\ {j, k} \cap overtaken = {} => j = k

(* The provider gets no more requests in a day than it allows, logins and  *)
(* retries of all processes included, but for those it was sent before     *)
(* midnight ("blocks the 401st outbound request",                          *)
(* docs/cdas-uat-checklist.md:247).                                        *)
WithinAllowance == received <= Limit + Cardinality(carried)

(* The session that the processes share is one login's token with that     *)
(* login's cookies.  Excused: an answer that came after its client had     *)
(* changed sessions, which pours the old cookies into the new jar.         *)
WholeSession == late # {} \/ shared.cookies = shared.token
=============================================================================
