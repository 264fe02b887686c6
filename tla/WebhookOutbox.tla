---------------------------- MODULE WebhookOutbox ----------------------------
(***************************************************************************)
(* The transactional outbox for company webhooks                           *)
(* (services/webhook_outbox_service.py, webhook_outbox_scheduler.py) and   *)
(* the Go worker it may hand a batch to (services/worker-go/main.go).      *)
(*                                                                         *)
(* Every backend process runs one scheduler.  A pass is ONE database       *)
(* transaction: it locks a batch of due events, sends them over HTTP, and  *)
(* only then commits what it learnt.  Between the HTTP request and the     *)
(* commit the process may die, the commit may fail, or the answer may be   *)
(* lost: the endpoint has then seen an event the outbox does not know of.  *)
(***************************************************************************)
EXTENDS Integers, FiniteSets

CONSTANTS
    Events,        \* webhook_outbox_events.id
    Workers,       \* backend processes, one scheduler task each
    MaxAttempts,   \* WEBHOOK_DELIVERY_MAX_ATTEMPTS
    BatchSize,     \* WEBHOOK_DELIVERY_BATCH_SIZE
    MaxTroubles    \* bound: passes that never commit and operators' replays

ASSUME LimitsAssumption ==
    /\ MaxAttempts \in Nat \ {0} /\ BatchSize \in Nat \ {0}
    /\ MaxTroubles \in Nat

VARIABLES
    outbox,     \* webhook_outbox_events: status and attempt_count
    due,        \* the queued events with next_attempt_at <= now
    older,      \* the pairs of due events in the order of next_attempt_at
    pass,       \* what each scheduler pass holds and has learnt, uncommitted
    stray,      \* requests at the Go worker that nobody waits for any more
    accepted,   \* external: how often the endpoint accepted the event
    excuse,     \* history: occasions on which an acceptance went unrecorded
    troubles    \* how much of that bound is used

vars == <<outbox, due, older, pass, stray, accepted, excuse, troubles>>

(* A pass has not locked the event, has locked it, has handed it to Go; Go *)
(* holds an outcome; or the pass knows the outcome and has not committed.  *)
Stage == {"free", "locked", "handed", "goOK", "goFailed", "ok", "failed"}

Queued == {"pending", "retrying"}

(* The type invariant.                                                     *)
TypeOK ==
    /\ outbox \in [Events -> [status : {"absent", "delivered", "dead_letter"} \cup Queued,
                              attempts : 0 .. MaxAttempts]]
    /\ due \subseteq Events
    /\ older \subseteq due \X due
    /\ pass \in [Workers -> [Events -> Stage]]
    /\ stray \in [Events -> Nat]
    /\ accepted \in [Events -> Nat]
    /\ excuse \in [Events -> Nat]
    /\ troubles \in 0 .. MaxTroubles

Init ==
    /\ outbox = [e \in Events |-> [status |-> "absent", attempts |-> 0]]
    /\ due = {} /\ older = {}
    /\ pass = [w \in Workers |-> [e \in Events |-> "free"]]
    /\ stray = [e \in Events |-> 0]
    /\ accepted = [e \in Events |-> 0]
    /\ excuse = [e \in Events |-> 0]
    /\ troubles = 0

-----------------------------------------------------------------------------
Held(w) == {e \in Events : pass[w][e] # "free"}
Locked(e) == \E w \in Workers : pass[w][e] # "free"

(* The endpoint's acceptance of an event; an answer that is lost, cut off  *)
(* or late makes it one the sender cannot know of.                         *)
Accept(e, known) ==
    /\ accepted' = [accepted EXCEPT ![e] = @ + 1]
    /\ excuse' = IF known THEN excuse ELSE [excuse EXCEPT ![e] = @ + 1]

FallsDue(e) ==
    /\ due' = due \cup {e}
    /\ older' = older \cup (due \X {e})

(* The business transaction that changes the loan or payment also adds the *)
(* event, so both are committed or neither is.                             *)
Enqueue(e) ==
    /\ outbox[e].status = "absent"
    /\ outbox' = [outbox EXCEPT ![e] = [status |-> "pending", attempts |-> 0]]
    /\ FallsDue(e)
    /\ UNCHANGED <<pass, stray, accepted, excuse, troubles>>

BecomeDue(e) ==
    /\ outbox[e].status = "retrying"
    /\ e \notin due
    /\ FallsDue(e)
    /\ UNCHANGED <<outbox, pass, stray, accepted, excuse, troubles>>

-----------------------------------------------------------------------------
(* One pass of a scheduler: process_outbox_batch.                          *)

Oldest(S) == {e \in S : Cardinality({f \in S : <<f, e>> \in older}) < BatchSize}

Lock(w, S) ==
    /\ Held(w) = {} /\ S # {}
    /\ pass' = [pass EXCEPT ![w] = [e \in Events |-> IF e \in S THEN "locked" ELSE "free"]]
    /\ UNCHANGED <<outbox, due, older, stray, accepted, excuse, troubles>>

(* Mutants: rows locked by another pass are not skipped; only first        *)
(* attempts are picked.                                                    *)
Claim_LockedToo(w) == Lock(w, Oldest(due))
Claim_PendingOnly(w) ==
    Lock(w, Oldest({e \in due : ~Locked(e) /\ outbox[e].status = "pending"}))

Claim(w) == Lock(w, Oldest({e \in due : ~Locked(e)}))

Learn(w, e, stage) == pass' = [pass EXCEPT ![w][e] = stage]

(* One HTTP request from Python: not sent or refused, accepted, or         *)
(* accepted with the answer lost.                                          *)
Deliver(w, e) ==
    /\ pass[w][e] = "locked"
    /\ \A f \in Events : pass[w][f] \in {"free", "locked", "ok", "failed"}
    /\ \/ Learn(w, e, "failed") /\ UNCHANGED <<accepted, excuse>>
       \/ Learn(w, e, "ok") /\ Accept(e, TRUE)
       \/ Learn(w, e, "failed") /\ Accept(e, FALSE)
    /\ UNCHANGED <<outbox, due, older, stray, troubles>>

(* The whole batch is handed to Go, but for the events that cannot be      *)
(* prepared (endpoint inactive, secret to be rotated, URL refused).        *)
HandToGo(w) ==
    /\ Held(w) # {} /\ \A e \in Held(w) : pass[w][e] = "locked"
    /\ \E jobs \in SUBSET Held(w) :
          pass' = [pass EXCEPT ![w] = [e \in Events |->
              IF e \in jobs THEN "handed" ELSE IF e \in Held(w) THEN "failed" ELSE "free"]]
    /\ UNCHANGED <<outbox, due, older, stray, accepted, excuse, troubles>>

GoDelivers(w, e) ==
    /\ pass[w][e] = "handed"
    /\ \/ Learn(w, e, "goFailed") /\ UNCHANGED <<accepted, excuse>>
       \/ Learn(w, e, "goOK") /\ Accept(e, TRUE)
       \/ Learn(w, e, "goFailed") /\ Accept(e, FALSE)
    /\ UNCHANGED <<outbox, due, older, stray, troubles>>

AtGo(w) == {e \in Events : pass[w][e] \in {"handed", "goOK", "goFailed"}}

(* Go answers when every request of the batch has ended.                   *)
GoAnswers(w) ==
    /\ AtGo(w) # {} /\ \A e \in Events : pass[w][e] # "handed"
    /\ pass' = [pass EXCEPT ![w] = [e \in Events |->
          IF pass[w][e] = "goOK" THEN "ok"
          ELSE IF pass[w][e] = "goFailed" THEN "failed" ELSE pass[w][e]]]
    /\ UNCHANGED <<outbox, due, older, stray, accepted, excuse, troubles>>

(* What Go was doing for a pass goes on without it.                        *)
Abandon(w, unrecorded) ==
    /\ stray' = [e \in Events |-> IF pass[w][e] = "handed" THEN stray[e] + 1 ELSE stray[e]]
    /\ excuse' = [e \in Events |-> IF pass[w][e] \in unrecorded THEN excuse[e] + 1 ELSE excuse[e]]

(* Mutant: an unknown outcome is taken for a delivery.                     *)
GoUnknown_Delivered(w) ==
    /\ AtGo(w) # {}
    /\ pass' = [pass EXCEPT ![w] = [e \in Events |-> IF e \in AtGo(w) THEN "ok" ELSE pass[w][e]]]
    /\ Abandon(w, {"goOK"})
    /\ UNCHANGED <<outbox, due, older, accepted, troubles>>

(* The request to Go times out or fails: no event of the batch is sent     *)
(* again at once, each is recorded as failed.                              *)
GoUnknown(w) ==
    /\ AtGo(w) # {}
    /\ pass' = [pass EXCEPT ![w] = [e \in Events |-> IF e \in AtGo(w) THEN "failed" ELSE pass[w][e]]]
    /\ Abandon(w, {"goOK"})
    /\ UNCHANGED <<outbox, due, older, accepted, troubles>>

StrayDelivers(e) ==
    /\ stray[e] > 0
    /\ stray' = [stray EXCEPT ![e] = @ - 1]
    /\ Accept(e, FALSE) \/ UNCHANGED <<accepted, excuse>>
    /\ UNCHANGED <<outbox, due, older, pass, troubles>>

(* Mutant: one attempt too many.                                           *)
Attempted_OneMore(row, ok) ==
    [status |-> IF ok THEN "delivered"
                ELSE IF row.attempts + 1 > MaxAttempts THEN "dead_letter" ELSE "retrying",
     attempts |-> row.attempts + 1]

(* What an attempt makes of an event's row.                                *)
Attempted(row, ok) ==
    [status |-> IF ok THEN "delivered"
                ELSE IF row.attempts + 1 >= MaxAttempts THEN "dead_letter" ELSE "retrying",
     attempts |-> row.attempts + 1]

Commit(w) ==
    /\ Held(w) # {} /\ \A e \in Held(w) : pass[w][e] \in {"ok", "failed"}
    /\ outbox' = [e \in Events |->
          IF e \in Held(w) THEN Attempted(outbox[e], pass[w][e] = "ok") ELSE outbox[e]]
    /\ due' = due \ Held(w)
    /\ older' = older \cap (due' \X due')
    /\ pass' = [pass EXCEPT ![w] = [e \in Events |-> "free"]]
    /\ UNCHANGED <<stray, accepted, excuse, troubles>>

(* The process dies, or the commit fails: the locks go, nothing is         *)
(* recorded, attempt_count included.                                       *)
Crash(w) ==
    /\ Held(w) # {} /\ troubles < MaxTroubles
    /\ troubles' = troubles + 1
    /\ pass' = [pass EXCEPT ![w] = [e \in Events |-> "free"]]
    /\ Abandon(w, {"ok", "goOK"})
    /\ UNCHANGED <<outbox, due, older, accepted>>

(* An operator sends a settled event again.                                *)
Replay(e) ==
    /\ outbox[e].status \in {"dead_letter", "delivered"} /\ troubles < MaxTroubles
    /\ troubles' = troubles + 1
    /\ outbox' = [outbox EXCEPT ![e] = [status |-> "pending", attempts |-> 0]]
    /\ FallsDue(e)
    /\ excuse' = [excuse EXCEPT ![e] = @ + 1]
    /\ UNCHANGED <<pass, stray, accepted>>

-----------------------------------------------------------------------------
PassStep(w) ==
    \/ Claim(w)
    \/ \E e \in Events : Deliver(w, e)
    \/ HandToGo(w)
    \/ \E e \in Events : GoDelivers(w, e)
    \/ GoAnswers(w)
    \/ GoUnknown(w)
    \/ Commit(w)

Next ==
    \/ \E w \in Workers : PassStep(w) \/ Crash(w)
    \/ \E e \in Events : Enqueue(e) \/ BecomeDue(e) \/ StrayDelivers(e) \/ Replay(e)

Spec == Init /\ [][Next]_vars

(* The scheduler's loop runs again after each pass, failed ones included;  *)
(* every HTTP call has a timeout; and time passes.                         *)
Fairness ==
    /\ \A w \in Workers : WF_vars(PassStep(w))
    /\ \A e \in Events : WF_vars(BecomeDue(e))

FairSpec == Spec /\ Fairness
-----------------------------------------------------------------------------
(* Correctness.                                                            *)

(* No event is accepted twice without a reason: each acceptance beyond the *)
(* first has a lost answer, a pass that never committed, or a replay to    *)
(* answer for it.  Two schedulers never send the same attempt.             *)
DuplicatesAreExcused == \A e \in Events : accepted[e] <= 1 + excuse[e]

(* An event is recorded as delivered only if its endpoint accepted it; it  *)
(* becomes a dead letter after exactly the configured attempts, and is     *)
(* retried only before that.                                               *)
SettledForAReason ==
    \A e \in Events :
        /\ outbox[e].status = "delivered" => accepted[e] > 0
        /\ outbox[e].status = "dead_letter" <=>
               outbox[e].attempts = MaxAttempts /\ outbox[e].status # "delivered"

(* Every event that was enqueued is delivered or becomes a dead letter,    *)
(* whichever process sends it and whatever crashes on the way.             *)
EventsSettle ==
    \A e \in Events :
        outbox[e].status \in Queued ~> outbox[e].status \in {"delivered", "dead_letter"}

(* The outbox implements what EventDelivery promises: no step gives an     *)
(* event a fate that was not promised.                                     *)
Fate == [e \in Events |->
    IF outbox[e].status = "absent" THEN "unpublished"
    ELSE IF outbox[e].status = "delivered" THEN "delivered"
    ELSE IF outbox[e].status = "dead_letter" THEN "dead" ELSE "queued"]
Reached == {e \in Events : accepted[e] > 0}

Promise == INSTANCE EventDelivery WITH fate <- Fate, reached <- Reached

KeepsPromise == Promise!Spec
=============================================================================
