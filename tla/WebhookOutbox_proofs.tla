------------------------ MODULE WebhookOutbox_proofs ------------------------
(* Theorems about WebhookOutbox, for every set of events and workers and   *)
(* every limit.                                                            *)
EXTENDS WebhookOutbox, TLAPS

Row == [status : {"absent", "delivered", "dead_letter"} \cup Queued, attempts : 0 .. MaxAttempts]

(* One pass at a time holds an event, and only a queued one; requests are  *)
(* about events that were enqueued.                                        *)
LocksHold ==
    /\ \A e \in Events : outbox[e].status = "absent" => stray[e] = 0
    /\ \A e \in due : outbox[e].status \in Queued
    /\ \A w \in Workers, e \in Events : pass[w][e] # "free" => outbox[e].status \in Queued
    /\ \A v, w \in Workers, e \in Events :
           pass[v][e] # "free" /\ pass[w][e] # "free" => v = w

(* The last acceptance of the event is known, to the outbox or to a pass.  *)
Known(e) ==
    \/ outbox[e].status = "delivered"
    \/ \E w \in Workers : pass[w][e] \in {"ok", "goOK"}

AcceptancesCounted ==
    \A e \in Events :
        /\ accepted[e] <= excuse[e] + 1
        /\ ~Known(e) => accepted[e] <= excuse[e]
        /\ Known(e) => accepted[e] > 0

AttemptsCounted ==
    \A e \in Events :
        /\ outbox[e].status \in {"absent"} \cup Queued => outbox[e].attempts < MaxAttempts
        /\ outbox[e].status = "dead_letter" => outbox[e].attempts = MaxAttempts

OutboxInv == TypeOK /\ LocksHold /\ AcceptancesCounted /\ AttemptsCounted

LEMMA LearnEffect ==
    ASSUME TypeOK, NEW w \in Workers, NEW e \in Events, NEW stage \in Stage, Learn(w, e, stage)
    PROVE  /\ pass' \in [Workers -> [Events -> Stage]]
           /\ pass'[w][e] = stage
           /\ \A v \in Workers, f \in Events : <<v, f>> # <<w, e>> => pass'[v][f] = pass[v][f]
BY DEF TypeOK, Learn

LEMMA AcceptEffect ==
    ASSUME TypeOK, NEW e \in Events, NEW known \in BOOLEAN, Accept(e, known)
    PROVE  /\ accepted' \in [Events -> Nat] /\ excuse' \in [Events -> Nat]
           /\ accepted'[e] = accepted[e] + 1
           /\ excuse'[e] = IF known THEN excuse[e] ELSE excuse[e] + 1
           /\ \A f \in Events \ {e} : accepted'[f] = accepted[f] /\ excuse'[f] = excuse[f]
BY DEF TypeOK, Accept

LEMMA AbandonEffect ==
    ASSUME TypeOK, NEW w \in Workers, NEW unrecorded, Abandon(w, unrecorded)
    PROVE  /\ stray' \in [Events -> Nat] /\ excuse' \in [Events -> Nat]
           /\ \A e \in Events :
                /\ excuse'[e] = IF pass[w][e] \in unrecorded THEN excuse[e] + 1 ELSE excuse[e]
                /\ pass[w][e] = "free" => stray'[e] = stray[e]
BY DEF TypeOK, Abandon

LEMMA FallsDueEffect ==
    ASSUME TypeOK, NEW e \in Events, FallsDue(e)
    PROVE  due' = due \cup {e} /\ due' \subseteq Events /\ older' \subseteq due' \X due'
BY DEF TypeOK, FallsDue

(* One request about a locked event ends, at Python or at Go.              *)
LEMMA RequestEnds ==
    ASSUME OutboxInv, NEW w \in Workers, NEW e \in Events, NEW ok \in Stage, NEW failed \in Stage,
           pass[w][e] \in {"locked", "handed"}, ok \in {"ok", "goOK"}, failed \in {"failed", "goFailed"},
           \/ Learn(w, e, failed) /\ UNCHANGED <<accepted, excuse>>
           \/ Learn(w, e, ok) /\ Accept(e, TRUE)
           \/ Learn(w, e, failed) /\ Accept(e, FALSE),
           UNCHANGED <<outbox, due, older, stray, troubles>>
    PROVE  OutboxInv'
<1>1. PICK stage \in {ok, failed} : Learn(w, e, stage)
  OBVIOUS
<1>2. /\ pass' \in [Workers -> [Events -> Stage]] /\ pass'[w][e] = stage
      /\ \A v \in Workers, f \in Events : <<v, f>> # <<w, e>> => pass'[v][f] = pass[v][f]
  BY <1>1, LearnEffect DEF OutboxInv
<1>3. accepted' \in [Events -> Nat] /\ excuse' \in [Events -> Nat]
  BY AcceptEffect DEF OutboxInv, TypeOK
<1>4. TypeOK'
  BY <1>2, <1>3 DEF OutboxInv, TypeOK
<1>5. LocksHold'
  BY <1>2 DEF OutboxInv, LocksHold
<1>6. AcceptancesCounted'
  <2>1. outbox[e].status \in Queued /\ ~Known(e)
    BY DEF OutboxInv, LocksHold, Known, Queued
  <2>2. accepted[e] <= excuse[e] /\ accepted[e] \in Nat /\ excuse[e] \in Nat
    BY <2>1 DEF OutboxInv, AcceptancesCounted, TypeOK
  <2>3. ASSUME NEW f \in Events \ {e}
        PROVE (Known(f)' <=> Known(f)) /\ accepted'[f] = accepted[f] /\ excuse'[f] = excuse[f]
    <3>1. \A v \in Workers : pass'[v][f] = pass[v][f]
      BY <1>2
    <3>2. accepted'[f] = accepted[f] /\ excuse'[f] = excuse[f]
      BY AcceptEffect DEF OutboxInv
    <3>3. QED
      BY <3>1, <3>2 DEF Known
  <2>4. CASE Learn(w, e, failed) /\ UNCHANGED <<accepted, excuse>>
    <3>1. ~Known(e)'
      <4>1. pass'[w][e] = failed
        BY <2>4, LearnEffect DEF OutboxInv
      <4>2. QED
        BY <1>2, <2>1, <4>1 DEF Known
    <3>2. QED
      BY <2>2, <2>3, <2>4, <3>1 DEF OutboxInv, AcceptancesCounted
  <2>5. CASE Learn(w, e, ok) /\ Accept(e, TRUE)
    <3>1. Known(e)'
      <4>1. pass'[w][e] = ok
        BY <2>5, LearnEffect DEF OutboxInv
      <4>2. QED
        BY <4>1 DEF Known
    <3>2. accepted'[e] = accepted[e] + 1 /\ excuse'[e] = excuse[e]
      BY <2>5, AcceptEffect DEF OutboxInv
    <3>3. QED
      BY <2>2, <2>3, <3>1, <3>2 DEF OutboxInv, AcceptancesCounted
  <2>6. CASE Learn(w, e, failed) /\ Accept(e, FALSE)
    <3>1. ~Known(e)'
      <4>1. pass'[w][e] = failed
        BY <2>6, LearnEffect DEF OutboxInv
      <4>2. QED
        BY <1>2, <2>1, <4>1 DEF Known
    <3>2. accepted'[e] = accepted[e] + 1 /\ excuse'[e] = excuse[e] + 1
      BY <2>6, AcceptEffect DEF OutboxInv
    <3>3. QED
      BY <2>2, <2>3, <3>1, <3>2 DEF OutboxInv, AcceptancesCounted
  <2>7. QED
    BY <2>4, <2>5, <2>6
<1>7. AttemptsCounted'
  BY DEF OutboxInv, AttemptsCounted
<1>8. QED
  BY <1>4, <1>5, <1>6, <1>7 DEF OutboxInv

(* A step after which no pass knows of an acceptance it did not know of    *)
(* before, and which excuses what it makes a pass forget.                  *)
LEMMA Forgets ==
    ASSUME OutboxInv, pass' \in [Workers -> [Events -> Stage]], excuse' \in [Events -> Nat],
           stray' \in [Events -> Nat], \A e \in Events : outbox[e].status = "absent" => stray'[e] = 0,
           UNCHANGED <<outbox, due, older, accepted>>, troubles' \in 0 .. MaxTroubles,
           \A w \in Workers, e \in Events :
               /\ pass'[w][e] # "free" => pass[w][e] # "free"
               /\ pass'[w][e] \in {"ok", "goOK"} => pass[w][e] \in {"ok", "goOK"},
           \A e \in Events :
               /\ excuse'[e] >= excuse[e]
               /\ \A w \in Workers :
                      pass[w][e] \in {"ok", "goOK"} /\ pass'[w][e] \notin {"ok", "goOK"}
                      => excuse'[e] >= excuse[e] + 1
    PROVE  OutboxInv'
<1>1. TypeOK'
  BY DEF OutboxInv, TypeOK
<1>2. LocksHold'
  BY DEF OutboxInv, LocksHold
<1>3. AcceptancesCounted'
  <2>1. ASSUME NEW e \in Events PROVE Known(e)' => Known(e)
    BY DEF Known
  <2>2. ASSUME NEW e \in Events, Known(e), ~Known(e)' PROVE excuse'[e] >= excuse[e] + 1
    BY <2>2 DEF Known
  <2>3. QED
    BY <2>1, <2>2 DEF OutboxInv, AcceptancesCounted, TypeOK
<1>4. AttemptsCounted'
  BY DEF OutboxInv, AttemptsCounted
<1>5. QED
  BY <1>1, <1>2, <1>3, <1>4 DEF OutboxInv

LEMMA ClaimStep ==
    ASSUME OutboxInv, NEW w \in Workers, Claim(w)
    PROVE  OutboxInv'
<1>1. PICK S \in SUBSET due :
        /\ \A e \in S : ~Locked(e)
        /\ Held(w) = {}
        /\ pass' = [pass EXCEPT ![w] = [e \in Events |-> IF e \in S THEN "locked" ELSE "free"]]
        /\ UNCHANGED <<outbox, due, older, stray, accepted, excuse, troubles>>
  <2> DEFINE S == Oldest({e \in due : ~Locked(e)})
  <2>1. S \subseteq {e \in due : ~Locked(e)}
    BY DEF Oldest
  <2>2. QED
    BY <2>1 DEF Claim, Lock
<1>2. pass' \in [Workers -> [Events -> Stage]]
  BY <1>1 DEF OutboxInv, TypeOK, Stage
<1>3. /\ \A e \in Events : pass'[w][e] = IF e \in S THEN "locked" ELSE "free"
      /\ \A v \in Workers \ {w} : pass'[v] = pass[v]
  BY <1>1 DEF OutboxInv, TypeOK
<1>4. TypeOK'
  BY <1>1, <1>2 DEF OutboxInv, TypeOK
<1>5. LocksHold'
  BY <1>1, <1>3 DEF OutboxInv, LocksHold, Locked
<1>6. AcceptancesCounted'
  <2>1. ASSUME NEW e \in Events PROVE Known(e)' <=> Known(e)
    BY <1>1, <1>3 DEF Known, Held
  <2>2. QED
    BY <1>1, <2>1 DEF OutboxInv, AcceptancesCounted
<1>7. AttemptsCounted'
  BY <1>1 DEF OutboxInv, AttemptsCounted
<1>8. QED
  BY <1>4, <1>5, <1>6, <1>7 DEF OutboxInv

LEMMA AttemptedEffect ==
    ASSUME NEW row \in Row, row.attempts < MaxAttempts, NEW ok \in BOOLEAN
    PROVE  /\ Attempted(row, ok) \in Row
           /\ Attempted(row, ok).status = "delivered" <=> ok
           /\ Attempted(row, ok).status \in {"delivered", "dead_letter", "retrying"}
           /\ Attempted(row, ok).status = "retrying" => Attempted(row, ok).attempts < MaxAttempts
           /\ Attempted(row, ok).status = "dead_letter" => Attempted(row, ok).attempts = MaxAttempts
<1> DEFINE status == IF ok THEN "delivered"
                     ELSE IF row.attempts + 1 >= MaxAttempts THEN "dead_letter" ELSE "retrying"
<1>1. row.attempts \in Nat /\ MaxAttempts \in Nat
  BY LimitsAssumption DEF Row
<1>2. row.attempts + 1 \in 0 .. MaxAttempts
  BY <1>1
<1>3. Attempted(row, ok) = [status |-> status, attempts |-> row.attempts + 1]
  BY DEF Attempted
<1>4. status \in {"delivered", "dead_letter", "retrying"} /\ (status = "delivered" <=> ok)
  OBVIOUS
<1>5. /\ status = "retrying" => row.attempts + 1 < MaxAttempts
      /\ status = "dead_letter" => row.attempts + 1 = MaxAttempts
  BY <1>1
<1>6. Attempted(row, ok) \in Row
  <2>1. status \in {"absent", "delivered", "dead_letter"} \cup Queued
    BY <1>4 DEF Queued
  <2>2. QED
    BY <1>2, <1>3, <2>1 DEF Row
<1>7. Attempted(row, ok).status = status /\ Attempted(row, ok).attempts = row.attempts + 1
  BY <1>3
<1> HIDE DEF status
<1>8. QED
  BY <1>4, <1>5, <1>6, <1>7

LEMMA CommitStep ==
    ASSUME OutboxInv, NEW w \in Workers, Commit(w)
    PROVE  OutboxInv'
<1>1. /\ \A e \in Events : pass'[w][e] = "free"
      /\ \A v \in Workers \ {w} : pass'[v] = pass[v]
      /\ pass' \in [Workers -> [Events -> Stage]]
  BY DEF Commit, OutboxInv, TypeOK, Stage
<1>2. ASSUME NEW e \in Events, pass[w][e] = "free" PROVE outbox'[e] = outbox[e]
  BY <1>2 DEF Commit, Held
<1>3. ASSUME NEW e \in Events, pass[w][e] # "free"
      PROVE  /\ pass[w][e] \in {"ok", "failed"} /\ e \notin due'
             /\ outbox[e].status \in Queued /\ outbox[e].attempts < MaxAttempts
             /\ outbox'[e] = Attempted(outbox[e], pass[w][e] = "ok")
  <2>1. e \in Held(w)
    BY <1>3 DEF Held
  <2>2. QED
    BY <1>3, <2>1 DEF Commit, OutboxInv, LocksHold, AttemptsCounted
<1>4. ASSUME NEW e \in Events
      PROVE  /\ outbox'[e] \in Row
             /\ outbox'[e].status \in {"absent"} \cup Queued => outbox'[e].attempts < MaxAttempts
             /\ outbox'[e].status = "dead_letter" => outbox'[e].attempts = MaxAttempts
  <2>1. CASE pass[w][e] = "free"
    BY <1>2, <2>1 DEF OutboxInv, TypeOK, AttemptsCounted, Row
  <2>2. CASE pass[w][e] # "free"
    <3>1. outbox[e] \in Row /\ (pass[w][e] = "ok") \in BOOLEAN
      BY DEF OutboxInv, TypeOK, Row
    <3>2. /\ outbox[e].attempts < MaxAttempts
          /\ outbox'[e] = Attempted(outbox[e], pass[w][e] = "ok")
      BY <1>3, <2>2
    <3>3. LET next == Attempted(outbox[e], pass[w][e] = "ok")
          IN  /\ next \in Row
              /\ next.status \in {"delivered", "dead_letter", "retrying"}
              /\ next.status = "retrying" => next.attempts < MaxAttempts
              /\ next.status = "dead_letter" => next.attempts = MaxAttempts
      BY <3>1, <3>2, AttemptedEffect, Zenon
    <3>4. QED
      BY <3>2, <3>3 DEF Queued
  <2>3. QED
    BY <2>1, <2>2
<1>5. TypeOK'
  <2>1. outbox' \in [Events -> Row]
    BY <1>4 DEF Commit
  <2>2. due' \subseteq Events /\ older' \subseteq due' \X due'
    BY DEF Commit, OutboxInv, TypeOK
  <2>3. QED
    BY <1>1, <2>1, <2>2 DEF Commit, OutboxInv, TypeOK, Row
<1>6. LocksHold'
  <2>1. ASSUME NEW v \in Workers, NEW e \in Events, pass'[v][e] # "free"
        PROVE  v # w /\ pass[v][e] # "free" /\ outbox'[e] = outbox[e]
    BY <1>1, <1>2, <2>1 DEF OutboxInv, LocksHold
  <2>2. ASSUME NEW e \in due' PROVE e \in due /\ outbox'[e] = outbox[e]
    BY <1>2, <1>3, <2>2 DEF Commit, OutboxInv, TypeOK
  <2>3. ASSUME NEW e \in Events, outbox'[e].status = "absent" PROVE stray'[e] = 0
    <3>1. outbox[e].status = "absent"
      <4>1. CASE pass[w][e] = "free"
        BY <1>2, <2>3, <4>1
      <4>2. CASE pass[w][e] # "free"
        <5>1. outbox[e] \in Row /\ (pass[w][e] = "ok") \in BOOLEAN
          BY DEF OutboxInv, TypeOK, Row
        <5>2. QED
          BY <1>3, <2>3, <4>2, <5>1, AttemptedEffect
      <4>3. QED
        BY <4>1, <4>2
    <3>2. QED
      BY <3>1 DEF Commit, OutboxInv, LocksHold
  <2>4. QED
    BY <2>1, <2>2, <2>3 DEF OutboxInv, LocksHold
<1>7. AcceptancesCounted'
  <2>1. ASSUME NEW e \in Events PROVE Known(e)' <=> Known(e)
    <3>1. CASE pass[w][e] = "free"
      BY <1>1, <1>2, <3>1 DEF Known
    <3>2. CASE pass[w][e] # "free"
      <4>1. \A v \in Workers : v # w => pass[v][e] = "free" /\ pass'[v][e] = "free"
        BY <1>1, <3>2 DEF OutboxInv, LocksHold
      <4>2. Known(e) <=> pass[w][e] = "ok"
        BY <1>3, <3>2, <4>1 DEF Known, Queued
      <4>3. outbox'[e].status = "delivered" <=> pass[w][e] = "ok"
        <5>1. outbox[e] \in Row /\ (pass[w][e] = "ok") \in BOOLEAN
          BY DEF OutboxInv, TypeOK, Row
        <5>2. QED
          BY <1>3, <3>2, <5>1, AttemptedEffect
      <4>4. QED
        BY <1>1, <4>1, <4>2, <4>3 DEF Known
    <3>3. QED
      BY <3>1, <3>2
  <2>2. QED
    BY <2>1 DEF Commit, OutboxInv, AcceptancesCounted
<1>8. AttemptsCounted'
  BY <1>4 DEF AttemptsCounted
<1>9. QED
  BY <1>5, <1>6, <1>7, <1>8 DEF OutboxInv

LEMMA PassStepInv ==
    ASSUME OutboxInv, NEW w \in Workers, PassStep(w)
    PROVE  OutboxInv'
<1>1. CASE Claim(w)
  BY <1>1, ClaimStep
<1>2. ASSUME NEW e \in Events, Deliver(w, e) PROVE OutboxInv'
  BY <1>2, RequestEnds DEF Deliver, Stage
<1>3. CASE HandToGo(w)
  <2>1. PICK jobs \in SUBSET Held(w) :
          pass' = [pass EXCEPT ![w] = [e \in Events |->
              IF e \in jobs THEN "handed" ELSE IF e \in Held(w) THEN "failed" ELSE "free"]]
    BY <1>3 DEF HandToGo
  <2>2. pass' \in [Workers -> [Events -> Stage]]
    BY <2>1 DEF OutboxInv, TypeOK, Stage
  <2>3. /\ \A e \in Events : /\ pass'[w][e] \in {"handed", "failed", "free"}
                             /\ pass'[w][e] # "free" => pass[w][e] # "free"
                             /\ pass[w][e] \in {"free", "locked"}
        /\ \A v \in Workers \ {w} : pass'[v] = pass[v]
    BY <1>3, <2>1 DEF HandToGo, Held, OutboxInv, TypeOK
  <2>4. UNCHANGED <<outbox, due, older, stray, accepted, excuse, troubles>>
    BY <1>3 DEF HandToGo
  <2>5. /\ excuse \in [Events -> Nat] /\ stray \in [Events -> Nat] /\ troubles \in 0 .. MaxTroubles
        /\ \A e \in Events : outbox[e].status = "absent" => stray[e] = 0
    BY DEF OutboxInv, TypeOK, LocksHold
  <2>6. \A v \in Workers, e \in Events :
            /\ pass'[v][e] # "free" => pass[v][e] # "free"
            /\ pass'[v][e] \in {"ok", "goOK"} => pass[v][e] \in {"ok", "goOK"}
            /\ pass[v][e] \in {"ok", "goOK"} => pass'[v][e] \in {"ok", "goOK"}
    BY <2>3
  <2>7. QED
    BY <2>2, <2>4, <2>5, <2>6, Forgets
<1>4. ASSUME NEW e \in Events, GoDelivers(w, e) PROVE OutboxInv'
  BY <1>4, RequestEnds DEF GoDelivers, Stage
<1>5. CASE GoAnswers(w)
  <2>1. /\ pass' \in [Workers -> [Events -> Stage]]
        /\ \A v \in Workers, e \in Events :
              /\ pass'[v][e] # "free" => pass[v][e] # "free"
              /\ pass'[v][e] \in {"ok", "goOK"} <=> pass[v][e] \in {"ok", "goOK"}
    BY <1>5 DEF GoAnswers, OutboxInv, TypeOK, Stage
  <2>2. UNCHANGED <<outbox, due, older, stray, accepted, excuse, troubles>>
    BY <1>5 DEF GoAnswers
  <2>3. /\ excuse \in [Events -> Nat] /\ stray \in [Events -> Nat] /\ troubles \in 0 .. MaxTroubles
        /\ \A e \in Events : outbox[e].status = "absent" => stray[e] = 0
    BY DEF OutboxInv, TypeOK, LocksHold
  <2>4. QED
    BY <2>1, <2>2, <2>3, Forgets
<1>6. CASE GoUnknown(w)
  <2>1. /\ pass' \in [Workers -> [Events -> Stage]]
        /\ \A e \in Events : pass'[w][e] = IF e \in AtGo(w) THEN "failed" ELSE pass[w][e]
        /\ \A v \in Workers \ {w} : pass'[v] = pass[v]
    BY <1>6 DEF GoUnknown, OutboxInv, TypeOK, Stage
  <2>2. /\ stray' \in [Events -> Nat] /\ excuse' \in [Events -> Nat]
        /\ \A e \in Events :
             /\ excuse'[e] = IF pass[w][e] \in {"goOK"} THEN excuse[e] + 1 ELSE excuse[e]
             /\ outbox[e].status = "absent" => stray'[e] = 0
    BY <1>6, AbandonEffect DEF GoUnknown, OutboxInv, LocksHold, Queued
  <2>3. \A v \in Workers, e \in Events :
            /\ pass'[v][e] # "free" => pass[v][e] # "free"
            /\ pass'[v][e] \in {"ok", "goOK"} => pass[v][e] \in {"ok", "goOK"}
            /\ pass[v][e] \in {"ok", "goOK"} /\ pass'[v][e] \notin {"ok", "goOK"}
               => v = w /\ pass[w][e] = "goOK"
    BY <2>1 DEF AtGo
  <2>4. UNCHANGED <<outbox, due, older, accepted>> /\ troubles' \in 0 .. MaxTroubles
    BY <1>6 DEF GoUnknown, OutboxInv, TypeOK
  <2>5. \A e \in Events :
            /\ excuse'[e] >= excuse[e]
            /\ \A v \in Workers :
                   pass[v][e] \in {"ok", "goOK"} /\ pass'[v][e] \notin {"ok", "goOK"}
                   => excuse'[e] >= excuse[e] + 1
    BY <2>2, <2>3 DEF OutboxInv, TypeOK
  <2>6. QED
    BY <2>1, <2>2, <2>3, <2>4, <2>5, Forgets
<1>7. CASE Commit(w)
  BY <1>7, CommitStep
<1>8. QED
  BY <1>1, <1>2, <1>3, <1>4, <1>5, <1>6, <1>7 DEF PassStep

LEMMA EventStepInv ==
    ASSUME OutboxInv, NEW e \in Events,
           Enqueue(e) \/ BecomeDue(e) \/ StrayDelivers(e) \/ Replay(e)
    PROVE  OutboxInv'
<1>1. ASSUME /\ outbox[e].status \notin Queued
             /\ outbox' = [outbox EXCEPT ![e] = [status |-> "pending", attempts |-> 0]]
             /\ FallsDue(e) /\ UNCHANGED <<pass, stray, accepted>>
             /\ troubles' \in 0 .. MaxTroubles
             /\ \/ outbox[e].status = "absent" /\ UNCHANGED excuse
                \/ excuse' = [excuse EXCEPT ![e] = @ + 1]
      PROVE  OutboxInv'
  <2>1. outbox' \in [Events -> Row]
    BY <1>1, LimitsAssumption DEF OutboxInv, TypeOK, Row, Queued
  <2>2. TypeOK'
    BY <1>1, <2>1, FallsDueEffect DEF OutboxInv, TypeOK, Row
  <2>3. \A w \in Workers : pass[w][e] = "free"
    BY <1>1 DEF OutboxInv, LocksHold
  <2>4. /\ outbox'[e].status = "pending" /\ outbox'[e].attempts = 0
        /\ \A f \in Events \ {e} : outbox'[f] = outbox[f]
    BY <1>1 DEF OutboxInv, TypeOK
  <2>5. LocksHold'
    BY <1>1, <2>4, FallsDueEffect DEF OutboxInv, TypeOK, LocksHold, Queued
  <2>6. AcceptancesCounted'
    <3>1. ASSUME NEW f \in Events \ {e} PROVE (Known(f)' <=> Known(f)) /\ excuse'[f] = excuse[f]
      BY <1>1, <2>4 DEF Known, OutboxInv, TypeOK
    <3>2. ~Known(e)'
      BY <1>1, <2>3, <2>4 DEF Known
    <3>3. accepted[e] <= excuse'[e]
      <4>1. CASE outbox[e].status = "absent" /\ UNCHANGED excuse
        <5>1. ~Known(e)
          BY <2>3, <4>1 DEF Known
        <5>2. QED
          BY <4>1, <5>1 DEF OutboxInv, AcceptancesCounted
      <4>2. CASE excuse' = [excuse EXCEPT ![e] = @ + 1]
        BY <4>2 DEF OutboxInv, AcceptancesCounted, TypeOK
      <4>3. QED
        BY <1>1, <4>1, <4>2
    <3>4. accepted[e] \in Nat /\ excuse'[e] \in Nat
      BY <2>2 DEF OutboxInv, TypeOK
    <3>5. QED
      BY <1>1, <3>1, <3>2, <3>3, <3>4 DEF OutboxInv, AcceptancesCounted
  <2>7. AttemptsCounted'
    BY <2>4, LimitsAssumption DEF OutboxInv, AttemptsCounted
  <2>8. QED
    BY <2>2, <2>5, <2>6, <2>7 DEF OutboxInv
<1>2. CASE Enqueue(e)
  BY <1>1, <1>2 DEF Enqueue, OutboxInv, TypeOK, Queued
<1>3. CASE Replay(e)
  <2>1. troubles' \in 0 .. MaxTroubles
    BY <1>3, LimitsAssumption DEF Replay, OutboxInv, TypeOK
  <2>2. QED
    BY <1>1, <1>3, <2>1 DEF Replay, Queued
<1>4. CASE BecomeDue(e)
  <2>1. TypeOK'
    BY <1>4, FallsDueEffect DEF BecomeDue, OutboxInv, TypeOK
  <2>2. LocksHold' /\ AttemptsCounted'
    BY <1>4, FallsDueEffect DEF BecomeDue, OutboxInv, LocksHold, AttemptsCounted, Queued
  <2>3. AcceptancesCounted'
    BY <1>4 DEF BecomeDue, OutboxInv, AcceptancesCounted, Known
  <2>4. QED
    BY <2>1, <2>2, <2>3 DEF OutboxInv
<1>5. CASE StrayDelivers(e)
  <2>1. /\ accepted' \in [Events -> Nat] /\ excuse' \in [Events -> Nat]
        /\ \/ UNCHANGED <<accepted, excuse>>
           \/ /\ accepted'[e] = accepted[e] + 1 /\ excuse'[e] = excuse[e] + 1
              /\ \A f \in Events \ {e} : accepted'[f] = accepted[f] /\ excuse'[f] = excuse[f]
    BY <1>5, AcceptEffect DEF StrayDelivers, OutboxInv, TypeOK
  <2>2. stray' \in [Events -> Nat]
    BY <1>5 DEF StrayDelivers, OutboxInv, TypeOK
  <2>3. TypeOK'
    BY <1>5, <2>1, <2>2 DEF StrayDelivers, OutboxInv, TypeOK
  <2>4. LocksHold' /\ AttemptsCounted'
    BY <1>5 DEF StrayDelivers, OutboxInv, LocksHold, AttemptsCounted
  <2>5. AcceptancesCounted'
    <3>1. \A f \in Events : Known(f)' <=> Known(f)
      BY <1>5 DEF StrayDelivers, Known
    <3>2. QED
      BY <2>1, <3>1 DEF OutboxInv, AcceptancesCounted, TypeOK
  <2>6. QED
    BY <2>3, <2>4, <2>5 DEF OutboxInv
<1>6. QED
  BY <1>2, <1>3, <1>4, <1>5

LEMMA CrashInv ==
    ASSUME OutboxInv, NEW w \in Workers, Crash(w)
    PROVE  OutboxInv'
<1>1. /\ pass' \in [Workers -> [Events -> Stage]]
      /\ \A e \in Events : pass'[w][e] = "free"
      /\ \A v \in Workers \ {w} : pass'[v] = pass[v]
  BY DEF Crash, OutboxInv, TypeOK, Stage
<1>2. /\ stray' \in [Events -> Nat] /\ excuse' \in [Events -> Nat]
      /\ \A e \in Events :
           /\ excuse'[e] = IF pass[w][e] \in {"ok", "goOK"} THEN excuse[e] + 1 ELSE excuse[e]
           /\ outbox[e].status = "absent" => stray'[e] = 0
  BY AbandonEffect DEF Crash, OutboxInv, LocksHold, Queued
<1>3. UNCHANGED <<outbox, due, older, accepted>> /\ troubles' \in 0 .. MaxTroubles
  BY LimitsAssumption DEF Crash, OutboxInv, TypeOK
<1>4. \A v \in Workers, e \in Events :
          /\ pass'[v][e] # "free" => pass[v][e] # "free"
          /\ pass'[v][e] \in {"ok", "goOK"} => pass[v][e] \in {"ok", "goOK"}
          /\ pass[v][e] \in {"ok", "goOK"} /\ pass'[v][e] \notin {"ok", "goOK"} => v = w
  BY <1>1
<1>5. \A e \in Events :
          /\ excuse'[e] >= excuse[e]
          /\ \A v \in Workers :
                 pass[v][e] \in {"ok", "goOK"} /\ pass'[v][e] \notin {"ok", "goOK"}
                 => excuse'[e] >= excuse[e] + 1
  BY <1>2, <1>4 DEF OutboxInv, TypeOK
<1>6. QED
  BY <1>1, <1>2, <1>3, <1>4, <1>5, Forgets

(* OutboxInv is inductive.                                                 *)
THEOREM OutboxInvariant == Spec => []OutboxInv
<1>1. Init => OutboxInv
  <2> SUFFICES ASSUME Init PROVE OutboxInv
    OBVIOUS
  <2>1. TypeOK
    BY LimitsAssumption DEF Init, TypeOK, Stage
  <2>2. LocksHold /\ AcceptancesCounted /\ AttemptsCounted
    BY LimitsAssumption DEF Init, LocksHold, AcceptancesCounted, AttemptsCounted, Known
  <2>3. QED
    BY <2>1, <2>2 DEF OutboxInv
<1>2. OutboxInv /\ [Next]_vars => OutboxInv'
  <2> SUFFICES ASSUME OutboxInv, [Next]_vars PROVE OutboxInv'
    OBVIOUS
  <2>1. CASE \E w \in Workers : PassStep(w) \/ Crash(w)
    BY <2>1, PassStepInv, CrashInv
  <2>2. CASE \E e \in Events : Enqueue(e) \/ BecomeDue(e) \/ StrayDelivers(e) \/ Replay(e)
    BY <2>2, EventStepInv
  <2>3. CASE UNCHANGED vars
    BY <2>3 DEF vars, OutboxInv, TypeOK, LocksHold, AcceptancesCounted, AttemptsCounted, Known
  <2>4. QED
    BY <2>1, <2>2, <2>3 DEF Next
<1>3. QED
  BY <1>1, <1>2, PTL DEF Spec

(* Whatever crashes, times out, is replayed or is sent by which process,   *)
(* an endpoint accepts an event again only for a recorded reason           *)
(* (with_for_update(skip_locked=True), webhook_outbox_service.py:377).     *)
THEOREM NoUnexcusedDuplicate == Spec => []DuplicatesAreExcused
<1>1. OutboxInv => DuplicatesAreExcused
  BY DEF OutboxInv, AcceptancesCounted, DuplicatesAreExcused, TypeOK
<1>2. QED
  BY <1>1, OutboxInvariant, PTL

(* "Delivered" is never recorded of an event no endpoint accepted, and the *)
(* dead letter comes at the configured attempt, not before or after.       *)
THEOREM SettlementIsJustified == Spec => []SettledForAReason
<1>1. OutboxInv => SettledForAReason
  <2> SUFFICES ASSUME OutboxInv, NEW e \in Events
               PROVE  /\ outbox[e].status = "delivered" => accepted[e] > 0
                      /\ outbox[e].status = "dead_letter" <=>
                             outbox[e].attempts = MaxAttempts /\ outbox[e].status # "delivered"
    BY DEF SettledForAReason
  <2>1. outbox[e].status = "delivered" => accepted[e] > 0
    BY DEF OutboxInv, AcceptancesCounted, Known
  <2>2. outbox[e].status \in {"absent", "delivered", "dead_letter"} \cup Queued
    BY DEF OutboxInv, TypeOK
  <2>3. outbox[e].status \in {"absent"} \cup Queued => outbox[e].attempts # MaxAttempts
    BY LimitsAssumption DEF OutboxInv, TypeOK, AttemptsCounted
  <2>4. QED
    BY <2>1, <2>2, <2>3 DEF OutboxInv, AttemptsCounted
<1>2. QED
  BY <1>1, OutboxInvariant, PTL

-----------------------------------------------------------------------------
(* The outbox implements EventDelivery.                                    *)

LEMMA SameFate ==
    ASSUME \A e \in Events : outbox'[e].status \in Queued <=> outbox[e].status \in Queued,
           \A e \in Events : outbox[e].status \notin Queued => outbox'[e].status = outbox[e].status
    PROVE  UNCHANGED Fate
BY DEF Fate, Queued

LEMMA Accepts ==
    ASSUME OutboxInv, NEW e \in Events, UNCHANGED outbox, outbox[e].status # "absent",
           \/ UNCHANGED accepted
           \/ Accept(e, TRUE)
           \/ Accept(e, FALSE)
    PROVE  [Promise!Next]_(Promise!vars)
<1>1. UNCHANGED Fate
  BY DEF Fate
<1>2. CASE UNCHANGED accepted
  BY <1>1, <1>2 DEF Promise!vars, Reached
<1>3. CASE Accept(e, TRUE) \/ Accept(e, FALSE)
  <2>1. Reached' = Reached \cup {e}
    <3>1. /\ accepted'[e] = accepted[e] + 1 /\ accepted[e] \in Nat
          /\ \A f \in Events \ {e} : accepted'[f] = accepted[f]
      BY <1>3, AcceptEffect DEF OutboxInv, TypeOK
    <3>2. accepted'[e] > 0
      BY <3>1
    <3>3. QED
      BY <3>1, <3>2 DEF Reached
  <2>2. Fate[e] # "unpublished"
    BY DEF Fate
  <2>3. Promise!Reach(e)
    BY <1>1, <2>1, <2>2 DEF Promise!Reach
  <2>4. QED
    BY <2>3 DEF Promise!Next
<1>4. QED
  BY <1>2, <1>3

LEMMA Publishes ==
    ASSUME OutboxInv, NEW e \in Events, outbox[e].status \notin Queued, UNCHANGED accepted,
           outbox' = [outbox EXCEPT ![e] = [status |-> "pending", attempts |-> 0]]
    PROVE  [Promise!Next]_(Promise!vars)
<1>1. /\ outbox'[e].status = "pending"
      /\ \A f \in Events \ {e} : outbox'[f] = outbox[f]
  BY DEF OutboxInv, TypeOK
<1>2. Fate[e] # "queued"
  BY DEF Fate, OutboxInv, TypeOK, Queued
<1>3. Fate' = [Fate EXCEPT ![e] = "queued"]
  BY <1>1 DEF Fate
<1>4. UNCHANGED Reached
  BY DEF Reached
<1>5. Promise!Publish(e)
  BY <1>2, <1>3, <1>4 DEF Promise!Publish
<1>6. QED
  BY <1>5 DEF Promise!Next

LEMMA Settles ==
    ASSUME OutboxInv, NEW w \in Workers, Commit(w)
    PROVE  [Promise!Next]_(Promise!vars)
<1> DEFINE S == {e \in Held(w) : outbox'[e].status \notin Queued}
           verdict == [e \in S |-> IF outbox'[e].status = "delivered" THEN "delivered" ELSE "dead"]
<1>1. UNCHANGED accepted /\ UNCHANGED Reached
  BY DEF Commit, Reached
<1>2. ASSUME NEW e \in Events
      PROVE  \/ pass[w][e] = "free" /\ outbox'[e] = outbox[e]
             \/ /\ pass[w][e] # "free" /\ outbox[e].status \in Queued
                /\ outbox'[e].status \in {"delivered", "dead_letter", "retrying"}
                /\ outbox'[e].status = "delivered" => accepted[e] > 0
  <2>1. CASE pass[w][e] = "free"
    BY <2>1 DEF Commit, Held
  <2>2. CASE pass[w][e] # "free"
    <3>1. e \in Held(w) /\ outbox'[e] = Attempted(outbox[e], pass[w][e] = "ok")
      BY <2>2 DEF Commit, Held
    <3>2. outbox[e] \in Row /\ (pass[w][e] = "ok") \in BOOLEAN
      BY DEF OutboxInv, TypeOK, Row
    <3>3. outbox[e].status \in Queued /\ outbox[e].attempts < MaxAttempts
      BY <2>2 DEF OutboxInv, LocksHold, AttemptsCounted
    <3>4. pass[w][e] = "ok" => accepted[e] > 0
      BY DEF OutboxInv, AcceptancesCounted, Known
    <3>5. QED
      BY <2>2, <3>1, <3>2, <3>3, <3>4, AttemptedEffect
  <2>3. QED
    BY <2>1, <2>2
<1>3. CASE S = {}
  <2>1. UNCHANGED Fate
    BY <1>2, <1>3, SameFate DEF Held
  <2>2. QED
    BY <1>1, <2>1 DEF Promise!vars
<1>4. CASE S # {}
  <2>1. S \in SUBSET Events /\ verdict \in [S -> {"delivered", "dead"}]
    BY DEF Held
  <2>2. \A e \in S : Fate[e] = "queued" /\ (verdict[e] = "delivered" => e \in Reached)
    BY <1>2 DEF Held, Fate, Reached, Queued
  <2>3. Fate' = [e \in Events |-> IF e \in S THEN verdict[e] ELSE Fate[e]]
    <3>1. ASSUME NEW e \in Events
          PROVE  Fate'[e] = IF e \in S THEN verdict[e] ELSE Fate[e]
      BY <1>2 DEF Held, Fate, Queued
    <3>2. QED
      BY <3>1 DEF Fate
  <2>4. Promise!Settle
    BY <1>1, <1>4, <2>1, <2>2, <2>3 DEF Promise!Settle
  <2>5. QED
    BY <2>4 DEF Promise!Next
<1>5. QED
  BY <1>3, <1>4

(* The outbox keeps what EventDelivery promises: at-least-once delivery or *)
(* a dead letter, replay by hand, and no other fate.                       *)
THEOREM ImplementsEventDelivery == Spec => KeepsPromise
<1>1. Init => Promise!Init
  BY DEF Init, Promise!Init, Fate, Reached
<1>2. OutboxInv /\ [Next]_vars => [Promise!Next]_(Promise!vars)
  <2> SUFFICES ASSUME OutboxInv, [Next]_vars PROVE [Promise!Next]_(Promise!vars)
    OBVIOUS
  <2>1. CASE UNCHANGED <<outbox, accepted>>
    BY <2>1 DEF Promise!vars, Fate, Reached
  <2>2. ASSUME NEW w \in Workers, NEW e \in Events, Deliver(w, e) \/ GoDelivers(w, e)
        PROVE  [Promise!Next]_(Promise!vars)
    <3>1. outbox[e].status # "absent"
      BY <2>2 DEF Deliver, GoDelivers, OutboxInv, LocksHold, Queued
    <3>2. QED
      BY <2>2, <3>1, Accepts DEF Deliver, GoDelivers
  <2>3. ASSUME NEW w \in Workers, Commit(w) PROVE [Promise!Next]_(Promise!vars)
    BY <2>3, Settles
  <2>4. ASSUME NEW e \in Events, StrayDelivers(e) PROVE [Promise!Next]_(Promise!vars)
    <3>1. outbox[e].status # "absent"
      BY <2>4 DEF StrayDelivers, OutboxInv, LocksHold
    <3>2. QED
      BY <2>4, <3>1, Accepts DEF StrayDelivers
  <2>5. ASSUME NEW e \in Events, Enqueue(e) \/ Replay(e) PROVE [Promise!Next]_(Promise!vars)
    BY <2>5, Publishes DEF Enqueue, Replay, Queued
  <2>6. QED
    BY <2>1, <2>2, <2>3, <2>4, <2>5
    DEF Next, PassStep, Claim, Lock, HandToGo, GoAnswers, GoUnknown, Crash, BecomeDue, vars
<1>3. QED
  BY <1>1, <1>2, OutboxInvariant, PTL DEF Spec, KeepsPromise, Promise!Spec
=============================================================================
