---------------------------- MODULE BillingProofs ---------------------------
(***************************************************************************)
(* Proofs about the two parts of billing: StripeWebhook for any number of  *)
(* jobs, events and attempts, EntitlementCache for any number of processes *)
(* and calls. Each theorem is about one of the two specifications.         *)
(*                                                                         *)
(* The webhook's argument: a job has its event for itself (OneJobPerEvent, *)
(* which needs the count of attempts), so between its marker and its       *)
(* UPDATE no other job acts on the event (MarkedFirst).                    *)
(***************************************************************************)
EXTENDS StripeWebhook, EntitlementCache, TLAPS

\* The invariant that JobAssumption makes inductive. A job has its event for itself;
OneJobPerEvent == \A i, j \in Jobs : ev[i] = ev[j] /\ ev[i] # NoEvent => i = j

\* an event in the queue has an attempt left, one never received all of them and no marker;
AttemptsAreCounted ==
    \A e \in Events :
        /\ queue[e] = "none" => left[e] = Attempts /\ e \notin marked
        /\ queue[e] = "waiting" => left[e] > 0

\* and a job past the marker has its event marked and not yet acted on.
MarkedFirst ==
    /\ \A e \in Events : done[e] <= 1 /\ (e \notin marked => done[e] = 0)
    /\ \A j \in Jobs : pc[j] \in {"map", "guard", "apply"} =>
                           ev[j] \in marked /\ done[ev[j]] = 0

JobInv == WebhookTypeOK /\ OneJobPerEvent /\ AttemptsAreCounted /\ MarkedFirst

Statuses == {"ACTIVE", "PAST_DUE", "CANCELED"}

\* The row takes a time up to now: it is typed, and newest with it.
LEMMA PutIs ==
  ASSUME WebhookTypeOK, NEW s \in Statuses, NEW t \in 0..now,
         Put([status |-> s, updated |-> t])
  PROVE  /\ org' \in [status : Statuses, updated : 0..newest']
         /\ org'.updated = t
         /\ newest' \in newest..now
         /\ raced' = raced \cup {j \in Jobs : pc[j] = "apply"}
<1>1. newest \in 0..now /\ now \in Nat
  BY JobAssumption DEF WebhookTypeOK, Times
<1>2. /\ org' = [status |-> s, updated |-> t] /\ org'.updated = t
      /\ newest' = IF t > newest THEN t ELSE newest
      /\ raced' = raced \cup {j \in Jobs : pc[j] = "apply"}
  BY DEF Put
<1>3. newest' \in newest..now /\ t \in 0..newest'
  BY <1>1, <1>2
<1> QED
  BY <1>2, <1>3

\* What Written does: nothing, or the row takes the event's time.
LEMMA WrittenIs ==
  ASSUME WebhookTypeOK, NEW j \in Jobs, ev[j] # NoEvent, Written(j)
  PROVE  \/ UNCHANGED <<org, newest, raced>>
         \/ /\ org' \in [status : Statuses, updated : 0..newest']
            /\ org'.updated = sent[ev[j]].created
            /\ newest' \in newest..now
            /\ raced' = raced \cup {k \in Jobs : pc[k] = "apply"}
<1> DEFINE at == sent[ev[j]].created
<1>1. at \in 0..now /\ org \in [status : Statuses, updated : 0..now]
  BY JobAssumption DEF WebhookTypeOK, Times, Statuses
<1>2. \/ UNCHANGED <<org, newest, raced>>
      \/ Put([org EXCEPT !.status = "ACTIVE", !.updated = at])
      \/ Put([org EXCEPT !.status = "PAST_DUE", !.updated = at])
      \/ Put([status |-> "CANCELED", updated |-> at])
      \/ Put([org EXCEPT !.updated = at])
  BY DEF Written, rowVars
<1>3. \/ UNCHANGED <<org, newest, raced>>
      \/ \E s \in Statuses : Put([status |-> s, updated |-> at])
  <2>1. /\ org.status \in Statuses
        /\ [org EXCEPT !.updated = at] = [status |-> org.status, updated |-> at]
    BY <1>1
  <2>2. ASSUME NEW s \in Statuses
        PROVE  [org EXCEPT !.status = s, !.updated = at] = [status |-> s, updated |-> at]
    <3> DEFINE r == [org EXCEPT !.status = s, !.updated = at]
    <3>1. r \in [status : Statuses, updated : 0..now] /\ r.status = s /\ r.updated = at
      BY <1>1
    <3> HIDE DEF r
    <3>2. r = [status |-> s, updated |-> at]
      BY <3>1
    <3> QED
      BY <3>2 DEF r
  <2> QED
    BY <1>2, <2>1, <2>2 DEF Statuses
<1> QED
  BY <1>1, <1>3, PutIs

\* A route writes the row at its own time, which is the latest.
LEMMA RouteIs ==
  ASSUME WebhookTypeOK, RouteUpdate
  PROVE  /\ org' \in [status : Statuses, updated : 0..newest']
         /\ org'.updated = now
         /\ newest' \in newest..now
         /\ raced' = raced \cup {k \in Jobs : pc[k] = "apply"}
<1>1. now \in 0..now /\ org \in [status : Statuses, updated : 0..now]
  BY JobAssumption DEF WebhookTypeOK, Times, Statuses
<1>2. \E s \in Statuses : Put([status |-> s, updated |-> now])
  <2>1. /\ org.status \in Statuses
        /\ [org EXCEPT !.updated = now] = [status |-> org.status, updated |-> now]
    BY <1>1
  <2> QED
    BY <2>1 DEF RouteUpdate
<1> QED
  BY <1>1, <1>2, PutIs

Places == {"free", "mark", "map", "guard", "apply", "refresh"}
Queues == {"none", "waiting", "active", "completed", "failed"}

\* A job goes on.
LEMMA AtIs ==
  ASSUME WebhookTypeOK, NEW j \in Jobs, NEW s \in Places \ {"free"}, At(j, s), pc[j] # "free"
  PROVE  /\ pc' \in [Jobs -> Places]
         /\ pc'[j] = s /\ \A k \in Jobs \ {j} : pc'[k] = pc[k]
         /\ ev' = ev /\ queue' = queue
         /\ \A k \in Jobs : (pc'[k] = "free" <=> ev'[k] = NoEvent)
                            /\ (ev'[k] # NoEvent => queue'[ev'[k]] = "active")
<1>1. /\ pc' \in [Jobs -> Places]
      /\ pc'[j] = s /\ \A k \in Jobs \ {j} : pc'[k] = pc[k]
      /\ ev' = ev /\ queue' = queue
  BY DEF WebhookTypeOK, At, Places
<1>2. \A k \in Jobs : pc'[k] = "free" <=> pc[k] = "free"
  BY <1>1
<1> QED
  BY <1>1, <1>2 DEF WebhookTypeOK

\* A job ends: its event leaves its hands, and no other job's.
LEMMA LeaveIs ==
  ASSUME WebhookTypeOK, OneJobPerEvent, NEW j \in Jobs, ev[j] # NoEvent,
         NEW s \in Queues, Leave(j, s)
  PROVE  /\ pc' \in [Jobs -> Places] /\ ev' \in [Jobs -> Events \cup {NoEvent}]
         /\ queue' \in [Events -> Queues]
         /\ pc'[j] = "free" /\ ev'[j] = NoEvent /\ queue'[ev[j]] = s /\ ev[j] \in Events
         /\ \A k \in Jobs \ {j} : pc'[k] = pc[k] /\ ev'[k] = ev[k]
         /\ \A e \in Events \ {ev[j]} : queue'[e] = queue[e]
         /\ \A k \in Jobs : (pc'[k] = "free" <=> ev'[k] = NoEvent)
                            /\ (ev'[k] # NoEvent => queue'[ev'[k]] = "active")
         /\ OneJobPerEvent'
<1>1. /\ pc' \in [Jobs -> Places] /\ ev' \in [Jobs -> Events \cup {NoEvent}]
      /\ queue' \in [Events -> Queues]
      /\ pc'[j] = "free" /\ ev'[j] = NoEvent /\ queue'[ev[j]] = s /\ ev[j] \in Events
      /\ \A k \in Jobs \ {j} : pc'[k] = pc[k] /\ ev'[k] = ev[k]
      /\ \A e \in Events \ {ev[j]} : queue'[e] = queue[e]
  BY DEF WebhookTypeOK, Leave, Places, Queues, Statuses
<1>2. \A k \in Jobs \ {j} : ev[k] # ev[j]
  BY DEF OneJobPerEvent
<1>3. \A k \in Jobs : (pc'[k] = "free" <=> ev'[k] = NoEvent)
                      /\ (ev'[k] # NoEvent => queue'[ev'[k]] = "active")
  BY <1>1, <1>2 DEF WebhookTypeOK
<1>4. OneJobPerEvent'
  BY <1>1 DEF OneJobPerEvent
<1> QED
  BY <1>1, <1>3, <1>4

-----------------------------------------------------------------------------
LEMMA JobInit == WebhookInit => JobInv
  BY JobAssumption, MaxFaultsIsNat DEF WebhookInit, JobInv, WebhookTypeOK, Unsent, Types, Times,
     OneJobPerEvent, AttemptsAreCounted, MarkedFirst

LEMMA JobStepKeeps == JobInv /\ [WebhookNext]_webhookVars => JobInv'
<1> SUFFICES ASSUME JobInv, [WebhookNext]_webhookVars PROVE JobInv'
  OBVIOUS
<1> USE JobAssumption, MaxFaultsIsNat
    DEF JobInv, AttemptsAreCounted, MarkedFirst, Fault, Times, jobVars, rowVars
<1>0. CASE UNCHANGED webhookVars
  BY <1>0 DEF webhookVars, WebhookTypeOK, OneJobPerEvent
<1>1. CASE Tick
  BY <1>1 DEF Tick, WebhookTypeOK, OneJobPerEvent
<1>2. ASSUME NEW e \in Events, NEW t \in Types, NEW at \in 0..now, Receive(e, t, at) PROVE JobInv'
  BY <1>2 DEF Receive, WebhookTypeOK, OneJobPerEvent
<1>3. ASSUME NEW j \in Jobs, NEW e \in Events, Start(j, e) PROVE JobInv'
  BY <1>3 DEF Start, WebhookTypeOK, OneJobPerEvent
<1>4. ASSUME NEW j \in Jobs, Mark(j) PROVE JobInv'
  <2>1. CASE ev[j] \in marked
    BY <1>4, <2>1, LeaveIs DEF Mark, WebhookTypeOK, Places, Queues, Statuses
  <2>2. CASE ev[j] \notin marked
    BY <1>4, <2>2, AtIs DEF Mark, WebhookTypeOK, Places, OneJobPerEvent
  <2> QED
    BY <2>1, <2>2
<1>5. ASSUME NEW j \in Jobs, MapOrg(j) PROVE JobInv'
  BY <1>5, AtIs, LeaveIs DEF MapOrg, WebhookTypeOK, Places, Queues, Statuses, OneJobPerEvent
<1>6. ASSUME NEW j \in Jobs, Guard(j) PROVE JobInv'
  BY <1>6, AtIs, LeaveIs DEF Guard, WebhookTypeOK, Places, Queues, Statuses, OneJobPerEvent
<1>7. ASSUME NEW j \in Jobs, Apply(j) PROVE JobInv'
  BY <1>7, AtIs, LeaveIs, WrittenIs DEF Apply, WebhookTypeOK, Places, Queues, Statuses, OneJobPerEvent
<1>8. ASSUME NEW j \in Jobs, Refreshed(j) PROVE JobInv'
  BY <1>8, LeaveIs DEF Refreshed, WebhookTypeOK, Places, Queues, Statuses
<1>9. ASSUME NEW j \in Jobs, Fail(j) PROVE JobInv'
  <2>1. ev[j] # NoEvent /\ ev[j] \in Events /\ done[ev[j]] \in 0..Attempts
    BY <1>9 DEF Fail, WebhookTypeOK
  <2>2. PICK s \in {"waiting", "failed"} : Leave(j, s) /\ (s = "waiting" => left[ev[j]] > 0)
    BY <1>9 DEF Fail
  <2>3. /\ UNCHANGED <<now, sent, left>>
        /\ excused' = excused \cup {ev[j]} /\ faults' \in 0..MaxFaults
    BY <1>9 DEF Fail, WebhookTypeOK
  <2>4. CASE UNCHANGED <<rowVars, raced, done>> /\ marked' \in {marked, marked \cup {ev[j]}}
    BY <2>1, <2>2, <2>3, <2>4, LeaveIs DEF WebhookTypeOK, Places, Queues, Statuses
  <2>5. CASE /\ pc[j] = "apply" /\ Written(j) /\ marked' = marked
             /\ done' = [done EXCEPT ![ev[j]] = @ + 1]
    BY <2>1, <2>2, <2>3, <2>5, LeaveIs, WrittenIs DEF WebhookTypeOK, Places, Queues, Statuses
  <2> QED
    BY <1>9, <2>4, <2>5 DEF Fail
<1>10. CASE RestartWorker
  BY <1>10 DEF RestartWorker, WebhookTypeOK, OneJobPerEvent
<1>11. CASE RouteUpdate
  BY <1>11, RouteIs DEF RouteUpdate, Statuses, WebhookTypeOK, OneJobPerEvent
<1> QED
  BY <1>0, <1>1, <1>2, <1>3, <1>4, <1>5, <1>6, <1>7, <1>8, <1>9, <1>10, <1>11
  DEF WebhookNext, JobStep

LEMMA JobAlways == WebhookSpec => []JobInv
  BY JobInit, JobStepKeeps, PTL DEF WebhookSpec

\* The worker's variables keep their types; in particular a job has its event
\* for itself until it ends, and no event is tried more often than Attempts.
THEOREM WebhookTypeCorrect == WebhookSpec => []WebhookTypeOK
<1>1. JobInv => WebhookTypeOK
  BY DEF JobInv
<1> QED
  BY <1>1, JobAlways, PTL

\* One event is acted on once, for any number of jobs, events and attempts.
THEOREM ActedOnOnceHolds == WebhookSpec => []ActedOnOnce
<1>1. JobInv => ActedOnOnce
  BY DEF JobInv, MarkedFirst, ActedOnOnce
<1> QED
  BY <1>1, JobAlways, PTL

-----------------------------------------------------------------------------
\* An event that is marked and comes back has failed before, and a job that
\* goes on to refreshCache has acted on its event.
DuplicatesExcused ==
    /\ \A e \in marked : queue[e] = "waiting" => e \in excused
    /\ \A j \in Jobs : pc[j] = "mark" /\ ev[j] \in marked => ev[j] \in excused
    /\ \A j \in Jobs : pc[j] = "refresh" => done[ev[j]] = 1

SkipInv == DuplicatesExcused /\ OnlyOlderAreSkipped

\* A job ends whose event is accounted for: it was acted on, is excused or older.
LEMMA SkipLeave ==
  ASSUME JobInv, SkipInv, NEW j \in Jobs, ev[j] # NoEvent, NEW s \in Queues, Leave(j, s),
         marked' \subseteq marked \cup {ev[j]}, excused \subseteq excused',
         newest' \in newest..now, UNCHANGED sent,
         \A e \in Events \ {ev[j]} : done'[e] = done[e],
         s = "waiting" => ev[j] \in excused',
         \/ s # "completed" \/ done'[ev[j]] # 0 \/ ev[j] \in excused'
         \/ sent[ev[j]].created < newest'
  PROVE  SkipInv'
<1>1. /\ pc'[j] = "free" /\ queue'[ev[j]] = s /\ ev[j] \in Events
      /\ \A k \in Jobs \ {j} : pc'[k] = pc[k] /\ ev'[k] = ev[k]
      /\ \A e \in Events \ {ev[j]} : queue'[e] = queue[e]
  BY LeaveIs DEF JobInv
<1>2. \A k \in Jobs \ {j} : ev[k] # ev[j] /\ (pc[k] # "free" => ev[k] \in Events)
  BY DEF JobInv, OneJobPerEvent, WebhookTypeOK
<1>3. DuplicatesExcused'
  <2>1. \A e \in marked' : queue'[e] = "waiting" => e \in excused'
    BY <1>1 DEF SkipInv, DuplicatesExcused, JobInv, WebhookTypeOK
  <2>2. \A k \in Jobs : pc'[k] = "mark" /\ ev'[k] \in marked' => ev'[k] \in excused'
    BY <1>1, <1>2 DEF SkipInv, DuplicatesExcused
  <2>3. \A k \in Jobs : pc'[k] = "refresh" => done'[ev'[k]] = 1
    BY <1>1, <1>2 DEF SkipInv, DuplicatesExcused
  <2> QED
    BY <2>1, <2>2, <2>3 DEF DuplicatesExcused
<1>4. newest \in Nat /\ now \in Nat /\ newest' \in Nat /\ newest <= newest'
      /\ \A e \in Events : sent[e].created \in Nat
  BY JobAssumption DEF JobInv, WebhookTypeOK, Times
<1>5. ASSUME NEW e \in Events, queue'[e] = "completed", done'[e] = 0, e \notin excused'
      PROVE  sent'[e].created < newest'
  <2>1. CASE e = ev[j]
    BY <1>1, <1>5, <2>1
  <2>2. CASE e # ev[j]
    BY <1>1, <1>4, <1>5, <2>2 DEF SkipInv, OnlyOlderAreSkipped
  <2> QED
    BY <2>1, <2>2
<1> QED
  BY <1>3, <1>5 DEF SkipInv, OnlyOlderAreSkipped

LEMMA SkipStep == JobInv /\ JobInv' /\ SkipInv /\ [WebhookNext]_webhookVars => SkipInv'
<1> SUFFICES ASSUME JobInv, JobInv', SkipInv, [WebhookNext]_webhookVars PROVE SkipInv'
  OBVIOUS
<1> USE DEF SkipInv, DuplicatesExcused, OnlyOlderAreSkipped, jobVars, rowVars
<1>t. /\ WebhookTypeOK /\ OneJobPerEvent
      /\ newest \in 0..now /\ now \in Nat
      /\ sent \in [Events -> [type : Types, created : 0..now]]
      /\ org.updated \in 0..newest
  BY JobAssumption DEF JobInv, WebhookTypeOK, Times
<1>0. CASE UNCHANGED webhookVars
  BY <1>0 DEF webhookVars
<1>1. CASE Tick
  BY <1>1 DEF Tick
<1>2. ASSUME NEW e \in Events, NEW t \in Types, NEW at \in 0..now, Receive(e, t, at) PROVE SkipInv'
  BY <1>2 DEF Receive, JobInv, WebhookTypeOK, AttemptsAreCounted
<1>3. ASSUME NEW j \in Jobs, NEW e \in Events, Start(j, e) PROVE SkipInv'
  BY <1>3 DEF Start, JobInv, WebhookTypeOK
<1>4. ASSUME NEW j \in Jobs, Mark(j) PROVE SkipInv'
  <2>0. ev[j] # NoEvent /\ ev[j] \in Events
    BY <1>4 DEF Mark, JobInv, WebhookTypeOK
  <2>1. CASE ev[j] \in marked
    BY <1>4, <1>t, <2>0, <2>1, SkipLeave DEF Mark, Queues
  <2>2. CASE ev[j] \notin marked
    BY <1>4, <1>t, <2>0, <2>2, AtIs DEF Mark, Places, JobInv, WebhookTypeOK, OneJobPerEvent
  <2> QED
    BY <2>1, <2>2
<1>5. ASSUME NEW j \in Jobs, MapOrg(j) PROVE SkipInv'
  <2>0. ev[j] # NoEvent
    BY <1>5 DEF MapOrg, JobInv, WebhookTypeOK
  <2>1. CASE At(j, "guard") /\ UNCHANGED excused
    BY <1>5, <1>t, <2>0, <2>1, AtIs DEF MapOrg, Places
  <2>2. CASE Leave(j, "completed") /\ excused' = excused \cup {ev[j]}
    BY <1>5, <1>t, <2>0, <2>2, SkipLeave DEF MapOrg, Queues
  <2> QED
    BY <1>5, <2>1, <2>2 DEF MapOrg
<1>6. ASSUME NEW j \in Jobs, Guard(j) PROVE SkipInv'
  <2>0. ev[j] # NoEvent /\ ev[j] \in Events
    BY <1>6 DEF Guard, JobInv, WebhookTypeOK
  <2>1. CASE At(j, "apply")
    BY <1>6, <1>t, <2>0, <2>1, AtIs DEF Guard, Places
  <2>2. CASE Leave(j, "completed") /\ sent[ev[j]].created < org.updated
    <3>1. sent[ev[j]].created < newest
      BY <1>t, <2>0, <2>2
    <3> QED
      BY <1>6, <1>t, <2>0, <2>2, <3>1, SkipLeave DEF Guard, Queues
  <2> QED
    BY <1>6, <2>1, <2>2 DEF Guard
<1>7. ASSUME NEW j \in Jobs, Apply(j) PROVE SkipInv'
  <2>0. ev[j] # NoEvent /\ ev[j] \in Events /\ done[ev[j]] = 0
    BY <1>7 DEF Apply, JobInv, WebhookTypeOK, MarkedFirst
  <2>1. done'[ev[j]] = 1 /\ \A e \in Events \ {ev[j]} : done'[e] = done[e]
    BY <1>7, <2>0 DEF Apply, JobInv, WebhookTypeOK
  <2>2. newest' \in newest..now /\ UNCHANGED <<marked, excused, sent>>
    BY <1>7, <1>t, <2>0, WrittenIs DEF Apply
  <2>3. At(j, "refresh") \/ Leave(j, "completed")
    BY <1>7 DEF Apply
  <2>4. CASE At(j, "refresh")
    BY <1>7, <1>t, <2>0, <2>1, <2>2, <2>4, AtIs DEF Apply, Places, OneJobPerEvent, JobInv, WebhookTypeOK
  <2>5. CASE Leave(j, "completed")
    BY <1>7, <1>t, <2>0, <2>1, <2>2, <2>5, SkipLeave DEF Queues
  <2> QED
    BY <2>3, <2>4, <2>5
<1>8. ASSUME NEW j \in Jobs, Refreshed(j) PROVE SkipInv'
  <2>0. ev[j] # NoEvent /\ done[ev[j]] = 1
    BY <1>8 DEF Refreshed, JobInv, WebhookTypeOK
  <2> QED
    BY <1>8, <1>t, <2>0, SkipLeave DEF Refreshed, Queues
<1>9. ASSUME NEW j \in Jobs, Fail(j) PROVE SkipInv'
  <2>0. ev[j] # NoEvent /\ ev[j] \in Events /\ done[ev[j]] \in Nat
    BY <1>9 DEF Fail, JobInv, WebhookTypeOK
  <2>1. PICK s \in {"waiting", "failed"} : Leave(j, s)
    BY <1>9 DEF Fail
  <2>2. /\ newest' \in newest..now /\ UNCHANGED sent
        /\ marked' \in {marked, marked \cup {ev[j]}} /\ excused' = excused \cup {ev[j]}
    BY <1>9, <1>t, <2>0, WrittenIs DEF Fail
  <2>3. \A e \in Events \ {ev[j]} : done'[e] = done[e]
    BY <1>9 DEF Fail, JobInv, WebhookTypeOK
  <2> QED
    BY <1>t, <2>0, <2>1, <2>2, <2>3, SkipLeave DEF Queues
<1>10. CASE RestartWorker
  BY <1>10 DEF RestartWorker, JobInv, WebhookTypeOK
<1>11. CASE RouteUpdate
  BY <1>11, <1>t, RouteIs DEF RouteUpdate
<1> QED
  BY <1>0, <1>1, <1>2, <1>3, <1>4, <1>5, <1>6, <1>7, <1>8, <1>9, <1>10, <1>11
  DEF WebhookNext, JobStep

\* An event whose job completed without acting on it was older than the row had
\* become, or an attempt of it had failed, or it had no mapping.
THEOREM OnlyOlderAreSkippedHolds == WebhookSpec => []OnlyOlderAreSkipped
<1>1. WebhookInit => SkipInv
  BY DEF WebhookInit, SkipInv, DuplicatesExcused, OnlyOlderAreSkipped
<1>2. SkipInv => OnlyOlderAreSkipped
  BY DEF SkipInv
<1> QED
  BY <1>1, <1>2, SkipStep, JobAlways, PTL DEF WebhookSpec

-----------------------------------------------------------------------------
\* A job about to write has a newer event than the row, or as new a one, unless
\* the row was written since it looked.
FreshLook == \A j \in Jobs \ raced : pc[j] = "apply" => sent[ev[j]].created >= org.updated

LEMMA FreshStep == JobInv /\ JobInv' /\ FreshLook /\ [WebhookNext]_webhookVars => FreshLook'
<1> SUFFICES ASSUME JobInv, JobInv', FreshLook, [WebhookNext]_webhookVars PROVE FreshLook'
  OBVIOUS
<1> USE DEF FreshLook, jobVars, rowVars
<1>t. /\ WebhookTypeOK /\ OneJobPerEvent /\ raced \subseteq Jobs
      /\ newest \in 0..now /\ now \in Nat
      /\ sent \in [Events -> [type : Types, created : 0..now]]
      /\ org.updated \in 0..newest
  BY JobAssumption DEF JobInv, WebhookTypeOK, Times
<1>q. \A j \in Jobs : pc[j] # "free" => ev[j] # NoEvent /\ ev[j] \in Events
  BY DEF JobInv, WebhookTypeOK
<1>p. ASSUME UNCHANGED ev, UNCHANGED sent, raced' = raced \cup {k \in Jobs : pc[k] = "apply"},
             \A k \in Jobs : pc'[k] = "apply" => pc[k] = "apply"
      PROVE  FreshLook'
  BY <1>p
<1>0. CASE UNCHANGED webhookVars
  BY <1>0 DEF webhookVars
<1>1. CASE Tick
  BY <1>1 DEF Tick
<1>2. ASSUME NEW e \in Events, NEW t \in Types, NEW at \in 0..now, Receive(e, t, at) PROVE FreshLook'
  BY <1>2 DEF Receive, JobInv, WebhookTypeOK
<1>3. ASSUME NEW j \in Jobs, NEW e \in Events, Start(j, e) PROVE FreshLook'
  BY <1>3 DEF Start, JobInv, WebhookTypeOK
<1>4. ASSUME NEW j \in Jobs, Mark(j) PROVE FreshLook'
  BY <1>4, <1>t, <1>q, AtIs, LeaveIs DEF Mark, Places, Queues
<1>5. ASSUME NEW j \in Jobs, MapOrg(j) PROVE FreshLook'
  BY <1>5, <1>t, <1>q, AtIs, LeaveIs DEF MapOrg, Places, Queues
<1>6. ASSUME NEW j \in Jobs, Guard(j) PROVE FreshLook'
  BY <1>6, <1>t, <1>q, AtIs, LeaveIs DEF Guard, Places, Queues
<1>7. ASSUME NEW j \in Jobs, Apply(j) \/ Fail(j) PROVE FreshLook'
  <2>0. ev[j] # NoEvent /\ UNCHANGED sent
    BY <1>7, <1>q DEF Apply, Fail
  <2>1. UNCHANGED <<rowVars, raced>> \/ Written(j)
    BY <1>7 DEF Apply, Fail
  <2>2. /\ pc'[j] # "apply"
        /\ \A k \in Jobs \ {j} : pc'[k] = pc[k] /\ ev'[k] = ev[k]
    BY <1>7, <1>t, <1>q, <2>0, AtIs, LeaveIs DEF Apply, Fail, Places, Queues
  <2>3. UNCHANGED <<org, raced>> \/ raced' = raced \cup {k \in Jobs : pc[k] = "apply"}
    BY <1>t, <2>0, <2>1, WrittenIs
  <2> QED
    BY <2>0, <2>2, <2>3
<1>8. ASSUME NEW j \in Jobs, Refreshed(j) PROVE FreshLook'
  BY <1>8, <1>t, <1>q, LeaveIs DEF Refreshed, Queues
<1>10. CASE RestartWorker
  BY <1>10 DEF RestartWorker
<1>11. CASE RouteUpdate
  BY <1>11, <1>t, RouteIs DEF RouteUpdate
<1> QED
  BY <1>0, <1>1, <1>2, <1>3, <1>4, <1>5, <1>6, <1>7, <1>8, <1>10, <1>11
  DEF WebhookNext, JobStep

\* The row goes back in time only by a job that another write overtook between
\* its look at updated_at and its UPDATE.
THEOREM NoGoingBackHolds == WebhookSpec => NoGoingBack
<1>1. WebhookInit => FreshLook
  BY DEF WebhookInit, FreshLook
<1>2. JobInv /\ FreshLook /\ [WebhookNext]_webhookVars =>
        [org'.updated < org.updated => \E j \in raced : pc[j] = "apply" /\ pc'[j] # "apply"]_webhookVars
  <2> SUFFICES ASSUME JobInv, FreshLook, WebhookNext, org'.updated < org.updated
               PROVE  \E j \in raced : pc[j] = "apply" /\ pc'[j] # "apply"
    BY DEF webhookVars
  <2>1. /\ WebhookTypeOK /\ OneJobPerEvent
        /\ now \in Nat /\ org.updated \in 0..now
        /\ sent \in [Events -> [type : Types, created : 0..now]]
    BY JobAssumption DEF JobInv, WebhookTypeOK, Times
  <2>2. ~ UNCHANGED org
    BY <2>1
  <2>3. ~ RouteUpdate
    BY <2>1, RouteIs
  <2>4. PICK j \in Jobs : Apply(j) \/ Fail(j)
    BY <2>2, <2>3 DEF WebhookNext, JobStep, Tick, Receive, Start, Mark, MapOrg, Guard, Refreshed,
       RestartWorker, rowVars
  <2>5. Written(j) /\ pc[j] = "apply"
    BY <2>2, <2>4 DEF Apply, Fail, rowVars
  <2>6. ev[j] # NoEvent /\ ev[j] \in Events
    BY <2>5 DEF JobInv, WebhookTypeOK
  <2>7. org'.updated = sent[ev[j]].created
    BY <2>1, <2>2, <2>5, <2>6, WrittenIs
  <2>8. j \in raced
    BY <2>1, <2>5, <2>6, <2>7 DEF FreshLook
  <2>9. pc'[j] # "apply"
    BY <2>1, <2>4, <2>5, <2>6, AtIs, LeaveIs DEF Apply, Fail, Places, Queues
  <2> QED
    BY <2>5, <2>8, <2>9
<1> QED
  BY <1>1, <1>2, FreshStep, JobAlways, PTL DEF WebhookSpec, NoGoingBack

-----------------------------------------------------------------------------
\* A step of one call leaves the awaits of the others alone.
LEMMA GoType ==
    ASSUME NEW c \in Calls, NEW s, Go(c, s), TypeOK,
           s \in {"idle", "refresh", "delete", "get", "miss", "read", "set"}
    PROVE  /\ step' \in [Calls ->
                  {"idle", "refresh", "delete", "get", "miss", "read", "set"}]
           /\ step'[c] = s
           /\ \A d \in Calls \ {c} : step'[d] = step[d]
  BY DEF Go, TypeOK

-----------------------------------------------------------------------------
\* Every variable keeps its type.
THEOREM TypeCorrect == Spec => []TypeOK
<1>1. Init => TypeOK
  <2> SUFFICES ASSUME Init PROVE TypeOK
    OBVIOUS
  <2>1. tainted \in BOOLEAN
    BY DEF Init
  <2>2. ent \in 0..MaxChanges /\ covered \in 0..ent /\ faults \in 0..MaxFaults
    BY CallAssumption, MaxFaultsIsNat DEF Init
  <2> QED
    BY <2>1, <2>2 DEF Init, TypeOK, Versions
<1>2. TypeOK /\ [Next]_vars => TypeOK'
  <2> SUFFICES ASSUME TypeOK, [Next]_vars PROVE TypeOK'
    OBVIOUS
  <2> USE CallAssumption, MaxFaultsIsNat DEF Versions, None, Core
  <2>0. CASE UNCHANGED vars
    BY <2>0 DEF TypeOK, vars
  <2>1. ASSUME NEW c \in Calls,
               BeginGet(c) \/ Applied(c) \/ Lookup(c)
        PROVE  TypeOK'
    BY <2>1, GoType DEF TypeOK, BeginGet, Applied, Lookup
  <2>2. ASSUME NEW c \in Calls, PutFeatures(c) PROVE TypeOK'
    BY <2>2, GoType DEF TypeOK, PutFeatures, Changed
  <2>3. ASSUME NEW c \in Calls, BeginRefresh(c) PROVE TypeOK'
    BY <2>3, GoType DEF TypeOK, BeginRefresh
  <2>4. ASSUME NEW c \in Calls, Delete(c) PROVE TypeOK'
    BY <2>4, GoType DEF TypeOK, Delete
  <2>5. ASSUME NEW c \in Calls, DeleteFails(c) \/ LookupFails(c) PROVE TypeOK'
    BY <2>5, GoType DEF TypeOK, DeleteFails, LookupFails, Fault
  <2>6. ASSUME NEW c \in Calls, Miss(c) PROVE TypeOK'
    BY <2>6, GoType DEF TypeOK, Miss
  <2>7. ASSUME NEW c \in Calls, Read(c) PROVE TypeOK'
    BY <2>7, GoType DEF TypeOK, Read
  <2>8. ASSUME NEW c \in Calls, ReadFails(c) PROVE TypeOK'
    BY <2>8, GoType DEF TypeOK, ReadFails, Fault
  <2>9. ASSUME NEW c \in Calls, Set(c) PROVE TypeOK'
    BY <2>9, GoType DEF TypeOK, Set, Unlock
  <2>10. ASSUME NEW c \in Calls, SetFails(c) PROVE TypeOK'
    BY <2>10, GoType DEF TypeOK, SetFails, Unlock, Fault
  <2>11. ASSUME NEW p \in Procs, Restart(p) PROVE TypeOK'
    BY <2>11 DEF TypeOK, Restart, Fault
  <2>12. CASE ChangePlan
    BY <2>12 DEF TypeOK, ChangePlan, Changed
  <2>13. CASE Expire
    BY <2>13 DEF TypeOK, Expire
  <2> QED
    BY <2>0, <2>1, <2>2, <2>3, <2>4, <2>5, <2>6, <2>7, <2>8, <2>9, <2>10, <2>11, <2>12,
       <2>13 DEF Next
<1> QED
  BY <1>1, <1>2, PTL DEF Spec

-----------------------------------------------------------------------------
\* A lock is held by a call of its own process, one still underway.
LockInv ==
    \A p \in Procs : lock[p] # NoCall =>
        ProcOf[lock[p]] = p /\ step[lock[p]] \in {"read", "set"}

\* A process never holds the lock of a fetch that is over: such a lock would
\* answer every later call with what that fetch read.
THEOREM LocksHold == Spec => []LocksAreLive
<1>1. Init => LockInv
  BY DEF Init, LockInv
<1>2. TypeOK /\ LockInv /\ [Next]_vars => LockInv'
  <2> SUFFICES ASSUME TypeOK, LockInv, [Next]_vars PROVE LockInv'
    OBVIOUS
  <2> USE CallAssumption
  <2>0. CASE UNCHANGED vars
    BY <2>0 DEF LockInv, vars
  <2>1. ASSUME NEW c \in Calls, step[c] \notin {"read", "set"}, UNCHANGED lock,
               NEW s, Go(c, s),
               s \in {"idle", "refresh", "delete", "get", "miss", "read", "set"}
        PROVE  LockInv'
    BY <2>1, GoType DEF LockInv, TypeOK
  <2>2. ASSUME NEW c \in Calls,
               BeginGet(c) \/ Applied(c) \/ Lookup(c) \/ PutFeatures(c) \/ Delete(c)
               \/ DeleteFails(c) \/ LookupFails(c)
        PROVE  LockInv'
    BY <2>1, <2>2 DEF BeginGet, Applied, Lookup, PutFeatures, Delete, DeleteFails, LookupFails
  <2>3. ASSUME NEW c \in Calls, BeginRefresh(c) PROVE LockInv'
    BY <2>3, GoType DEF LockInv, TypeOK, BeginRefresh
  <2>4. ASSUME NEW c \in Calls, Miss(c) PROVE LockInv'
    BY <2>4, GoType DEF LockInv, TypeOK, Miss
  <2>5. ASSUME NEW c \in Calls, Read(c) \/ ReadFails(c) PROVE LockInv'
    BY <2>5, GoType DEF LockInv, TypeOK, Read, ReadFails
  <2>6. ASSUME NEW c \in Calls, Set(c) \/ SetFails(c) PROVE LockInv'
    BY <2>6, GoType DEF LockInv, TypeOK, Set, SetFails, Unlock
  <2>7. ASSUME NEW p \in Procs, Restart(p) PROVE LockInv'
    BY <2>7 DEF LockInv, TypeOK, Restart
  <2>8. CASE ChangePlan \/ Expire
    BY <2>8 DEF LockInv, ChangePlan, Expire
  <2> QED
    BY <2>0, <2>2, <2>3, <2>4, <2>5, <2>6, <2>7, <2>8 DEF Next
<1>3. LockInv => LocksAreLive
  BY DEF LockInv, LocksAreLive
<1> QED
  BY <1>1, <1>2, <1>3, TypeCorrect, PTL DEF Spec

-----------------------------------------------------------------------------
\* What a call has read since the last refresh is as new as the row was then.
FreshRead(c) ==
    step[c] = "set" /\ c \notin late /\ val[c] \in 0..ent => val[c] >= covered

FreshInv == RefreshHolds /\ \A c \in Calls : FreshRead(c)

\* After a refresh an entry older than the row was then comes only from a fetch
\* that had read the row before.
THEOREM RefreshCorrect == Spec => []RefreshHolds
<1>1. Init => FreshInv
  BY DEF Init, FreshInv, FreshRead, RefreshHolds, None
<1>2. TypeOK /\ FreshInv /\ [Next]_vars => FreshInv'
  <2> SUFFICES ASSUME TypeOK, FreshInv, [Next]_vars PROVE FreshInv'
    OBVIOUS
  <2> USE CallAssumption DEF FreshInv, FreshRead, RefreshHolds, None, Core
  <2>0. CASE UNCHANGED vars
    BY <2>0 DEF vars
  <2>1. ASSUME NEW c \in Calls, NEW s \in {"idle", "refresh", "delete", "get", "miss", "read"},
               Go(c, s), UNCHANGED <<cache, val, covered, late, tainted>>,
               ent' = ent \/ (ent' = ent + 1)
        PROVE  FreshInv'
    BY <2>1, GoType DEF TypeOK, Versions
  <2>2. ASSUME NEW c \in Calls,
               BeginGet(c) \/ Applied(c) \/ Lookup(c) \/ PutFeatures(c) \/ BeginRefresh(c)
               \/ DeleteFails(c) \/ LookupFails(c) \/ Miss(c)
        PROVE  FreshInv'
    BY <2>1, <2>2 DEF BeginGet, Applied, Lookup, PutFeatures, BeginRefresh, DeleteFails,
       LookupFails, Miss, Changed
  <2>3. ASSUME NEW c \in Calls, Delete(c) PROVE FreshInv'
    BY <2>3, GoType DEF TypeOK, Delete
  <2>4. ASSUME NEW c \in Calls, Read(c) \/ ReadFails(c) PROVE FreshInv'
    BY <2>4, GoType DEF TypeOK, Read, ReadFails
  <2>5. ASSUME NEW c \in Calls, Set(c) PROVE FreshInv'
    <3>1. cache' = val[c] /\ ent' = ent /\ covered' = covered
      BY <2>5 DEF Set
    <3>2. step[c] = "set" /\ val[c] \in Versions
      BY <2>5 DEF Set, TypeOK
    <3>3. RefreshHolds'
      <4> SUFFICES ASSUME cache' \in 0..ent', cache' < covered' PROVE tainted'
        OBVIOUS
      <4>1. c \in late
        BY <3>1, <3>2 DEF TypeOK
      <4> QED
        BY ONLY <4>1, <2>5 DEF Set
    <3>4. /\ step'[c] = "idle" /\ \A d \in Calls \ {c} : step'[d] = step[d]
          /\ val' = [val EXCEPT ![c] = None] /\ late' = late \ {c}
      BY <2>5, GoType DEF Set, Unlock
    <3>5. \A d \in Calls : FreshRead(d)'
      BY <3>1, <3>4 DEF TypeOK
    <3> QED
      BY <3>3, <3>5
  <2>6. ASSUME NEW c \in Calls, SetFails(c) PROVE FreshInv'
    BY <2>6, GoType DEF TypeOK, SetFails, Unlock
  <2>7. ASSUME NEW p \in Procs, Restart(p) PROVE FreshInv'
    BY <2>7 DEF TypeOK, Restart
  <2>8. CASE ChangePlan
    BY <2>8 DEF TypeOK, Versions, ChangePlan, Changed
  <2>9. CASE Expire
    BY <2>9 DEF TypeOK, Expire
  <2> QED
    BY <2>0, <2>2, <2>3, <2>4, <2>5, <2>6, <2>7, <2>8, <2>9 DEF Next
<1>3. FreshInv => RefreshHolds
  BY DEF FreshInv
<1> QED
  BY <1>1, <1>2, <1>3, TypeCorrect, PTL DEF Spec
=============================================================================
