---------------------------- MODULE StripeWebhook ---------------------------
(***************************************************************************)
(* server/workers/stripe-webhook.worker.js with the queue that             *)
(* POST /api/v1/billing/webhook fills: Stripe's events about one customer, *)
(* worked on by concurrent jobs of one process, and the row of             *)
(* organizations. An action is one await of processStripeEvent. The worker *)
(* reads nothing that refreshCache writes: its steps are EntitlementCache. *)
(* Faults are failing statements and restarts.                             *)
(***************************************************************************)
EXTENDS Faults

CONSTANTS
    Jobs,               \* jobs that run at the same time
    Events,             \* Stripe events
    NoEvent,            \* a job slot is free
    Attempts,           \* attempts of a job
    MaxTime             \* bound: the clock

ASSUME JobAssumption ==
    NoEvent \notin Events /\ Attempts \in Nat \ {0} /\ MaxTime \in Nat

VARIABLES
    now,
    org,                \* billing_status and updated_at
    sent,               \* sent[e]: the event's type and creation time
    queue,              \* queue[e]: where the event's BullMQ job is
    left,               \* left[e]: its remaining attempts
    marked,             \* rows of stripe_events
    pc,                 \* pc[j]: the await a job is at
    ev,                 \* ev[j]: the event it works on
    raced,              \* history: jobs whose row changed since they looked at it
    done,               \* history: done[e]: how often the event was acted on
    excused,            \* history: events without mapping, or that an attempt failed of
    newest              \* history: the newest updated_at

jobVars == <<queue, left, marked, pc, ev, raced, done, excused>>
rowVars == <<org, newest>>
webhookVars == <<now, rowVars, sent, jobVars, faults>>

Times == 0..MaxTime
Types == {"paid", "failed", "deleted", "updated", "checkout", "other"}
Unsent == [type |-> "other", created |-> 0]

WebhookTypeOK ==
    /\ now \in Times /\ newest \in 0..now
    /\ org \in [status : {"ACTIVE", "PAST_DUE", "CANCELED"}, updated : 0..newest]
    /\ sent \in [Events -> [type : Types, created : 0..now]]
    /\ queue \in [Events -> {"none", "waiting", "active", "completed", "failed"}]
    /\ left \in [Events -> 0..Attempts]
    /\ marked \subseteq Events /\ excused \subseteq Events
    /\ pc \in [Jobs -> {"free", "mark", "map", "guard", "apply", "refresh"}]
    /\ ev \in [Jobs -> Events \cup {NoEvent}]
    /\ \A j \in Jobs : (pc[j] = "free" <=> ev[j] = NoEvent)
                       /\ (ev[j] # NoEvent => queue[ev[j]] = "active")
    /\ raced \subseteq Jobs
    /\ done \in [Events -> 0..Attempts] /\ faults \in 0..MaxFaults

WebhookInit ==
    /\ now = 0 /\ newest = 0
    /\ org = [status |-> "ACTIVE", updated |-> 0]
    /\ sent = [e \in Events |-> Unsent]
    /\ queue = [e \in Events |-> "none"]
    /\ left = [e \in Events |-> Attempts]
    /\ marked = {} /\ excused = {} /\ raced = {}
    /\ pc = [j \in Jobs |-> "free"]
    /\ ev = [j \in Jobs |-> NoEvent]
    /\ done = [e \in Events |-> 0] /\ faults = 0

-----------------------------------------------------------------------------
Tick ==
    /\ now < MaxTime /\ now' = now + 1
    /\ UNCHANGED <<rowVars, sent, jobVars, faults>>

\* The webhook queues an event, early or late. It is the only time: a job keeps
\* its id, event.id, when it has ended, and a second delivery adds nothing.
Receive(e, t, at) ==
    /\ queue[e] = "none"
    /\ sent' = [sent EXCEPT ![e] = [type |-> t, created |-> at]]
    /\ queue' = [queue EXCEPT ![e] = "waiting"]
    /\ UNCHANGED <<now, rowVars, faults, left, marked, pc, ev, raced, done, excused>>

\* A free slot takes a waiting job.
Start(j, e) ==
    /\ pc[j] = "free" /\ queue[e] = "waiting"
    /\ pc' = [pc EXCEPT ![j] = "mark"]
    /\ ev' = [ev EXCEPT ![j] = e]
    /\ queue' = [queue EXCEPT ![e] = "active"]
    /\ left' = [left EXCEPT ![e] = @ - 1]
    /\ UNCHANGED <<now, rowVars, sent, faults, marked, raced, done, excused>>

At(j, s) == pc' = [pc EXCEPT ![j] = s] /\ UNCHANGED <<ev, queue>>

\* The job ends, its event's place is s.
Leave(j, s) ==
    /\ pc' = [pc EXCEPT ![j] = "free"]
    /\ ev' = [ev EXCEPT ![j] = NoEvent]
    /\ queue' = [queue EXCEPT ![ev[j]] = s]

\* Mutant: ON CONFLICT DO NOTHING, and on with the event.
MarkAnyway(j) ==
    /\ pc[j] = "mark" /\ At(j, "map")
    /\ marked' = marked \cup {ev[j]}
    /\ UNCHANGED <<now, rowVars, sent, faults, left, raced, done, excused>>

\* INSERT INTO stripe_events: a second row for the event is a duplicate.
Mark(j) ==
    /\ pc[j] = "mark"
    /\ IF ev[j] \in marked THEN Leave(j, "completed") ELSE At(j, "map")
    /\ marked' = marked \cup {ev[j]}
    /\ UNCHANGED <<now, rowVars, sent, faults, left, raced, done, excused>>

\* SELECT ... FROM stripe_mappings.
MapOrg(j) ==
    /\ pc[j] = "map"
    /\ \/ At(j, "guard") /\ UNCHANGED excused
       \/ Leave(j, "completed") /\ excused' = excused \cup {ev[j]}
    /\ UNCHANGED <<now, rowVars, sent, faults, left, marked, raced, done>>

\* Mutant: an event of the same second counts as older.
GuardAtLeast(j) ==
    /\ pc[j] = "guard"
    /\ IF sent[ev[j]].created <= org.updated THEN Leave(j, "completed") ELSE At(j, "apply")
    /\ raced' = raced \ {j}
    /\ UNCHANGED <<now, rowVars, sent, faults, left, marked, done, excused>>

\* Mutant: no look at updated_at.
GuardNothing(j) ==
    /\ pc[j] = "guard" /\ At(j, "apply")
    /\ raced' = raced \ {j}
    /\ UNCHANGED <<now, rowVars, sent, faults, left, marked, done, excused>>

\* SELECT updated_at: an older event is skipped.
Guard(j) ==
    /\ pc[j] = "guard"
    /\ IF sent[ev[j]].created < org.updated THEN Leave(j, "completed") ELSE At(j, "apply")
    /\ raced' = raced \ {j}
    /\ UNCHANGED <<now, rowVars, sent, faults, left, marked, done, excused>>

\* The row is written: whoever looked at it before looked at another row.
Put(row) ==
    /\ org' = row
    /\ newest' = IF row.updated > newest THEN row.updated ELSE newest
    /\ raced' = raced \cup {j \in Jobs : pc[j] = "apply"}

\* What an event does to the row.
Written(j) ==
    LET at == sent[ev[j]].created
    IN  CASE sent[ev[j]].type = "paid" ->
                 Put([org EXCEPT !.status = "ACTIVE", !.updated = at])
          [] sent[ev[j]].type = "failed" ->
                 IF org.status = "PAST_DUE" THEN UNCHANGED <<rowVars, raced>>
                 ELSE Put([org EXCEPT !.status = "PAST_DUE", !.updated = at])
          [] sent[ev[j]].type = "deleted" ->
                 Put([status |-> "CANCELED", updated |-> at])
          [] sent[ev[j]].type = "updated" ->
                 Put([org EXCEPT !.updated = at])
          [] OTHER -> UNCHANGED <<rowVars, raced>>

Refreshes == {"paid", "deleted", "updated"}

\* The UPDATE, after which some go on to refreshCache. The checkout of an
\* upgrade or an addon changes plan and feature_flags without updated_at and
\* without refreshCache, and swallows its errors.
Apply(j) ==
    /\ pc[j] = "apply"
    /\ Written(j)
    /\ done' = [done EXCEPT ![ev[j]] = @ + 1]
    /\ IF sent[ev[j]].type \in Refreshes THEN At(j, "refresh") ELSE Leave(j, "completed")
    /\ UNCHANGED <<now, sent, left, marked, excused, faults>>

\* refreshCache has returned; it never rejects.
Refreshed(j) ==
    /\ pc[j] = "refresh"
    /\ Leave(j, "completed")
    /\ UNCHANGED <<now, rowVars, sent, left, marked, raced, done, excused, faults>>

\* A statement fails, after it took effect or without, and so does the attempt.
Fail(j) ==
    /\ Fault /\ ev[j] # NoEvent
    /\ \/ /\ pc[j] \in {"mark", "map", "guard", "apply"}
          /\ UNCHANGED <<rowVars, raced, marked, done>>
       \/ /\ pc[j] = "mark" /\ marked' = marked \cup {ev[j]}
          /\ UNCHANGED <<rowVars, raced, done>>
       \/ /\ pc[j] = "apply" /\ sent[ev[j]].type # "checkout" /\ Written(j)
          /\ done' = [done EXCEPT ![ev[j]] = @ + 1]
          /\ UNCHANGED marked
    /\ Leave(j, IF left[ev[j]] > 0 THEN "waiting" ELSE "failed")
    /\ excused' = excused \cup {ev[j]}
    /\ UNCHANGED <<now, sent, left>>

\* The process stops and is started again. BullMQ finds its jobs stalled.
RestartWorker ==
    LET events == {ev[j] : j \in Jobs} \ {NoEvent}
    IN  /\ Fault
        /\ pc' = [j \in Jobs |-> "free"]
        /\ ev' = [j \in Jobs |-> NoEvent]
        /\ queue' = [e \in Events |->
               IF e \notin events THEN queue[e]
               ELSE IF left[e] > 0 THEN "waiting" ELSE "failed"]
        /\ excused' = excused \cup events
        /\ UNCHANGED <<now, rowVars, sent, left, marked, raced, done>>

-----------------------------------------------------------------------------
\* A route of organizations.js or platform.js writes the row, with updated_at:
\* it suspends or activates, or changes the plan or the features.
RouteUpdate ==
    /\ Put([org EXCEPT !.updated = now])
    /\ UNCHANGED <<now, sent, queue, left, marked, pc, ev, done, excused, faults>>

JobStep(j) ==
    \/ Mark(j) \/ MapOrg(j) \/ Guard(j) \/ Apply(j) \/ Refreshed(j)

WebhookNext ==
    \/ Tick
    \/ \E e \in Events, t \in Types, at \in 0..now : Receive(e, t, at)
    \/ \E j \in Jobs, e \in Events : Start(j, e)
    \/ \E j \in Jobs : JobStep(j) \/ Fail(j)
    \/ RestartWorker \/ RouteUpdate

WebhookSpec == WebhookInit /\ [][WebhookNext]_webhookVars

-----------------------------------------------------------------------------
\* "Idempotency": an event is acted on once, though a job is tried again after
\* an error that came when its UPDATE was already committed.
ActedOnOnce == \A e \in Events : done[e] <= 1

\* An event whose job completed was acted on, unless there is no mapping, an
\* attempt of it failed (the next finds the marker and takes it for a
\* duplicate), or the row has been newer, not merely as new, as it.
OnlyOlderAreSkipped ==
    \A e \in Events :
        queue[e] = "completed" /\ done[e] = 0 /\ e \notin excused => sent[e].created < newest

\* "Avoid Out-of-Order Webhook Race Conditions": what the guard is worth. Only a
\* job takes the row back in time, and only when the row was written between
\* the job's look at it and its UPDATE.
NoGoingBack ==
    [][org'.updated < org.updated =>
          \E j \in raced : pc[j] = "apply" /\ pc'[j] # "apply"]_webhookVars
=============================================================================
