---------------------------- MODULE OutboxWorker ----------------------------
(***************************************************************************)
(* server/workers/outbox-worker.js: the poll loops of several processes    *)
(* that deliver the rows of outbox_events. The rows are inserted by the    *)
(* transactions of server/data/crisis-repository.js.                       *)
(*                                                                         *)
(* A poll is one database transaction of db.withTransaction: its SELECT    *)
(* locks the rows it returns (FOR UPDATE SKIP LOCKED), the side effect of  *)
(* each event happens outside the database as soon as it is handled, and   *)
(* the UPDATEs count only if the COMMIT succeeds. An UPDATE that fails     *)
(* aborts the transaction, but its error is caught and the loop goes on.   *)
(*                                                                         *)
(* Poison events are those whose handler always throws. Other failures     *)
(* (of a handler, an UPDATE, a COMMIT, a process) are faults.              *)
(***************************************************************************)
EXTENDS Faults, FiniteSets

CONSTANTS
    Events,
    Workers,
    BatchSize,          \* LIMIT 50
    Poison,
    None

ASSUME EventsFinite == IsFiniteSet(Events) /\ Poison \subseteq Events
ASSUME NoneIsNoEvent == None \notin Events
ASSUME BatchSizeIsPositive == BatchSize \in Nat \ {0}

VARIABLES
    stamp,              \* stamp[e]: created_at, 0: not inserted
    visible,            \* events whose inserting transaction has committed
    processed,          \* events with processed = true
    held,               \* held[w]: rows locked by w's transaction
    todo,               \* todo[w]: rows its loop has not reached
    current,            \* current[w]: event handled but not yet marked, or None
    marked,             \* marked[w]: rows updated by w's open transaction
    aborted,            \* aborted[w]: a statement of the transaction failed
    dispatched          \* dispatched[e]: how many times its side effect happened

table == <<stamp, visible, processed>>
transaction == <<held, todo, current, marked, aborted>>
vars == <<table, transaction, dispatched, faults>>

Busy(w) == held[w] # {}
Locked == UNION {held[w] : w \in Workers}

TypeOK ==
    /\ stamp \in [Events -> Nat]
    /\ visible \subseteq Events
    /\ processed \subseteq visible
    /\ held \in [Workers -> SUBSET visible]
    /\ todo \in [Workers -> SUBSET visible]
    /\ current \in [Workers -> visible \cup {None}]
    /\ marked \in [Workers -> SUBSET visible]
    /\ aborted \in [Workers -> BOOLEAN]
    /\ dispatched \in [Events -> Nat]
    /\ faults \in 0..MaxFaults

Init ==
    /\ stamp = [e \in Events |-> 0]
    /\ visible = {} /\ processed = {}
    /\ held = [w \in Workers |-> {}]
    /\ todo = [w \in Workers |-> {}]
    /\ current = [w \in Workers |-> None]
    /\ marked = [w \in Workers |-> {}]
    /\ aborted = [w \in Workers |-> FALSE]
    /\ dispatched = [e \in Events |-> 0]
    /\ faults = 0

-----------------------------------------------------------------------------
\* A producer's transaction begins: NOW() is its start, not its commit.
Insert(e) ==
    /\ stamp[e] = 0
    /\ stamp' = [stamp EXCEPT ![e] = 1 + Cardinality({f \in Events : stamp[f] # 0})]
    /\ UNCHANGED <<visible, processed, transaction, dispatched, faults>>

\* ... and commits.
Publish(e) ==
    /\ stamp[e] # 0 /\ e \notin visible
    /\ visible' = visible \cup {e}
    /\ UNCHANGED <<stamp, processed, transaction, dispatched, faults>>

\* The oldest rows of S, as many as LIMIT allows.
OldestOf(S) ==
    {B \in SUBSET S : /\ Cardinality(B) <= BatchSize
                      /\ Cardinality(B) = BatchSize \/ B = S
                      /\ \A b \in B, a \in S \ B : stamp[b] <= stamp[a]}

\* Mutant: FOR UPDATE SKIP LOCKED left out.
PollUnlocked(w) ==
    /\ ~ Busy(w)
    /\ \E B \in OldestOf(visible \ processed) :
           /\ B # {}
           /\ held' = [held EXCEPT ![w] = B]
           /\ todo' = [todo EXCEPT ![w] = B]
    /\ UNCHANGED <<table, current, marked, aborted, dispatched, faults>>

\* The SELECT. A poll that finds nothing changes nothing.
Poll(w) ==
    /\ ~ Busy(w)
    /\ \E B \in OldestOf((visible \ processed) \ Locked) :
           /\ B # {}
           /\ held' = [held EXCEPT ![w] = B]
           /\ todo' = [todo EXCEPT ![w] = B]
    /\ UNCHANGED <<table, current, marked, aborted, dispatched, faults>>

IsNext(w, e) ==
    /\ Busy(w) /\ current[w] = None
    /\ e \in todo[w] /\ \A f \in todo[w] : stamp[e] <= stamp[f]

\* handleEvent returns.
Handle(w, e) ==
    /\ IsNext(w, e) /\ e \notin Poison
    /\ todo' = [todo EXCEPT ![w] = @ \ {e}]
    /\ current' = [current EXCEPT ![w] = e]
    /\ dispatched' = [dispatched EXCEPT ![e] = @ + 1]
    /\ UNCHANGED <<table, held, marked, aborted, faults>>

\* Mutant: one try block around the loop, so that a failure ends the batch.
HandleFailsAndStops(w, e) ==
    /\ IsNext(w, e)
    /\ todo' = [todo EXCEPT ![w] = {}]
    /\ IF e \in Poison THEN UNCHANGED faults ELSE Fault
    /\ UNCHANGED <<table, held, current, marked, aborted, dispatched>>

\* handleEvent throws before its side effect; the row is left for a later poll.
HandleFails(w, e) ==
    /\ IsNext(w, e)
    /\ todo' = [todo EXCEPT ![w] = @ \ {e}]
    /\ IF e \in Poison THEN UNCHANGED faults ELSE Fault
    /\ UNCHANGED <<table, held, current, marked, aborted, dispatched>>

\* The UPDATE of the row just handled; in an aborted transaction it fails too.
Mark(w) ==
    /\ current[w] # None
    /\ marked' = IF aborted[w] THEN marked
                 ELSE [marked EXCEPT ![w] = @ \cup {current[w]}]
    /\ current' = [current EXCEPT ![w] = None]
    /\ UNCHANGED <<table, held, todo, aborted, dispatched, faults>>

MarkFails(w) ==
    /\ current[w] # None /\ Fault
    /\ aborted' = [aborted EXCEPT ![w] = TRUE]
    /\ current' = [current EXCEPT ![w] = None]
    /\ UNCHANGED <<table, held, todo, marked, dispatched>>

EndTransaction(w) ==
    /\ held' = [held EXCEPT ![w] = {}]
    /\ todo' = [todo EXCEPT ![w] = {}]
    /\ current' = [current EXCEPT ![w] = None]
    /\ marked' = [marked EXCEPT ![w] = {}]
    /\ aborted' = [aborted EXCEPT ![w] = FALSE]

\* Mutant: the UPDATE names the ids of the batch, not of the event handled.
CommitBatch(w) ==
    /\ Busy(w) /\ todo[w] = {} /\ current[w] = None
    /\ processed' = IF aborted[w] THEN processed ELSE processed \cup held[w]
    /\ EndTransaction(w)
    /\ UNCHANGED <<stamp, visible, dispatched, faults>>

\* The COMMIT after the loop; of an aborted transaction it is a ROLLBACK.
Commit(w) ==
    /\ Busy(w) /\ todo[w] = {} /\ current[w] = None
    /\ processed' = IF aborted[w] THEN processed ELSE processed \cup marked[w]
    /\ EndTransaction(w)
    /\ UNCHANGED <<stamp, visible, dispatched, faults>>

\* The process stops, or the COMMIT fails: everything is rolled back, and the
\* worker polls again.
Rollback(w) ==
    /\ Busy(w) /\ Fault
    /\ EndTransaction(w)
    /\ UNCHANGED <<table, dispatched>>

Worker(w) ==
    \/ Poll(w) \/ Mark(w) \/ Commit(w)
    \/ \E e \in Events : Handle(w, e) \/ HandleFails(w, e)

Next ==
    \/ \E e \in Events : Insert(e) \/ Publish(e)
    \/ \E w \in Workers : Worker(w) \/ MarkFails(w) \/ Rollback(w)

\* The loops keep polling (setTimeout after every poll) and a transaction once
\* begun goes on; no producer has to commit.
Spec == Init /\ [][Next]_vars /\ \A w \in Workers : WF_vars(Worker(w))

-----------------------------------------------------------------------------
\* No side effect is skipped: a row is marked, and its mark committed, only
\* after its event was dispatched.
NothingIsSkipped ==
    \A e \in Events :
        (e \in processed \/ \E w \in Workers : e \in marked[w]) => dispatched[e] > 0

\* The outbox keeps the abstract promise: an event is open from the commit of its
\* row to the commit of its mark, and only what was dispatched is closed.
Delivery == INSTANCE AtLeastOnce WITH
    Items <- Events, open <- visible \ processed,
    done <- {e \in Events : dispatched[e] > 0}, buried <- {}
IsAtLeastOnce == Delivery!Spec

\* "exactly-once delivery across multiple Node.js PM2 workers": two polls never
\* deliver one event twice between them, only a fault does, once each.
RepeatsAreFaults == \A e \in Events : dispatched[e] <= 1 + faults

\* What the lock is for: an event handled but not committed is in one worker's
\* hands, and nobody dispatches an event whose row is already marked.
OneWorkerPerEvent ==
    \A v, w \in Workers : v # w =>
        (todo[v] \cup {current[v]} \cup marked[v])
            \cap (todo[w] \cup {current[w]} \cup marked[w]) \subseteq {None}

\* Every event that can be delivered is processed in the end, if fewer events
\* than a batch can never be (LIMIT takes the oldest rows, with no count of
\* attempts, so that many would fill every batch).
HealthyAreProcessed ==
    \A e \in Events \ Poison : e \in visible ~> e \in processed
=============================================================================
