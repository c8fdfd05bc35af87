------------------------------ MODULE EventBus ------------------------------
(***************************************************************************)
(* server/events/event-bus.js and dead-letter.js: one stream read by one   *)
(* consumer group. Every process runs a poller, which reads new messages,  *)
(* and a recovery timer, which claims messages that have been pending for  *)
(* long, its own process's unfinished ones included. Both work through     *)
(* their batch message by message; an action is one await of               *)
(* _processMessage, of a loop or of replay(). Faults are failing calls to  *)
(* Redis and stopping processes.                                           *)
(***************************************************************************)
EXTENDS Faults, Integers, Sequences, FiniteSets, FiniteSetsExt

CONSTANTS
    Procs,
    Rounds,             \* recovery rounds of a process: setInterval does not wait
                        \* for one to end before it starts another
    MaxRetries,         \* CONFIG.maxRetries
    BatchSize,          \* CONFIG.batchSize
    MaxSent             \* bound: messages published

ASSUME Tunables == MaxRetries \in Nat \ {0} /\ BatchSize \in Nat \ {0}
ASSUME BusBounds ==
    /\ MaxSent \in Nat
    /\ IsFiniteSet(Procs) /\ IsFiniteSet(Rounds)

VARIABLES
    sent,               \* messages 1..sent are in the stream
    read,               \* the group's last-delivered message
    pel,                \* pending entries of the group
    idle,               \* those of them not delivered or claimed for 60 s
    marked,             \* messages that have a dedup key
    dlq,                \* messages of the Redis list of dead letters, newest first
    memory,             \* memory[p]: memoryDLQ of the process
    at,                 \* at[l]: the await a loop is at
    batch,              \* batch[l]: messages the loop has yet to finish
    tries,              \* tries[l]: attempts
    replay,             \* the dead letter being replayed and its index, 0: none
    handled,            \* history: messages the group's handler has succeeded with
    credit,             \* history: credit[m] successes are still accounted for
    moved,              \* history: the list has changed since that replay looked
    gone                \* history: dead letters that expired or were purged, lost
                        \* with the memory of a stopped process, or written over

redis == <<sent, read, pel, idle, marked, dlq>>
loop == <<at, batch, tries>>
history == <<handled, credit, gone, faults>>
letter == <<replay, moved>>
busVars == <<redis, memory, loop, letter, history>>

Loops == Procs \X ({"poll"} \cup Rounds)
Messages == 1..MaxSent
NoReplay == [index |-> 0, msg |-> 0]

BusTypeOK ==
    /\ sent \in 0..MaxSent /\ read \in 0..sent
    /\ pel \subseteq 1..read /\ idle \subseteq pel
    /\ marked \subseteq 1..read
    /\ dlq \in Seq(1..read)
    /\ memory \in [Procs -> SUBSET (1..read)]
    /\ at \in [Loops -> {"idle", "check", "handle", "ack", "mark", "bury", "drop"}]
    /\ batch \in [Loops -> SUBSET (1..read)]
    /\ \A l \in Loops : batch[l] = {} <=> at[l] = "idle"
    /\ tries \in [Loops -> 0..MaxRetries]
    /\ replay \in [index : Nat, msg : 0..read] /\ moved \in BOOLEAN
    /\ handled \subseteq 1..read /\ gone \subseteq 1..read
    /\ credit \in [Messages -> Int]
    /\ faults \in 0..MaxFaults

BusInit ==
    /\ sent = 0 /\ read = 0
    /\ pel = {} /\ idle = {} /\ marked = {}
    /\ dlq = <<>>
    /\ memory = [p \in Procs |-> {}]
    /\ at = [l \in Loops |-> "idle"]
    /\ batch = [l \in Loops |-> {}]
    /\ tries = [l \in Loops |-> 0]
    /\ replay = NoReplay /\ moved = FALSE
    /\ handled = {} /\ gone = {} /\ faults = 0
    /\ credit = [m \in Messages |-> 1]

-----------------------------------------------------------------------------
\* XADD; a publish that is throttled or fails adds nothing.
Publish ==
    /\ sent < MaxSent
    /\ sent' = sent + 1
    /\ UNCHANGED <<read, pel, idle, marked, dlq, memory, loop, letter, history>>

\* The BatchSize oldest of the messages s.
OldestOf(s) ==
    {m \in s : Cardinality({k \in s : k < m}) < BatchSize}

\* The message the loop is working on.
Current(l) == Min(batch[l])

Take(l, s) ==
    /\ at' = [at EXCEPT ![l] = "check"]
    /\ batch' = [batch EXCEPT ![l] = s]
    /\ UNCHANGED tries

\* XREADGROUP ... '>'.
Poll(l) ==
    /\ l[2] = "poll" /\ at[l] = "idle" /\ read < sent
    /\ LET s == OldestOf((read + 1)..sent)
       IN  /\ Take(l, s)
           /\ read' = Max(s)
           /\ pel' = pel \cup s
    /\ UNCHANGED <<sent, idle, marked, dlq, memory, letter, history>>

\* A pending message has not been delivered or claimed for 60 s.
Idle(m) ==
    /\ m \in pel \ idle
    /\ idle' = idle \cup {m}
    /\ UNCHANGED <<sent, read, pel, marked, dlq, memory, loop, letter, history>>

\* Mutant: XAUTOCLAIM starts at the last message read, not at '0-0'.
ClaimFromLast(l) ==
    /\ l[2] # "poll" /\ at[l] = "idle" /\ read \in idle
    /\ Take(l, {read})
    /\ idle' = idle \ {read}
    /\ UNCHANGED <<sent, read, pel, marked, dlq, memory, letter, history>>

\* XAUTOCLAIM. The loop that had a message is not told and goes on with it.
AutoClaim(l) ==
    /\ l[2] # "poll" /\ at[l] = "idle" /\ idle # {}
    /\ LET s == OldestOf(idle)
       IN  /\ Take(l, s)
           /\ idle' = idle \ s
    /\ UNCHANGED <<sent, read, pel, marked, dlq, memory, letter, history>>

-----------------------------------------------------------------------------
\* The loop goes on with the next message of its batch.
Advance(l) ==
    /\ batch' = [batch EXCEPT ![l] = @ \ {Current(l)}]
    /\ at' = [at EXCEPT ![l] = IF batch[l] = {Current(l)} THEN "idle" ELSE "check"]
    /\ tries' = [tries EXCEPT ![l] = 0]

Acked(m) == pel' = pel \ {m} /\ idle' = idle \ {m}

\* XACK fails, before or after Redis has done it.
AckedOrNot(m) == Acked(m) \/ UNCHANGED <<pel, idle>>

\* Another loop is past its own look at the dedup key of m.
Underway(m, l) ==
    \E k \in Loops \ {l} : at[k] \in {"handle", "ack", "mark"} /\ Current(k) = m

\* No dedup key yet.
Proceed(l) ==
    /\ at' = [at EXCEPT ![l] = "handle"]
    /\ credit' = [credit EXCEPT ![Current(l)] = IF Underway(Current(l), l) THEN @ + 1 ELSE @]
    /\ UNCHANGED <<pel, idle, batch, tries>>

\* Mutant: no look at the dedup key.
CheckNothing(l) ==
    /\ at[l] = "check"
    /\ Proceed(l)
    /\ UNCHANGED <<sent, read, marked, dlq, memory, letter, handled, gone, faults>>

\* GET of the dedup key, and XACK if there is one.
Check(l) ==
    /\ at[l] = "check"
    /\ IF Current(l) \in marked
       THEN Acked(Current(l)) /\ Advance(l) /\ UNCHANGED credit
       ELSE Proceed(l)
    /\ UNCHANGED <<sent, read, marked, dlq, memory, letter, handled, gone, faults>>

\* Either of the two fails: the message is processed anyway.
CheckFails(l) ==
    /\ at[l] = "check" /\ Fault
    /\ IF Current(l) \in marked THEN AckedOrNot(Current(l)) ELSE UNCHANGED <<pel, idle>>
    /\ at' = [at EXCEPT ![l] = "handle"]
    /\ credit' = [credit EXCEPT ![Current(l)] = @ + 1]
    /\ UNCHANGED <<sent, read, marked, dlq, memory, batch, tries, letter, handled, gone>>

\* The handler resolves.
Handle(l) ==
    /\ at[l] = "handle"
    /\ at' = [at EXCEPT ![l] = "ack"]
    /\ handled' = handled \cup {Current(l)}
    /\ credit' = [credit EXCEPT ![Current(l)] = @ - 1]
    /\ UNCHANGED <<redis, memory, batch, tries, letter, gone, faults>>

\* One more failed attempt.
Attempt(l) ==
    /\ tries' = [tries EXCEPT ![l] = @ + 1]
    /\ at' = [at EXCEPT ![l] = IF tries[l] + 1 < MaxRetries THEN "handle" ELSE "bury"]
    /\ UNCHANGED batch

\* The handler rejects.
HandleFails(l) ==
    /\ at[l] = "handle"
    /\ Attempt(l)
    /\ UNCHANGED <<redis, memory, letter, history>>

\* Mutant: XACK of all ids of the batch.
AckBatch(l) ==
    /\ at[l] = "ack"
    /\ pel' = pel \ batch[l] /\ idle' = idle \ batch[l]
    /\ at' = [at EXCEPT ![l] = "mark"]
    /\ UNCHANGED <<sent, read, marked, dlq, memory, batch, tries, letter, history>>

Ack(l) ==
    /\ at[l] = "ack"
    /\ Acked(Current(l))
    /\ at' = [at EXCEPT ![l] = "mark"]
    /\ UNCHANGED <<sent, read, marked, dlq, memory, batch, tries, letter, history>>

\* XACK is in the handler's try block: its failure is a failed attempt.
AckFails(l) ==
    /\ at[l] = "ack" /\ Fault
    /\ AckedOrNot(Current(l))
    /\ Attempt(l)
    /\ credit' = [credit EXCEPT ![Current(l)] = @ + 1]
    /\ UNCHANGED <<sent, read, marked, dlq, memory, letter, handled, gone>>

\* SETEX of the dedup key.
Mark(l) ==
    /\ at[l] = "mark"
    /\ marked' = marked \cup {Current(l)}
    /\ Advance(l)
    /\ UNCHANGED <<sent, read, pel, idle, dlq, memory, letter, history>>

\* It fails, which is ignored; with only its reply lost, it is a Mark.
MarkFails(l) ==
    /\ at[l] = "mark" /\ Fault
    /\ credit' = [credit EXCEPT ![Current(l)] = @ + 1]
    /\ Advance(l)
    /\ UNCHANGED <<redis, memory, letter, handled, gone>>

-----------------------------------------------------------------------------
\* dlq.push: LPUSH and EXPIRE; when one fails, the letter goes to memory, after
\* EXPIRE in addition.
Pushed(m) == dlq' = <<m>> \o dlq /\ moved' = (replay # NoReplay)

Bury(l) ==
    /\ at[l] = "bury"
    /\ Pushed(Current(l))
    /\ at' = [at EXCEPT ![l] = "drop"]
    /\ UNCHANGED <<sent, read, pel, idle, marked, memory, batch, tries, replay,
                   handled, credit, gone, faults>>

BuryFails(l) ==
    /\ at[l] = "bury" /\ Fault
    /\ Pushed(Current(l)) \/ UNCHANGED <<dlq, moved>>
    /\ memory' = [memory EXCEPT ![l[1]] = @ \cup {Current(l)}]
    /\ at' = [at EXCEPT ![l] = "drop"]
    /\ UNCHANGED <<sent, read, pel, idle, marked, batch, tries, replay,
                   handled, credit, gone>>

\* XACK of a buried message.
Drop(l) ==
    /\ at[l] = "drop"
    /\ Acked(Current(l))
    /\ Advance(l)
    /\ UNCHANGED <<sent, read, marked, dlq, memory, letter, history>>

\* It fails: the error ends the loop's round, the rest of the batch stays pending.
DropFails(l) ==
    /\ at[l] = "drop" /\ Fault
    /\ AckedOrNot(Current(l))
    /\ batch' = [batch EXCEPT ![l] = {}]
    /\ at' = [at EXCEPT ![l] = "idle"]
    /\ tries' = [tries EXCEPT ![l] = 0]
    /\ UNCHANGED <<sent, read, marked, dlq, memory, letter, handled, credit, gone>>

\* The process stops, and is started again.
Stop(p) ==
    /\ Fault
    /\ batch' = [l \in Loops |-> IF l[1] = p THEN {} ELSE batch[l]]
    /\ at' = [l \in Loops |-> IF l[1] = p THEN "idle" ELSE at[l]]
    /\ tries' = [l \in Loops |-> IF l[1] = p THEN 0 ELSE tries[l]]
    /\ memory' = [memory EXCEPT ![p] = {}]
    /\ gone' = gone \cup memory[p]
    /\ credit' = [m \in Messages |-> credit[m] +
           Cardinality({l \in Loops : l[1] = p /\ at[l] \in {"ack", "mark"} /\ Current(l) = m})]
    /\ UNCHANGED <<redis, letter, handled>>

-----------------------------------------------------------------------------
\* replay(): the letter's index is looked up; then the caller's handler is awaited.
\* (replayAll() changes nothing: it flags letters in the copy it has read.)
BeginReplay(i) ==
    /\ replay = NoReplay /\ i \in DOMAIN dlq
    /\ replay' = [index |-> i, msg |-> dlq[i]] /\ moved' = FALSE
    /\ UNCHANGED <<redis, memory, loop, history>>

\* Mutant: LSET with an index that counts from 1.
ReplayedAside ==
    /\ replay # NoReplay /\ replay.index + 1 \in DOMAIN dlq
    /\ dlq' = [dlq EXCEPT ![replay.index + 1] = replay.msg]
    /\ gone' = (gone \cup {dlq[replay.index + 1]}) \ {replay.msg}
    /\ replay' = NoReplay /\ moved' = FALSE
    /\ UNCHANGED <<sent, read, pel, idle, marked, memory, loop, handled, credit, faults>>

\* LSET at that index, whatever letter is there by now.
Replayed ==
    /\ replay # NoReplay /\ replay.index \in DOMAIN dlq
    /\ dlq' = [dlq EXCEPT ![replay.index] = replay.msg]
    /\ gone' = (gone \cup {dlq[replay.index]}) \ {replay.msg}
    /\ replay' = NoReplay /\ moved' = FALSE
    /\ UNCHANGED <<sent, read, pel, idle, marked, memory, loop, handled, credit, faults>>

\* The handler rejects, or LSET fails, which is ignored: with Redis, or because the
\* list has no such index any more.
ReplayFails ==
    /\ replay # NoReplay
    /\ replay' = NoReplay /\ moved' = FALSE
    /\ UNCHANGED <<redis, memory, loop, history>>

\* The list of Redis is emptied, and the memory of the processes ps.
Emptied(ps) ==
    /\ dlq' = <<>> /\ moved' = (replay # NoReplay)
    /\ memory' = [p \in Procs |-> IF p \in ps THEN {} ELSE memory[p]]
    /\ gone' = gone \cup {dlq[i] : i \in DOMAIN dlq} \cup UNION {memory[p] : p \in ps}
    /\ UNCHANGED <<sent, read, pel, idle, marked, loop, replay, handled, credit, faults>>

\* No letter was pushed for DLQ_MAX_AGE_DAYS: the key expires, and with it all letters.
Expire == dlq # <<>> /\ Emptied({})

\* purge(): DEL, and the memory of the process it runs in.
Purge(p) == (dlq # <<>> \/ memory[p] # {}) /\ Emptied({p})

\* DEL fails, which is ignored. A letter is in memory only after a fault, which bounds it.
PurgeFails(p) ==
    /\ memory[p] # {}
    /\ memory' = [memory EXCEPT ![p] = {}]
    /\ gone' = gone \cup memory[p]
    /\ UNCHANGED <<redis, loop, letter, handled, credit, faults>>

Work(l) ==
    \/ Poll(l) \/ AutoClaim(l) \/ Check(l) \/ Handle(l) \/ HandleFails(l)
    \/ Ack(l) \/ Mark(l) \/ Bury(l) \/ Drop(l)

LoopFault(l) ==
    CheckFails(l) \/ AckFails(l) \/ MarkFails(l) \/ BuryFails(l) \/ DropFails(l)

BusNext ==
    \/ Publish
    \/ \E l \in Loops : Work(l) \/ LoopFault(l)
    \/ \E m \in 1..read : Idle(m)
    \/ \E p \in Procs : Stop(p) \/ Purge(p) \/ PurgeFails(p)
    \/ \E i \in 1..Len(dlq) : BeginReplay(i)
    \/ Replayed \/ ReplayFails \/ Expire

\* The timers keep firing and handlers settle, one way or the other.
BusFairness ==
    /\ \A l \in Loops : WF_busVars(Work(l))
    /\ \A m \in Messages : WF_busVars(Idle(m))

BusSpec == BusInit /\ [][BusNext]_busVars /\ BusFairness

-----------------------------------------------------------------------------
Letters == {dlq[i] : i \in DOMAIN dlq}
Buried == Letters \cup gone \cup UNION {memory[p] : p \in Procs}

\* "At-least-once delivery": a message delivered to the group is pending, was
\* handled, or is or was a dead letter.
NothingIsLost == \A m \in 1..read : m \in pel \cup handled \cup Buried

\* A dead letter stays in the list, where somebody can see it, but for two ways
\* out: the whole list expires or is purged, or a replay() writes back to an index
\* it looked up before the list changed, and so over another letter.
LettersAreKept ==
    [][\A m \in Letters :
          \/ m \in Letters'
          \/ dlq' = <<>>
          \/ replay # NoReplay /\ replay' = NoReplay /\ moved]_busVars

\* The bus keeps the abstract promise: a published message is open until it is
\* acknowledged, and only what was handled or buried is acknowledged.
Delivery == INSTANCE AtLeastOnce WITH
    Items <- Messages, open <- ((read + 1)..sent) \cup pel,
    done <- handled, buried <- Buried
IsAtLeastOnce == Delivery!Spec

\* What the dedup key is worth: beyond one success per message, each has a
\* reason of its own. A loop looked for the key while another was between its
\* look and its mark, a call to Redis failed, or a process stopped after the
\* handler and before the mark.
RepeatsHaveReasons == \A m \in Messages : credit[m] >= 0

\* When publishing pauses, the stream comes to rest: no message stays unread or
\* pending for ever, whoever held it. (A run publishes MaxSent messages at most.)
MessagesSettle == []<>(read = sent /\ pel = {})
=============================================================================
