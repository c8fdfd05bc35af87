-------------------------- MODULE OfferingVersions --------------------------
(***************************************************************************)
(* server/routes/scm-offerings.js: the offerings of one supplier and their *)
(* price versions, and the offboarding of server/routes/                   *)
(* scm-trust-engine.js, which discontinues all of them.                    *)
(*                                                                         *)
(* The variables hold what is committed. An action is a statement at which *)
(* transactions can meet; what follows it up to COMMIT, under the row lock *)
(* of the offering, is part of it. NOW() is the start of the transaction.  *)
(***************************************************************************)
EXTENDS Naturals, Sequences

CONSTANTS
    Offerings,
    Calls,              \* transactions that can be open at once
    None,               \* no call
    Open,               \* valid_to IS NULL
    MaxVersions,        \* bound: rows of one offering
    MaxTime             \* bound: the clock

ASSUME NoneIsNoCall == None \notin Calls
ASSUME OpenIsNoTime == Open \notin Nat

VARIABLES
    now,                \* the database's clock
    status,             \* status[o]: supplier_offerings.status, "none": no row
    rows,               \* rows[o]: supplier_offering_versions, in insertion order
    lock,               \* lock[o]: the call that holds the row lock of the offering
    at,                 \* at[c]: the statement c executes next
    on,                 \* on[c]: the offerings c is about and can write
    began,              \* began[c]: NOW() in c
    cur,                \* cur[c]: position of the version a PUT read, 0: none
    want,               \* want[c]: offerings an offboarding has yet to lock
    raced               \* history: offerings two calls in flight were about

table == <<status, rows>>
call == <<at, on, began, cur, want>>
vars == <<now, table, lock, call, raced>>

\* "by" is not a column: what closed the row.
Version == [version : Nat, from : Nat, to : Nat \cup {Open},
            by : {"none", "put", "delete", "offboard"}]

TypeOK ==
    /\ now \in Nat
    /\ status \in [Offerings -> {"none", "active", "discontinued"}]
    /\ rows \in [Offerings -> Seq(Version)]
    /\ lock \in [Offerings -> Calls \cup {None}]
    /\ at \in [Calls -> {"idle", "post", "lock", "read", "write", "delete", "sweep"}]
    /\ on \in [Calls -> SUBSET Offerings]
    /\ began \in [Calls -> Nat]
    /\ cur \in [Calls -> Nat]
    /\ want \in [Calls -> SUBSET Offerings]
    /\ raced \in SUBSET Offerings

Init ==
    /\ now = 0
    /\ status = [o \in Offerings |-> "none"]
    /\ rows = [o \in Offerings |-> <<>>]
    /\ lock = [o \in Offerings |-> None]
    /\ at = [c \in Calls |-> "idle"]
    /\ on = [c \in Calls |-> {}]
    /\ began = [c \in Calls |-> 0]
    /\ cur = [c \in Calls |-> 0]
    /\ want = [c \in Calls |-> {}]
    /\ raced = {}

-----------------------------------------------------------------------------
Exists(o) == status[o] # "none"
OpenRows(q) == {i \in DOMAIN q : q[i].to = Open}
Fresh(n, t) == [version |-> n, from |-> t, to |-> Open, by |-> "none"]

\* UPDATE ... SET valid_to = t WHERE valid_to IS NULL.
Closed(q, t, who) ==
    [i \in DOMAIN q |-> IF q[i].to = Open THEN [q[i] EXCEPT !.to = t, !.by = who] ELSE q[i]]

Tick ==
    /\ now < MaxTime
    /\ now' = now + 1
    /\ UNCHANGED <<table, lock, call, raced>>

\* BEGIN of a transaction about the offerings s.
Begin(c, stmt, s) ==
    /\ at[c] = "idle"
    /\ at' = [at EXCEPT ![c] = stmt]
    /\ on' = [on EXCEPT ![c] = s]
    /\ began' = [began EXCEPT ![c] = now]
    /\ raced' = raced \cup
         {o \in s : \E d \in Calls \ {c} : at[d] # "idle" /\ o \in on[d]}

\* COMMIT or ROLLBACK: every lock of c is given back.
Release(c) ==
    /\ at' = [at EXCEPT ![c] = "idle"]
    /\ lock' = [o \in Offerings |-> IF lock[o] = c THEN None ELSE lock[o]]
    /\ began' = [began EXCEPT ![c] = 0]
    /\ cur' = [cur EXCEPT ![c] = 0] /\ want' = [want EXCEPT ![c] = {}]
    /\ UNCHANGED <<now, raced>>

End(c) == Release(c) /\ on' = [on EXCEPT ![c] = {}]

\* A statement fails, a deadlock is broken or the process stops; a retry is
\* another transaction.
Fail(c) ==
    /\ at[c] # "idle"
    /\ End(c)
    /\ UNCHANGED table

-----------------------------------------------------------------------------
\* POST: an id of its own for every new offering.
BeginPost(c, o) ==
    /\ ~ Exists(o)
    /\ \A d \in Calls : ~ (at[d] = "post" /\ o \in on[d])
    /\ Begin(c, "post", {o})
    /\ UNCHANGED <<now, table, lock, cur, want>>

Post(c, o) ==
    /\ at[c] = "post" /\ on[c] = {o}
    /\ status' = [status EXCEPT ![o] = "active"]
    /\ rows' = [rows EXCEPT ![o] = <<Fresh(1, began[c])>>]
    /\ End(c)

BeginPut(c, o) ==
    /\ Exists(o)
    /\ Begin(c, "lock", {o})
    /\ UNCHANGED <<now, table, lock, cur, want>>

\* Mutant: the SELECT without FOR UPDATE.
LockPutShared(c, o) ==
    /\ at[c] = "lock" /\ on[c] = {o}
    /\ at' = [at EXCEPT ![c] = "read"]
    /\ UNCHANGED <<now, table, lock, on, began, cur, want, raced>>

\* SELECT ... FOR UPDATE waits for the lock, NOW() does not move.
LockPut(c, o) ==
    /\ at[c] = "lock" /\ on[c] = {o} /\ lock[o] = None
    /\ lock' = [lock EXCEPT ![o] = c]
    /\ at' = [at EXCEPT ![c] = "read"]
    /\ UNCHANGED <<now, table, on, began, cur, want, raced>>

ReadCurrent(c, o) ==
    /\ at[c] = "read" /\ on[c] = {o} /\ Len(rows[o]) < MaxVersions
    /\ \E i \in OpenRows(rows[o]) \cup {0} :
        /\ i = 0 => OpenRows(rows[o]) = {}
        /\ cur' = [cur EXCEPT ![c] = i]
    /\ at' = [at EXCEPT ![c] = "write"]
    /\ UNCHANGED <<now, table, lock, on, began, want, raced>>

\* The rows after the current one was closed and the next inserted at t.
Rotated(q, i, t) ==
    IF i = 0 THEN Append(q, Fresh(1, t))
    ELSE Append([q EXCEPT ![i].to = t, ![i].by = "put"], Fresh(q[i].version + 1, t))

\* The PUT commits. An offboarding whose second UPDATE has been waiting for the
\* version this PUT closes does not see the one it inserts.
Commit(c, o) ==
    /\ Release(c)
    /\ \E blind \in SUBSET {d \in Calls \ {c} : at[d] = "sweep" /\ want[d] = {}} :
        on' = [d \in Calls |-> IF d = c THEN {}
                               ELSE IF d \in blind THEN on[d] \ {o} ELSE on[d]]

\* Mutant: the new version starts at the clock's time, not at the shared one.
WriteTwoClocks(c, o, st) ==
    /\ at[c] = "write" /\ on[c] = {o}
    /\ LET q == Rotated(rows[o], cur[c], began[c])
       IN  /\ rows' = [rows EXCEPT ![o] = [q EXCEPT ![Len(q)].from = now]]
           /\ status' = [status EXCEPT ![o] = IF st = "keep" THEN @ ELSE st]
    /\ Commit(c, o)

\* Steps 4 to 7 of PUT and COMMIT; anything but one active version rolls back.
Write(c, o, st) ==
    /\ at[c] = "write" /\ on[c] = {o}
    /\ LET q == Rotated(rows[o], cur[c], began[c])
       IN  IF \E i \in DOMAIN q : OpenRows(q) = {i}
           THEN /\ rows' = [rows EXCEPT ![o] = q]
                /\ status' = [status EXCEPT ![o] = IF st = "keep" THEN @ ELSE st]
                /\ Commit(c, o)
           ELSE End(c) /\ UNCHANGED table

BeginDelete(c, o) ==
    /\ Exists(o)
    /\ Begin(c, "delete", {o})
    /\ UNCHANGED <<now, table, lock, cur, want>>

\* Mutant: CURRENT_DATE, the day's first moment, for NOW().
DeleteBackdated(c, o) ==
    /\ at[c] = "delete" /\ on[c] = {o} /\ lock[o] = None
    /\ status' = [status EXCEPT ![o] = "discontinued"]
    /\ rows' = [rows EXCEPT ![o] = Closed(@, 0, "delete")]
    /\ End(c)

\* The first UPDATE waits for the lock; then both and COMMIT.
Delete(c, o) ==
    /\ at[c] = "delete" /\ on[c] = {o} /\ lock[o] = None
    /\ status' = [status EXCEPT ![o] = "discontinued"]
    /\ rows' = [rows EXCEPT ![o] = Closed(@, began[c], "delete")]
    /\ End(c)

-----------------------------------------------------------------------------
\* Offboarding: the first UPDATE locks the offerings it sees, in any order.
BeginSweep(c) ==
    /\ Begin(c, "sweep", Offerings)
    /\ want' = [want EXCEPT ![c] = {o \in Offerings : Exists(o)}]
    /\ UNCHANGED <<now, table, lock, cur>>

SweepLock(c, o) ==
    /\ at[c] = "sweep" /\ o \in want[c] /\ lock[o] = None
    /\ lock' = [lock EXCEPT ![o] = c]
    /\ want' = [want EXCEPT ![c] = @ \ {o}]
    /\ UNCHANGED <<now, table, at, on, began, cur, raced>>

\* Mutant: the versions are closed, the offerings left as they are.
SweepVersions(c) ==
    /\ at[c] = "sweep" /\ want[c] = {}
    /\ rows' = [o \in Offerings |->
                   IF lock[o] = c THEN Closed(rows[o], began[c], "delete") ELSE rows[o]]
    /\ UNCHANGED status
    /\ End(c)

\* The second UPDATE closes the versions of all offerings there are by now,
\* also of those the first did not see and has not locked.
Sweep(c) ==
    /\ at[c] = "sweep" /\ want[c] = {}
    /\ status' = [o \in Offerings |-> IF lock[o] = c THEN "discontinued" ELSE status[o]]
    /\ rows' = [o \in Offerings |->
           IF o \notin on[c] THEN rows[o]
           ELSE Closed(rows[o], began[c], IF lock[o] = c THEN "delete" ELSE "offboard")]
    /\ End(c)

Step(c) ==
    \/ \E o \in Offerings :
        \/ BeginPost(c, o) \/ Post(c, o)
        \/ BeginPut(c, o) \/ LockPut(c, o) \/ ReadCurrent(c, o)
        \/ \E st \in {"keep", "active", "discontinued"} : Write(c, o, st)
        \/ BeginDelete(c, o) \/ Delete(c, o)
        \/ SweepLock(c, o)
    \/ BeginSweep(c) \/ Sweep(c)
    \/ Fail(c)

Next == Tick \/ \E c \in Calls : Step(c)

Spec == Init /\ [][Next]_vars

-----------------------------------------------------------------------------
\* "exactly 1 active version. No gap, no overlap" as the code keeps it: only
\* the last version can be open, and the next one follows without a gap, with
\* the next number. Only where DELETE or offboarding closed a version there is
\* a gap, after which a PUT starts again at number 1.
Chain ==
    \A o \in Offerings : \A i \in 1..(Len(rows[o]) - 1) :
        LET a == rows[o][i] b == rows[o][i + 1]
        IN  /\ a.to # Open
            /\ \/ b.version = a.version + 1 /\ b.from = a.to
               \/ b.version = 1 /\ a.by \in {"delete", "offboard"}

\* "Immutable version rotation": a version is closed once and then stays as it
\* is. The exception is a version closed by an offboarding that had not locked
\* its offering: a PUT that has read it closes it again, at its own time.
VersionsAreImmutable ==
    [][\A o \in Offerings : \A i \in DOMAIN rows[o] :
        /\ i \in DOMAIN rows'[o]
        /\ rows[o][i].to # Open /\ rows[o][i].by # "offboard" =>
               rows'[o][i] = rows[o][i]]_vars

\* The two tables agree: a listed offering has a version in force, unless it
\* was created while an offboarding was under way, which closes its version
\* but leaves it listed.
ListedHasPrice ==
    \A o \in Offerings : status[o] = "active" =>
        /\ rows[o] # <<>>
        /\ LET last == rows[o][Len(rows[o])]
           IN  last.to = Open \/ last.by = "offboard"

\* Periods follow each other in time as long as no two transactions about the
\* offering overlapped. With two, the one that waits for the lock writes its
\* own, older NOW(): a version then ends before it began.
SerialPeriods ==
    \A o \in Offerings \ raced :
        /\ \A i \in DOMAIN rows[o] : rows[o][i].to # Open => rows[o][i].from <= rows[o][i].to
        /\ \A i \in 1..(Len(rows[o]) - 1) : rows[o][i].to <= rows[o][i + 1].from
=============================================================================
