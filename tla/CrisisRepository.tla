-------------------------- MODULE CrisisRepository --------------------------
(***************************************************************************)
(* server/data/crisis-repository.js as server/engines/crisis-module/       *)
(* crisis.js calls it: kill switches of single-key scopes (modules) and of *)
(* dual-key scopes (organisations, the whole system).                      *)
(*                                                                         *)
(* Every operation is one transaction of db.withTransaction (READ          *)
(* COMMITTED). The variables hold what is committed; a call carries what   *)
(* its open transaction has done: the rows it has locked and the expiries  *)
(* it has written. The statement that would make an uncommitted change     *)
(* visible to nobody is one step with the outbox INSERT and the COMMIT     *)
(* behind it: whoever would touch the same rows meanwhile waits for that   *)
(* COMMIT.                                                                 *)
(*                                                                         *)
(* A call that finds an active switch, a missing row or a closed one       *)
(* returns before it has written anything, or throws in the JSON.parse of  *)
(* the saved answer; where nothing is locked for later, such a call is no  *)
(* step here. Whether that JSON.parse throws hangs on the type of the      *)
(* column details (JSONB in migrate-crisis.js, whose ALTER TABLE db.run    *)
(* skips; not in the Prisma schema): where it matters, both are steps.     *)
(***************************************************************************)
EXTENDS Naturals, Sequences, FiniteSets

CONSTANTS
    Scopes,
    Dual,               \* scopes of level RED or BLACK
    Users,
    Calls,
    MaxSwitches,        \* bound of the model: switches of a single-key scope
    MaxRetries,         \* withTransaction(fn, maxRetries = 3)
    None

ASSUME DualIsScopes == Dual \subseteq Scopes
ASSUME NoneIsNothing == None \notin Scopes \cup Users
ASSUME MaxSwitchesIsNat == MaxSwitches \in Nat
ASSUME MaxRetriesIsPositive == MaxRetries \in Nat \ {0}

VARIABLES
    key,                \* key[s]: status of the dual-key row with id s; a row that is
                        \* 'pending' for more than 15 minutes is called lapsed here
    keyBy,              \* its activated_by
    keys,               \* keys[s][n]: who authorised the n-th switch row of s,
                        \* not recorded ({}) where one key is enough
    active,             \* active[s]: the rows among them with status 'active'
    outbox,             \* outbox[s]: the committed events that announce a switch
    asked,              \* asked[s]: the committed dual_key_initiated events
    at, arg, who, num,  \* at[c]: next statement; its scope, user and switch row
    old,                \* old[c]: the lapsed rows at its transaction's NOW()
    stale,              \* stale[c]: pending rows it has locked and expired
    attempt             \* attempt[c]: deadlocks it was the victim of

table == <<key, keyBy>>
switches == <<keys, active, outbox>>
calls == <<at, arg, who, num, old, stale, attempt>>
vars == <<table, switches, asked, calls>>

Pending == {"pending", "lapsed"}
Statuses == Pending \cup {"none", "approved", "expired"}
Initiating == {"begin", "expire", "insert_key"}
Approving == {"approve", "lock_key", "write"}
Steps == Initiating \cup Approving \cup {"idle", "insert_switch", "release"}
Changes == {"on", "off"} \X Nat

TablesTyped ==
    /\ key \in [Dual -> Statuses]
    /\ keyBy \in [Dual -> Users \cup {None}]
    /\ keys \in [Scopes -> Seq(SUBSET (Users \cup {None}))]
    /\ active \in [Scopes -> SUBSET Nat]
    /\ outbox \in [Scopes -> Seq(Changes)]
    /\ asked \in [Dual -> Nat]

CallsTyped ==
    /\ at \in [Calls -> Steps]
    /\ arg \in [Calls -> Scopes \cup {None}]
    /\ who \in [Calls -> Users \cup {None}]
    /\ num \in [Calls -> Nat]
    /\ old \in [Calls -> SUBSET Dual] /\ stale \in [Calls -> SUBSET Dual]
    /\ attempt \in [Calls -> 0..MaxRetries - 1]
    /\ \A c \in Calls :
          /\ at[c] \in {"insert_switch", "release"} => arg[c] \in Scopes
          /\ at[c] \in Initiating \cup Approving => arg[c] \in Dual /\ who[c] \in Users

TypeOK == TablesTyped /\ CallsTyped

Init ==
    /\ key = [s \in Dual |-> "none"] /\ keyBy = [s \in Dual |-> None]
    /\ keys = [s \in Scopes |-> <<>>] /\ active = [s \in Scopes |-> {}]
    /\ outbox = [s \in Scopes |-> <<>>]
    /\ asked = [s \in Dual |-> 0]
    /\ at = [c \in Calls |-> "idle"]
    /\ arg = [c \in Calls |-> None] /\ who = [c \in Calls |-> None]
    /\ num = [c \in Calls |-> 0]
    /\ old = [c \in Calls |-> {}] /\ stale = [c \in Calls |-> {}]
    /\ attempt = [c \in Calls |-> 0]

-----------------------------------------------------------------------------
Start(c, s, u, n, step) ==
    /\ at[c] = "idle"
    /\ at' = [at EXCEPT ![c] = step]
    /\ arg' = [arg EXCEPT ![c] = s]
    /\ who' = [who EXCEPT ![c] = u]
    /\ num' = [num EXCEPT ![c] = n]
    /\ UNCHANGED <<old, stale, attempt>>

\* The transaction goes on to its writes and compares no ages any more.
Goto(c, step) ==
    /\ at' = [at EXCEPT ![c] = step]
    /\ old' = [old EXCEPT ![c] = {}]
    /\ UNCHANGED <<arg, who, num, stale, attempt>>

\* BEGIN: NOW() stays what it is here, and no row is locked.
BeginAt(c, step) ==
    /\ at' = [at EXCEPT ![c] = step]
    /\ old' = [old EXCEPT ![c] = {s \in Dual : key[s] = "lapsed"}]
    /\ stale' = [stale EXCEPT ![c] = {}]
    /\ UNCHANGED <<arg, who, num>>

\* COMMIT or ROLLBACK of the call's last transaction, and its answer.
Finish(c) ==
    /\ at' = [at EXCEPT ![c] = "idle"]
    /\ arg' = [arg EXCEPT ![c] = None]
    /\ who' = [who EXCEPT ![c] = None]
    /\ num' = [num EXCEPT ![c] = 0]
    /\ old' = [old EXCEPT ![c] = {}]
    /\ stale' = [stale EXCEPT ![c] = {}]
    /\ attempt' = [attempt EXCEPT ![c] = 0]

\* Row locks of an open transaction on dual-key rows and on switch rows.
Holds(c, s) == s \in stale[c] \/ (at[c] = "write" /\ arg[c] = s)
HoldsSwitch(c, s, n) == at[c] = "release" /\ arg[c] = s /\ num[c] = n

Free(c, s) == \A d \in Calls \ {c} : ~ Holds(d, s)
Announce(s, change, n) == outbox' = [outbox EXCEPT ![s] = Append(@, <<change, n>>)]

Switch(s, K) ==
    /\ keys' = [keys EXCEPT ![s] = Append(@, K)]
    /\ active' = [active EXCEPT ![s] = @ \cup {Len(keys[s]) + 1}]
    /\ Announce(s, "on", Len(keys[s]) + 1)

-----------------------------------------------------------------------------
\* Mutant: required_approvers > 2 instead of >= 2 lets one key halt anything.
ActivateAny(c, s) ==
    /\ active[s] = {} /\ Len(keys[s]) < MaxSwitches
    /\ Start(c, s, None, 0, "insert_switch")
    /\ UNCHANGED <<table, switches, asked>>

\* activateKillSwitch: SELECT ... FOR UPDATE finds no active row and locks nothing.
Activate(c, s) ==
    /\ s \notin Dual
    /\ active[s] = {}
    /\ Len(keys[s]) < MaxSwitches
    /\ Start(c, s, None, 0, "insert_switch")
    /\ UNCHANGED <<table, switches, asked>>

\* Mutant: without kill_switch_active_idx.
InsertSwitchUnindexed(c) ==
    /\ at[c] = "insert_switch"
    /\ Switch(arg[c], {})
    /\ Finish(c)
    /\ UNCHANGED <<table, asked>>

\* Its INSERTs: kill_switch_active_idx refuses a second active row.
InsertSwitch(c) ==
    /\ at[c] = "insert_switch"
    /\ IF active[arg[c]] = {}
       THEN Switch(arg[c], {})
       ELSE UNCHANGED switches
    /\ Finish(c)
    /\ UNCHANGED <<table, asked>>

\* Mutant: without FOR UPDATE.
DeactivateUnlocked(c, s, n) ==
    /\ n \in active[s]
    /\ Start(c, s, None, n, "release")
    /\ UNCHANGED <<table, switches, asked>>

\* deactivateKillSwitch: the locking SELECT finds an active row ...
Deactivate(c, s, n) ==
    /\ n \in active[s]
    /\ \A d \in Calls : ~ HoldsSwitch(d, s, n)
    /\ Start(c, s, None, n, "release")
    /\ UNCHANGED <<table, switches, asked>>

\* Mutant: the event is left to the caller, which never sends it.
ReleaseSilently(c) ==
    /\ at[c] = "release"
    /\ active' = [active EXCEPT ![arg[c]] = @ \ {num[c]}]
    /\ Finish(c)
    /\ UNCHANGED <<table, keys, outbox, asked>>

\* ... and the UPDATE.
Release(c) ==
    /\ at[c] = "release"
    /\ active' = [active EXCEPT ![arg[c]] = @ \ {num[c]}]
    /\ Announce(arg[c], "off", num[c])
    /\ Finish(c)
    /\ UNCHANGED <<table, keys, asked>>

-----------------------------------------------------------------------------
\* _activateKillSwitch of a dual-key level calls initiateDualKey, and
\* approveDualKey when another user's request is pending.
RequestKey(c, s, u) ==
    /\ Start(c, s, u, 0, "begin")
    /\ UNCHANGED <<table, switches, asked>>

\* The first BEGIN, and the one after a retry's pause.
Begin(c) ==
    /\ at[c] = "begin"
    /\ BeginAt(c, "expire")
    /\ UNCHANGED <<table, switches, asked, attempt>>

\* The rows its first UPDATE still has to lock.
ToExpire(c) == {s \in old[c] : key[s] = "lapsed"} \ stale[c]

\* That UPDATE locks row after row and waits where another call holds one.
LockStale(c, s) ==
    /\ at[c] = "expire"
    /\ s \in ToExpire(c)
    /\ Free(c, s)
    /\ stale' = [stale EXCEPT ![c] = @ \cup {s}]
    /\ UNCHANGED <<table, switches, asked, at, arg, who, num, old, attempt>>

\* The keys as the open transaction of c sees them.
Expired(c) == [s \in Dual |-> IF s \in stale[c] THEN "expired" ELSE key[s]]

\* The SELECT ... FOR UPDATE finds a pending row of another user: the expiries
\* are committed and the engine goes on with the second key.
FindOther(c) ==
    /\ at[c] = "expire" /\ ToExpire(c) = {}
    /\ Expired(c)[arg[c]] \in Pending /\ Free(c, arg[c])
    /\ keyBy[arg[c]] # who[c]
    /\ key' = Expired(c)
    /\ at' = [at EXCEPT ![c] = "approve"]
    /\ old' = [old EXCEPT ![c] = {}] /\ stale' = [stale EXCEPT ![c] = {}]
    /\ attempt' = [attempt EXCEPT ![c] = 0]
    /\ UNCHANGED <<keyBy, switches, asked, arg, who, num>>

\* ... of the same user: the saved answer is returned and the expiries commit, or
\* its JSON.parse throws (a JSONB column arrives parsed) and they are rolled back.
FindOwn(c) ==
    /\ at[c] = "expire" /\ ToExpire(c) = {}
    /\ Expired(c)[arg[c]] \in Pending /\ Free(c, arg[c])
    /\ keyBy[arg[c]] = who[c]
    /\ key' \in {Expired(c), key}
    /\ Finish(c)
    /\ UNCHANGED <<keyBy, switches, asked>>

\* ... finds none and locks nothing.
FindNone(c) ==
    /\ at[c] = "expire" /\ ToExpire(c) = {}
    /\ Expired(c)[arg[c]] \notin Pending
    /\ Goto(c, "insert_key")
    /\ UNCHANGED <<table, switches, asked>>

Ask(c) ==
    /\ key' = [Expired(c) EXCEPT ![arg[c]] = "pending"]
    /\ keyBy' = [keyBy EXCEPT ![arg[c]] = who[c]]
    /\ asked' = [asked EXCEPT ![arg[c]] = @ + 1]

\* Mutant: INSERT ... ON CONFLICT (id) DO UPDATE of a row that is not pending.
InsertKeyUpserts(c) ==
    /\ at[c] = "insert_key"
    /\ IF Expired(c)[arg[c]] \notin Pending THEN Ask(c) ELSE UNCHANGED <<table, asked>>
    /\ Finish(c)
    /\ UNCHANGED switches

\* The INSERT under the id type:target: any earlier row of the target, closed or
\* not, is a primary key conflict, and its ROLLBACK undoes the expiries too.
InsertKey(c) ==
    /\ at[c] = "insert_key"
    /\ IF key[arg[c]] = "none" THEN Ask(c) ELSE UNCHANGED <<table, asked>>
    /\ Finish(c)
    /\ UNCHANGED switches

-----------------------------------------------------------------------------
BeginApprove(c) ==
    /\ at[c] = "approve"
    /\ BeginAt(c, "lock_key")
    /\ UNCHANGED <<table, switches, asked, attempt>>

Open(c) == key[arg[c]] \in Pending

\* Mutant: the SELECT of approveDualKey without FOR UPDATE.
LockKeyUnlocked(c) ==
    /\ at[c] = "lock_key"
    /\ Open(c) /\ arg[c] \notin old[c] /\ keyBy[arg[c]] # who[c]
    /\ Goto(c, "write")
    /\ UNCHANGED <<table, switches, asked>>

\* approveDualKey: the locking SELECT, the state machine guard, the 15 minutes
\* counted at its BEGIN, and the two different users.
LockKey(c) ==
    /\ at[c] = "lock_key" /\ Free(c, arg[c])
    /\ Open(c) /\ arg[c] \notin old[c] /\ keyBy[arg[c]] # who[c]
    /\ Goto(c, "write")
    /\ UNCHANGED <<table, switches, asked>>

ApproveTooLate(c) ==
    /\ at[c] = "lock_key" /\ Free(c, arg[c])
    /\ Open(c) /\ arg[c] \in old[c]
    /\ key' = [key EXCEPT ![arg[c]] = "expired"]
    /\ Finish(c)
    /\ UNCHANGED <<keyBy, switches, asked>>

ApproveRefused(c) ==
    /\ at[c] = "lock_key" /\ Free(c, arg[c])
    /\ Open(c) => arg[c] \notin old[c] /\ keyBy[arg[c]] = who[c]
    /\ Finish(c)
    /\ UNCHANGED <<table, switches, asked>>

\* The UPDATE of the key row, the locking SELECT of an active switch, the
\* INSERT of one if there is none.
ApproveWrite(c) ==
    LET s == arg[c]
    IN  /\ at[c] = "write"
        /\ \A d \in Calls, n \in active[s] : ~ HoldsSwitch(d, s, n)
        /\ key' = [key EXCEPT ![s] = "approved"]
        /\ IF active[s] = {}
           THEN Switch(s, {keyBy[s], who[c]})
           ELSE Announce(s, "on", Len(keys[s])) /\ UNCHANGED <<keys, active>>
        /\ Finish(c)
        /\ UNCHANGED <<keyBy, asked>>

-----------------------------------------------------------------------------
\* 15 minutes pass for a request.
Lapse(s) ==
    /\ key[s] = "pending"
    /\ key' = [key EXCEPT ![s] = "lapsed"]
    /\ UNCHANGED <<keyBy, switches, asked, calls>>

\* c waits for a lock of d. Rows are locked in no particular order, so a call
\* with several to go waits only when all of them are taken.
WaitsFor(c, d) ==
    /\ c # d /\ at[c] = "expire"
    /\ IF ToExpire(c) = {}
       THEN Expired(c)[arg[c]] \in Pending /\ Holds(d, arg[c])
       ELSE /\ \A s \in ToExpire(c) : ~ Free(c, s)
            /\ \E s \in ToExpire(c) : Holds(d, s)

Deadlocked(c) ==
    \E D \in SUBSET Calls :
        /\ c \in D
        /\ \A d \in D : (\E e \in D : WaitsFor(d, e)) /\ (\E e \in D : WaitsFor(e, d))

\* Mutant: attempt++ is forgotten.
RetryForever(c) ==
    /\ Deadlocked(c)
    /\ at' = [at EXCEPT ![c] = "begin"]
    /\ old' = [old EXCEPT ![c] = {}] /\ stale' = [stale EXCEPT ![c] = {}]
    /\ UNCHANGED <<table, switches, asked, arg, who, num, attempt>>

\* 40P01: PostgreSQL aborts one call of a cycle and withTransaction starts over.
Retry(c) ==
    /\ Deadlocked(c)
    /\ attempt[c] + 1 < MaxRetries
    /\ at' = [at EXCEPT ![c] = "begin"]
    /\ attempt' = [attempt EXCEPT ![c] = @ + 1]
    /\ old' = [old EXCEPT ![c] = {}] /\ stale' = [stale EXCEPT ![c] = {}]
    /\ UNCHANGED <<table, switches, asked, arg, who, num>>

GiveUp(c) ==
    /\ Deadlocked(c)
    /\ attempt[c] + 1 = MaxRetries
    /\ Finish(c)
    /\ UNCHANGED <<table, switches, asked>>

\* Any other error, a lost connection or the end of the process: ROLLBACK.
Fail(c) ==
    /\ at[c] # "idle"
    /\ Finish(c)
    /\ UNCHANGED <<table, switches, asked>>

Arrive(c) ==
    \/ \E s \in Scopes : Activate(c, s)
    \/ \E s \in Dual, u \in Users : RequestKey(c, s, u)
    \/ \E s \in Scopes : \E n \in active[s] : Deactivate(c, s, n)

Continue(c) ==
    \/ InsertSwitch(c)
    \/ Release(c)
    \/ Begin(c)
    \/ \E s \in Dual : LockStale(c, s)
    \/ FindOther(c)
    \/ FindOwn(c)
    \/ FindNone(c)
    \/ InsertKey(c)
    \/ BeginApprove(c)
    \/ LockKey(c)
    \/ ApproveTooLate(c)
    \/ ApproveRefused(c)
    \/ ApproveWrite(c)
    \/ Retry(c)
    \/ GiveUp(c)

Next ==
    \/ \E c \in Calls : Arrive(c) \/ Continue(c) \/ Fail(c)
    \/ \E s \in Dual : Lapse(s)

\* PostgreSQL queues the transactions that wait for a row, so a call that gets
\* its turn again and again takes it; nothing makes users call.
Spec == Init /\ [][Next]_vars /\ \A c \in Calls : SF_vars(Continue(c))

-----------------------------------------------------------------------------
\* At most one active switch row for a scope: deactivating it resumes the scope
\* (the promise of kill_switch_active_idx, migrate-crisis.js:11).
OneActivePerScope == \A s \in Scopes : \A m, n \in active[s] : m = n

\* No dual-key scope is halted but through its approved key row, by the user
\* who asked and another one.
TwoKeys ==
    \A s \in Dual : \A n \in DOMAIN keys[s] :
        /\ key[s] = "approved"
        /\ \E u \in Users \ {keyBy[s]} : keys[s][n] = {keyBy[s], u}

History(s) ==
    /\ Len(outbox[s]) = 2 * Len(keys[s]) - (IF active[s] = {} THEN 0 ELSE 1)
    /\ \A n \in 1..Len(keys[s]) :
          /\ outbox[s][2 * n - 1] = <<"on", n>>
          /\ n \notin active[s] => outbox[s][2 * n] = <<"off", n>>

\* The committed events are the history of the switch table, in order and
\* without a gap or a repetition: the n-th switch on, the n-th off, the next on.
OutboxIsTheHistory == \A s \in Scopes : History(s)

\* The fixed id of a request makes a dual-key scope one that can be asked for
\* and halted once in the life of the table.
OneRequestPerScope == \A s \in Dual : asked[s] <= 1 /\ Len(keys[s]) <= 1

\* A key row that was approved or has expired stays so.
ClosedKeysStayClosed ==
    [][\A s \in Dual : key[s] \in {"approved", "expired"} => key'[s] = key[s]]_vars

\* Whatever the lock waits and deadlocks between them, calls end.
CallsEnd == \A c \in Calls : at[c] # "idle" ~> at[c] = "idle"

\* Its committed steps are the steps of the abstract kill switches.
Halted == {s \in Scopes : active[s] # {}}
Abstract == INSTANCE KillSwitch WITH halted <- Halted, told <- outbox
IsKillSwitch == Abstract!Spec
=============================================================================
