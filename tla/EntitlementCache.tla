-------------------------- MODULE EntitlementCache --------------------------
(***************************************************************************)
(* server/services/entitlement.service.js for one organization: a cache    *)
(* entry in Redis, and in each process a lock, which is the promise of the *)
(* fetch underway that other calls join. A call is one getOrgEntitlements  *)
(* or refreshCache; an action is one await of it. What the entitlements    *)
(* are computed from, the columns plan and feature_flags of the row in     *)
(* organizations, is a version. Faults are failing calls to the database   *)
(* and to Redis, and restarts.                                             *)
(***************************************************************************)
EXTENDS Faults, Integers

CONSTANTS
    Procs,              \* server processes
    Calls,              \* calls
    ProcOf,             \* the process of each call
    NoCall,             \* no fetch underway
    MaxChanges          \* bound: changes of plan and feature_flags

ASSUME CallAssumption ==
    /\ ProcOf \in [Calls -> Procs] /\ NoCall \notin Calls
    /\ MaxChanges \in Nat

None == -1              \* no cache entry
Core == -2              \* the entitlements of a plan nobody read

VARIABLES
    ent,                \* version of plan and feature_flags in the database
    cache,              \* version the cache entry was computed from
    lock,               \* lock[p]: the call whose promise the process holds
    step,               \* step[c]: the await the call is at
    val,                \* val[c]: what the call has read
    covered,            \* history: version at the last refresh
    late,               \* history: calls that had read before that refresh
    tainted             \* history: the entry was set by one of them

vars == <<ent, cache, lock, step, val, covered, late, tainted, faults>>

Versions == (0..ent) \cup {None, Core}

TypeOK ==
    /\ ent \in 0..MaxChanges /\ cache \in Versions
    /\ lock \in [Procs -> Calls \cup {NoCall}]
    /\ step \in [Calls -> {"idle", "refresh", "delete", "get", "miss", "read", "set"}]
    /\ val \in [Calls -> Versions]
    /\ covered \in 0..ent /\ late \subseteq Calls
    /\ tainted \in BOOLEAN /\ faults \in 0..MaxFaults

Init ==
    /\ ent = 0 /\ cache = None
    /\ lock = [p \in Procs |-> NoCall]
    /\ step = [c \in Calls |-> "idle"]
    /\ val = [c \in Calls |-> None]
    /\ covered = 0 /\ late = {} /\ tainted = FALSE /\ faults = 0

Go(c, s) == step' = [step EXCEPT ![c] = s]

-----------------------------------------------------------------------------
\* getOrgEntitlements is called.
BeginGet(c) ==
    /\ step[c] = "idle" /\ Go(c, "get")
    /\ UNCHANGED <<ent, cache, lock, val, covered, late, tainted, faults>>

\* refreshCache: the lock goes, whoever's it is.
BeginRefresh(c) ==
    /\ step[c] = "refresh" /\ Go(c, "delete")
    /\ lock' = [lock EXCEPT ![ProcOf[c]] = NoCall]
    /\ UNCHANGED <<ent, cache, val, covered, late, tainted, faults>>

\* Mutant: the entry of another key is deleted, one that is not versioned.
DeleteOther(c) ==
    /\ step[c] = "delete" /\ Go(c, "get")
    /\ covered' = ent
    /\ late' = {d \in Calls : step[d] = "set"}
    /\ UNCHANGED <<ent, cache, lock, val, tainted, faults>>

\* cacheDelete, then getOrgEntitlements.
Delete(c) ==
    /\ step[c] = "delete" /\ Go(c, "get")
    /\ cache' = None
    /\ covered' = ent
    /\ late' = {d \in Calls : step[d] = "set"}
    /\ UNCHANGED <<ent, lock, val, tainted, faults>>

DeleteFails(c) ==
    /\ step[c] = "delete" /\ Go(c, "idle") /\ Fault
    /\ UNCHANGED <<ent, cache, lock, val, covered, late, tainted>>

\* cacheGet: a hit is the answer.
Lookup(c) ==
    /\ step[c] = "get"
    /\ Go(c, IF cache = None THEN "miss" ELSE "idle")
    /\ UNCHANGED <<ent, cache, lock, val, covered, late, tainted, faults>>

LookupFails(c) ==
    /\ step[c] = "get" /\ Go(c, "miss") /\ Fault
    /\ UNCHANGED <<ent, cache, lock, val, covered, late, tainted>>

\* A miss joins the promise of the process (all it does from then on is to
\* return what that fetch returns) or starts a fetch.
Miss(c) ==
    /\ step[c] = "miss"
    /\ \/ /\ lock[ProcOf[c]] # NoCall /\ Go(c, "idle")
          /\ UNCHANGED lock
       \/ /\ lock[ProcOf[c]] = NoCall /\ Go(c, "read")
          /\ lock' = [lock EXCEPT ![ProcOf[c]] = c]
    /\ UNCHANGED <<ent, cache, val, covered, late, tainted, faults>>

\* SELECT plan, feature_flags.
Read(c) ==
    /\ step[c] = "read" /\ Go(c, "set")
    /\ val' = [val EXCEPT ![c] = ent]
    /\ UNCHANGED <<ent, cache, lock, covered, late, tainted, faults>>

\* It fails: the entitlements of the default plan are cached.
ReadFails(c) ==
    /\ step[c] = "read" /\ Go(c, "set") /\ Fault
    /\ val' = [val EXCEPT ![c] = Core]
    /\ UNCHANGED <<ent, cache, lock, covered, late, tainted>>

\* The lock is deleted, whoever's it is by now.
Unlock(c) ==
    /\ lock' = [lock EXCEPT ![ProcOf[c]] = NoCall]
    /\ val' = [val EXCEPT ![c] = None]
    /\ late' = late \ {c}

\* cacheSet.
Set(c) ==
    /\ step[c] = "set" /\ Go(c, "idle")
    /\ cache' = val[c]
    /\ tainted' = (c \in late)
    /\ Unlock(c)
    /\ UNCHANGED <<ent, covered, faults>>

\* Mutant: the lock is deleted in the try block, after cacheSet.
SetFailsLocked(c) ==
    /\ step[c] = "set" /\ Go(c, "idle") /\ Fault
    /\ val' = [val EXCEPT ![c] = None]
    /\ late' = late \ {c}
    /\ UNCHANGED <<ent, cache, lock, covered, tainted>>

SetFails(c) ==
    /\ step[c] = "set" /\ Go(c, "idle") /\ Fault
    /\ Unlock(c)
    /\ UNCHANGED <<ent, cache, covered, tainted>>

\* CACHE_TTL.
Expire ==
    /\ cache # None /\ cache' = None
    /\ UNCHANGED <<ent, lock, step, val, covered, late, tainted, faults>>

Changed == ent < MaxChanges /\ ent' = ent + 1

\* A checkout event, or a route, changes the plan and leaves the cache alone.
ChangePlan ==
    /\ Changed
    /\ UNCHANGED <<cache, lock, step, val, covered, late, tainted, faults>>

\* PUT /:id/features changes feature_flags and goes on to refresh.
PutFeatures(c) ==
    /\ step[c] = "idle" /\ Go(c, "refresh")
    /\ Changed
    /\ UNCHANGED <<cache, lock, val, covered, late, tainted, faults>>

\* A Stripe event has written other columns (StripeWebhook!Apply) and its job
\* goes on to refresh.
Applied(c) ==
    /\ step[c] = "idle" /\ Go(c, "refresh")
    /\ UNCHANGED <<ent, cache, lock, val, covered, late, tainted, faults>>

\* A process stops and is started again.
Restart(p) ==
    LET calls == {c \in Calls : ProcOf[c] = p}
    IN  /\ Fault
        /\ lock' = [lock EXCEPT ![p] = NoCall]
        /\ step' = [c \in Calls |-> IF c \in calls THEN "idle" ELSE step[c]]
        /\ val' = [c \in Calls |-> IF c \in calls THEN None ELSE val[c]]
        /\ late' = late \ calls
        /\ UNCHANGED <<ent, cache, covered, tainted>>

Next ==
    \/ \E c \in Calls :
          \/ BeginGet(c) \/ PutFeatures(c) \/ Applied(c)
          \/ BeginRefresh(c) \/ Delete(c) \/ DeleteFails(c)
          \/ Lookup(c) \/ LookupFails(c) \/ Miss(c)
          \/ Read(c) \/ ReadFails(c) \/ Set(c) \/ SetFails(c)
    \/ \E p \in Procs : Restart(p)
    \/ ChangePlan \/ Expire

Spec == Init /\ [][Next]_vars

-----------------------------------------------------------------------------
\* "Forces a refresh and writes to cache": after a refresh no entry is older
\* than the row was at that moment, but for one that a fetch sets which had
\* read the row before, in this process or another.
RefreshHolds == cache \in 0..ent /\ cache < covered => tainted

\* A lock is the promise of a fetch still underway. A lock that outlived its
\* fetch would give every later call of the process the same old answer, and
\* no expiry of the cache entry would end that.
LocksAreLive ==
    \A p \in Procs : lock[p] # NoCall => step[lock[p]] \in {"read", "set"}
=============================================================================
