----------------------- MODULE CrisisRepositoryProofs -----------------------
(***************************************************************************)
(* Proofs about CrisisRepository. LockedKeys and LockedSwitches say what   *)
(* an open transaction may rely on: the rows it has locked are its own and *)
(* are still what it read. LastIsActive and KeyRows say how the switch     *)
(* rows of a scope follow from one another and from its key row.           *)
(***************************************************************************)
EXTENDS CrisisRepository, SequenceTheorems, TLAPS

\* The key rows locked by c.
LockedKeys ==
    /\ \A c \in Calls : \A s \in stale[c] : key[s] = "lapsed"
    /\ \A c \in Calls : at[c] \notin {"expire", "insert_key"} => stale[c] = {}
    /\ \A c \in Calls : at[c] = "write" =>
          key[arg[c]] \in Pending /\ keyBy[arg[c]] # who[c]
    /\ \A c, d \in Calls, s \in Dual : Holds(c, s) /\ Holds(d, s) => c = d

\* The switch rows locked by c.
LockedSwitches ==
    /\ \A c \in Calls : at[c] = "release" => num[c] \in active[arg[c]]
    /\ \A c, d \in Calls :
          at[c] = "release" /\ at[d] = "release" /\ arg[c] = arg[d] /\ num[c] = num[d] => c = d

LastIsActive == \A s \in Scopes :
    active[s] = {} \/ (Len(keys[s]) > 0 /\ active[s] = {Len(keys[s])})

\* The switch rows of a dual-key scope follow from its key row.
KeyRow(s) ==
    /\ key[s] # "none" => keyBy[s] \in Users
    /\ key[s] # "approved" => keys[s] = <<>>
    /\ key[s] = "approved" => \E u \in Users \ {keyBy[s]} : keys[s] = << {keyBy[s], u} >>
    /\ asked[s] = IF key[s] = "none" THEN 0 ELSE 1

KeyRows ==
    /\ \A c \in Calls : at[c] = "insert_switch" => arg[c] \notin Dual
    /\ \A s \in Dual : KeyRow(s)

IInv == LockedKeys /\ LockedSwitches /\ LastIsActive /\ KeyRows

-----------------------------------------------------------------------------
\* The variables keep their types.
LEMMA InitTyped == Init => TypeOK
  BY MaxRetriesIsPositive
     DEF Init, TypeOK, TablesTyped, CallsTyped, Statuses, Pending, Steps, Initiating, Approving

LEMMA AnnounceTyped ==
    ASSUME TypeOK, NEW s \in Scopes, NEW change \in {"on", "off"}, NEW n \in Nat,
           Announce(s, change, n)
    PROVE  outbox' \in [Scopes -> Seq(Changes)]
  BY DEF TypeOK, TablesTyped, Announce, Changes

LEMMA SwitchTyped ==
    ASSUME TypeOK, NEW s \in Scopes, NEW K \in SUBSET (Users \cup {None}), Switch(s, K)
    PROVE  /\ keys' \in [Scopes -> Seq(SUBSET (Users \cup {None}))]
           /\ active' \in [Scopes -> SUBSET Nat]
           /\ outbox' \in [Scopes -> Seq(Changes)]
<1>1. Len(keys[s]) \in Nat
  BY DEF TypeOK, TablesTyped
<1>2. keys' \in [Scopes -> Seq(SUBSET (Users \cup {None}))]
  BY DEF TypeOK, TablesTyped, Switch
<1>3. active' \in [Scopes -> SUBSET Nat]
  BY <1>1 DEF TypeOK, TablesTyped, Switch
<1> QED
  BY <1>1, <1>2, <1>3, AnnounceTyped DEF Switch

LEMMA FinishTyped ==
    ASSUME CallsTyped, NEW c \in Calls, Finish(c)
    PROVE  CallsTyped'
  BY MaxRetriesIsPositive DEF CallsTyped, Finish, Steps, Initiating, Approving

LEMMA StepTyped == TypeOK /\ [Next]_vars => TypeOK'
<1> SUFFICES ASSUME TypeOK, [Next]_vars PROVE TypeOK'
  OBVIOUS
<1> USE DualIsScopes, MaxRetriesIsPositive
    DEF TypeOK, TablesTyped, CallsTyped, Statuses, Pending, Steps, Initiating, Approving, Changes,
        table, switches, calls, vars, Start, Goto, BeginAt, Finish
<1>1. ASSUME NEW c \in Calls, NEW s \in Scopes, Activate(c, s) PROVE TypeOK'
  BY <1>1 DEF Activate
<1>2. ASSUME NEW c \in Calls, NEW s \in Dual, NEW u \in Users, RequestKey(c, s, u)
      PROVE  TypeOK'
  BY <1>2 DEF RequestKey
<1>3. ASSUME NEW c \in Calls, NEW s \in Scopes, NEW n \in active[s], Deactivate(c, s, n)
      PROVE  TypeOK'
  BY <1>3 DEF Deactivate
<1>4. ASSUME NEW c \in Calls, InsertSwitch(c) PROVE TypeOK'
  <2>1. arg[c] \in Scopes
    BY <1>4 DEF InsertSwitch
  <2>2. /\ keys' \in [Scopes -> Seq(SUBSET (Users \cup {None}))]
        /\ active' \in [Scopes -> SUBSET Nat]
        /\ outbox' \in [Scopes -> Seq(Changes)]
    <3>1. CASE active[arg[c]] = {}
      <4>1. Switch(arg[c], {})
        BY <1>4, <3>1 DEF InsertSwitch
      <4> QED
        BY ONLY TypeOK, <2>1, <4>1, SwitchTyped
    <3>2. CASE active[arg[c]] # {}
      BY <1>4, <3>2 DEF InsertSwitch
    <3> QED
      BY <3>1, <3>2
  <2>3. TablesTyped'
    BY <1>4, <2>2 DEF InsertSwitch
  <2>4. CallsTyped'
    BY ONLY TypeOK, <1>4, FinishTyped DEF TypeOK, InsertSwitch
  <2> QED
    BY <2>3, <2>4
<1>5. ASSUME NEW c \in Calls, Release(c) PROVE TypeOK'
  <2>1. arg[c] \in Scopes /\ num[c] \in Nat
    BY <1>5 DEF Release
  <2>2. outbox' \in [Scopes -> Seq(Changes)]
    BY <1>5, <2>1, AnnounceTyped DEF Release
  <2>3. active' \in [Scopes -> SUBSET Nat]
    BY <1>5, <2>1 DEF Release
  <2> QED
    BY <1>5, <2>2, <2>3 DEF Release
<1>6. ASSUME NEW c \in Calls, Begin(c) PROVE TypeOK'
  BY <1>6 DEF Begin
<1>7. ASSUME NEW c \in Calls, NEW s \in Dual, LockStale(c, s) PROVE TypeOK'
  BY <1>7 DEF LockStale
<1>8. ASSUME NEW c \in Calls, FindOther(c) PROVE TypeOK'
  BY <1>8 DEF FindOther, Expired
<1>9. ASSUME NEW c \in Calls, FindOwn(c) PROVE TypeOK'
  <2>1. key' \in [Dual -> Statuses]
    BY <1>9 DEF FindOwn, Expired
  <2>2. CallsTyped'
    BY <1>9 DEF FindOwn, Finish
  <2> QED
    BY <1>9, <2>1, <2>2 DEF FindOwn
<1>10. ASSUME NEW c \in Calls, FindNone(c) PROVE TypeOK'
  BY <1>10 DEF FindNone
<1>11. ASSUME NEW c \in Calls, InsertKey(c) PROVE TypeOK'
  <2>1. Expired(c) \in [Dual -> Statuses] /\ arg[c] \in Dual /\ who[c] \in Users
    BY <1>11 DEF InsertKey, Expired
  <2>2. ASSUME key[arg[c]] = "none" PROVE TablesTyped'
    <3>1. Ask(c) /\ UNCHANGED switches
      BY <1>11, <2>2 DEF InsertKey
    <3>2. key' \in [Dual -> Statuses]
      BY <2>1, <3>1 DEF Ask
    <3>3. keyBy' \in [Dual -> Users \cup {None}] /\ asked' \in [Dual -> Nat]
      BY <2>1, <3>1 DEF Ask
    <3> QED
      BY <3>1, <3>2, <3>3
  <2>3. ASSUME key[arg[c]] # "none" PROVE TablesTyped'
    BY <1>11, <2>3 DEF InsertKey
  <2>4. CallsTyped'
    BY ONLY TypeOK, <1>11, FinishTyped DEF TypeOK, InsertKey
  <2> QED
    BY <2>2, <2>3, <2>4
<1>12. ASSUME NEW c \in Calls, BeginApprove(c) PROVE TypeOK'
  BY <1>12 DEF BeginApprove
<1>13. ASSUME NEW c \in Calls, LockKey(c) PROVE TypeOK'
  BY <1>13 DEF LockKey
<1>14. ASSUME NEW c \in Calls, ApproveTooLate(c) PROVE TypeOK'
  BY <1>14 DEF ApproveTooLate
<1>15. ASSUME NEW c \in Calls, ApproveRefused(c) PROVE TypeOK'
  BY <1>15 DEF ApproveRefused
<1>16. ASSUME NEW c \in Calls, ApproveWrite(c) PROVE TypeOK'
  <2>1. arg[c] \in Dual /\ arg[c] \in Scopes /\ Len(keys[arg[c]]) \in Nat
    BY <1>16 DEF ApproveWrite
  <2>2. {keyBy[arg[c]], who[c]} \in SUBSET (Users \cup {None})
    BY <2>1
  <2>3. /\ keys' \in [Scopes -> Seq(SUBSET (Users \cup {None}))]
        /\ active' \in [Scopes -> SUBSET Nat]
        /\ outbox' \in [Scopes -> Seq(Changes)]
    <3>1. CASE active[arg[c]] = {}
      <4>1. Switch(arg[c], {keyBy[arg[c]], who[c]})
        BY <1>16, <3>1 DEF ApproveWrite
      <4> QED
        BY ONLY TypeOK, <2>1, <2>2, <4>1, SwitchTyped
    <3>2. CASE active[arg[c]] # {}
      <4>1. Announce(arg[c], "on", Len(keys[arg[c]])) /\ UNCHANGED <<keys, active>>
        BY <1>16, <3>2 DEF ApproveWrite
      <4>2. outbox' \in [Scopes -> Seq(Changes)]
        BY ONLY TypeOK, <2>1, <4>1, AnnounceTyped
      <4> QED
        BY <4>1, <4>2
    <3> QED
      BY <3>1, <3>2
  <2>4. key' \in [Dual -> Statuses]
    BY <1>16, <2>1 DEF ApproveWrite
  <2>5. TablesTyped'
    BY <1>16, <2>3, <2>4 DEF ApproveWrite
  <2>6. CallsTyped'
    BY ONLY TypeOK, <1>16, FinishTyped DEF TypeOK, ApproveWrite
  <2> QED
    BY <2>5, <2>6
<1>17. ASSUME NEW c \in Calls, Retry(c) PROVE TypeOK'
  <2>1. attempt[c] + 1 \in 0..MaxRetries - 1
    BY <1>17 DEF Retry
  <2>2. at[c] = "expire"
    BY <1>17 DEF Retry, Deadlocked, WaitsFor
  <2> QED
    BY <1>17, <2>1, <2>2 DEF Retry
<1>18. ASSUME NEW c \in Calls, GiveUp(c) PROVE TypeOK'
  BY <1>18 DEF GiveUp
<1>19. ASSUME NEW c \in Calls, Fail(c) PROVE TypeOK'
  BY <1>19 DEF Fail
<1>20. ASSUME NEW s \in Dual, Lapse(s) PROVE TypeOK'
  BY <1>20 DEF Lapse
<1>21. CASE UNCHANGED vars
  BY <1>21 DEF vars, table, switches, calls
<1> QED
  BY <1>1, <1>2, <1>3, <1>4, <1>5, <1>6, <1>7, <1>8, <1>9, <1>10, <1>11, <1>12, <1>13,
     <1>14, <1>15, <1>16, <1>17, <1>18, <1>19, <1>20, <1>21
     DEF Next, Arrive, Continue

THEOREM TypeCorrect == Spec => []TypeOK
  BY InitTyped, StepTyped, PTL DEF Spec

-----------------------------------------------------------------------------
\* A transaction that ends lets its locks go; what it writes is locked by no other.
LEMMA FinishKeepsLocks ==
    ASSUME TypeOK, LockedKeys, NEW c \in Calls, Finish(c),
           \A d \in Calls \ {c}, s \in Dual : Holds(d, s) => key'[s] = key[s] /\ keyBy'[s] = keyBy[s]
    PROVE  LockedKeys'
<1>1. /\ at'[c] = "idle" /\ stale'[c] = {}
      /\ \A d \in Calls \ {c} : UNCHANGED <<at[d], arg[d], who[d], stale[d]>>
  BY DEF TypeOK, CallsTyped, Finish
<1>2. \A d \in Calls, s \in Dual : Holds(d, s)' => d # c /\ Holds(d, s)
  BY <1>1 DEF Holds
<1>3. \A d \in Calls : \A s \in stale'[d] : key'[s] = "lapsed"
  BY <1>1 DEF LockedKeys, Holds, TypeOK, CallsTyped
<1>4. \A d \in Calls : at'[d] = "write" => key'[arg'[d]] \in Pending /\ keyBy'[arg'[d]] # who'[d]
  BY <1>1 DEF LockedKeys, Holds, TypeOK, CallsTyped, Approving
<1> QED
  BY <1>1, <1>2, <1>3, <1>4 DEF LockedKeys

\* A call that moves on takes no lock, and the key rows stay.
LEMMA MoveKeepsLocks ==
    ASSUME TypeOK, LockedKeys, NEW c \in Calls, UNCHANGED table,
           \A d \in Calls \ {c} : UNCHANGED <<at[d], arg[d], who[d], stale[d]>>,
           at'[c] # "write", stale'[c] \subseteq stale[c],
           at'[c] \notin {"expire", "insert_key"} => stale'[c] = {}
    PROVE  LockedKeys'
<1>1. \A d \in Calls, s \in Dual : Holds(d, s)' => Holds(d, s)
  BY DEF Holds
<1>2. \A d \in Calls : at'[d] = "write" => key'[arg'[d]] \in Pending /\ keyBy'[arg'[d]] # who'[d]
  BY DEF LockedKeys, table
<1> QED
  BY <1>1, <1>2 DEF LockedKeys, table

\* A locked row is its holder's alone, and still what its holder read.
LEMMA StepLockedKeys == TypeOK /\ LockedKeys /\ [Next]_vars => LockedKeys'
<1> SUFFICES ASSUME TypeOK, LockedKeys, [Next]_vars PROVE LockedKeys'
  OBVIOUS
<1>1. ASSUME NEW c \in Calls, NEW s \in Scopes, Activate(c, s) PROVE LockedKeys'
  BY <1>1, MoveKeepsLocks DEF Activate, Start, LockedKeys, TypeOK, CallsTyped
<1>2. ASSUME NEW c \in Calls, NEW s \in Dual, NEW u \in Users, RequestKey(c, s, u)
      PROVE  LockedKeys'
  BY <1>2, MoveKeepsLocks DEF RequestKey, Start, LockedKeys, TypeOK, CallsTyped
<1>3. ASSUME NEW c \in Calls, NEW s \in Scopes, NEW n \in active[s], Deactivate(c, s, n)
      PROVE  LockedKeys'
  BY <1>3, MoveKeepsLocks DEF Deactivate, Start, LockedKeys, TypeOK, CallsTyped
<1>4. ASSUME NEW c \in Calls, InsertSwitch(c) PROVE LockedKeys'
  BY <1>4, FinishKeepsLocks DEF InsertSwitch, table
<1>5. ASSUME NEW c \in Calls, Release(c) PROVE LockedKeys'
  BY <1>5, FinishKeepsLocks DEF Release, table
<1>6. ASSUME NEW c \in Calls, Begin(c) PROVE LockedKeys'
  BY <1>6, MoveKeepsLocks DEF Begin, BeginAt, TypeOK, CallsTyped
<1>7. ASSUME NEW c \in Calls, NEW s \in Dual, LockStale(c, s) PROVE LockedKeys'
  <2>1. \A d \in Calls : UNCHANGED <<at[d], arg[d], who[d]>> /\ (d # c => stale'[d] = stale[d])
    BY <1>7 DEF LockStale, TypeOK, CallsTyped
  <2>2. stale'[c] = stale[c] \cup {s} /\ at[c] = "expire" /\ key[s] = "lapsed" /\ UNCHANGED table
    BY <1>7 DEF LockStale, ToExpire, TypeOK, CallsTyped
  <2>3. \A d \in Calls, r \in Dual : Holds(d, r)' => Holds(d, r) \/ (d = c /\ r = s)
    BY <2>1, <2>2 DEF Holds
  <2>4. \A d \in Calls \ {c} : ~ Holds(d, s)
    BY <1>7 DEF LockStale, Free
  <2>5. \A d, e \in Calls, r \in Dual : Holds(d, r)' /\ Holds(e, r)' => d = e
    BY <2>3, <2>4 DEF LockedKeys
  <2> QED
    BY <2>1, <2>2, <2>5 DEF LockedKeys, table
<1>8. ASSUME NEW c \in Calls, FindOther(c) \/ FindOwn(c) PROVE LockedKeys'
  <2>1. \A d \in Calls \ {c} : UNCHANGED <<at[d], arg[d], who[d], stale[d]>>
    BY <1>8 DEF FindOther, FindOwn, Finish, TypeOK, CallsTyped
  <2>2. at'[c] \in {"approve", "idle"} /\ stale'[c] = {} /\ keyBy' = keyBy
    BY <1>8 DEF FindOther, FindOwn, Finish, TypeOK, CallsTyped
  <2>3. \A d \in Calls, s \in Dual : Holds(d, s)' => d # c /\ Holds(d, s)
    BY <2>1, <2>2 DEF Holds
  <2>4. \A s \in Dual : s \notin stale[c] => key'[s] = key[s]
    BY <1>8 DEF FindOther, FindOwn, Expired
  <2>5. \A d \in Calls, s \in Dual : Holds(d, s)' => key'[s] = key[s]
    BY <2>3, <2>4 DEF LockedKeys, Holds
  <2>6. \A d \in Calls : \A s \in stale'[d] : key'[s] = "lapsed"
    BY <2>1, <2>2, <2>5 DEF LockedKeys, Holds, TypeOK, CallsTyped
  <2>7. \A d \in Calls :
           at'[d] = "write" => arg'[d] \in Dual /\ Holds(d, arg[d])' /\ arg'[d] = arg[d]
    BY <2>1, <2>2 DEF Holds, TypeOK, CallsTyped, Approving
  <2>8. \A d \in Calls :
           at'[d] = "write" => key'[arg'[d]] \in Pending /\ keyBy'[arg'[d]] # who'[d]
    BY <2>1, <2>2, <2>5, <2>7 DEF LockedKeys
  <2> QED
    BY <2>1, <2>2, <2>3, <2>6, <2>8 DEF LockedKeys
<1>10. ASSUME NEW c \in Calls, FindNone(c) PROVE LockedKeys'
  BY <1>10, MoveKeepsLocks DEF FindNone, Goto, TypeOK, CallsTyped
<1>11. ASSUME NEW c \in Calls, InsertKey(c) PROVE LockedKeys'
  <2>1. \A d \in Calls \ {c}, s \in Dual :
            Holds(d, s) => s \notin stale[c] /\ key[s] \in Pending
    BY <1>11 DEF Holds, LockedKeys, Pending
  <2>2. \A d \in Calls \ {c}, s \in Dual : Holds(d, s) => key'[s] = key[s] /\ keyBy'[s] = keyBy[s]
    <3>1. CASE key[arg[c]] = "none"
      <4>1. /\ key' = [Expired(c) EXCEPT ![arg[c]] = "pending"]
            /\ keyBy' = [keyBy EXCEPT ![arg[c]] = who[c]]
        BY <1>11, <3>1 DEF InsertKey, Ask
      <4>2. \A s \in Dual : key[s] \in Pending => s # arg[c]
        BY <3>1 DEF Pending
      <4> QED
        BY <2>1, <4>1, <4>2 DEF Expired, TypeOK, TablesTyped
    <3>2. CASE key[arg[c]] # "none"
      BY <1>11, <3>2 DEF InsertKey, table
    <3> QED
      BY <3>1, <3>2
  <2> QED
    BY <1>11, <2>2, FinishKeepsLocks DEF InsertKey
<1>12. ASSUME NEW c \in Calls, BeginApprove(c) PROVE LockedKeys'
  BY <1>12, MoveKeepsLocks DEF BeginApprove, BeginAt, TypeOK, CallsTyped
<1>13. ASSUME NEW c \in Calls, LockKey(c) PROVE LockedKeys'
  <2>1. \A d \in Calls : UNCHANGED <<arg[d], who[d], stale[d]>> /\ (d # c => at'[d] = at[d])
    BY <1>13 DEF LockKey, Goto, TypeOK, CallsTyped
  <2>2. at'[c] = "write" /\ at[c] = "lock_key" /\ UNCHANGED table
    BY <1>13 DEF LockKey, Goto, TypeOK, CallsTyped
  <2>3. \A d \in Calls, s \in Dual : Holds(d, s)' => Holds(d, s) \/ (d = c /\ s = arg[c])
    BY <2>1, <2>2 DEF Holds
  <2>4. \A d \in Calls \ {c} : ~ Holds(d, arg[c])
    BY <1>13 DEF LockKey, Free
  <2>5. \A d, e \in Calls, s \in Dual : Holds(d, s)' /\ Holds(e, s)' => d = e
    BY <2>3, <2>4 DEF LockedKeys
  <2>6. key[arg[c]] \in Pending /\ keyBy[arg[c]] # who[c]
    BY <1>13 DEF LockKey, Open
  <2> QED
    BY <2>1, <2>2, <2>5, <2>6 DEF LockedKeys, table
<1>14. ASSUME NEW c \in Calls, ApproveTooLate(c) PROVE LockedKeys'
  BY <1>14, FinishKeepsLocks DEF ApproveTooLate, Free, TypeOK, TablesTyped
<1>15. ASSUME NEW c \in Calls, ApproveRefused(c) PROVE LockedKeys'
  BY <1>15, FinishKeepsLocks DEF ApproveRefused, table
<1>16. ASSUME NEW c \in Calls, ApproveWrite(c) PROVE LockedKeys'
  <2>1. \A d \in Calls \ {c}, s \in Dual : Holds(d, s) => s # arg[c]
    BY <1>16 DEF ApproveWrite, Holds, LockedKeys, TypeOK, CallsTyped, Approving
  <2> QED
    BY <1>16, <2>1, FinishKeepsLocks DEF ApproveWrite, TypeOK, TablesTyped
<1>17. ASSUME NEW c \in Calls, Retry(c) PROVE LockedKeys'
  BY <1>17, MoveKeepsLocks DEF Retry, TypeOK, CallsTyped
<1>18. ASSUME NEW c \in Calls, GiveUp(c) PROVE LockedKeys'
  BY <1>18, FinishKeepsLocks DEF GiveUp, table
<1>19. ASSUME NEW c \in Calls, Fail(c) PROVE LockedKeys'
  BY <1>19, FinishKeepsLocks DEF Fail, table
<1>20. ASSUME NEW s \in Dual, Lapse(s) PROVE LockedKeys'
  <2>1. UNCHANGED calls /\ keyBy' = keyBy /\ key[s] = "pending" /\ key'[s] = "lapsed"
    BY <1>20 DEF Lapse, TypeOK, TablesTyped
  <2>2. \A r \in Dual : r # s => key'[r] = key[r]
    BY <1>20 DEF Lapse, TypeOK, TablesTyped
  <2>3. \A c \in Calls : at[c] = "write" => key'[arg[c]] \in Pending
    BY <2>1, <2>2 DEF LockedKeys, Pending, TypeOK, CallsTyped, Approving
  <2>4. \A c \in Calls : \A r \in stale[c] : key'[r] = "lapsed"
    BY <2>1, <2>2 DEF LockedKeys, TypeOK, CallsTyped
  <2> QED
    BY <2>1, <2>3, <2>4 DEF LockedKeys, Holds, calls
<1>21. CASE UNCHANGED vars
  BY <1>21 DEF LockedKeys, Holds, vars, table, switches, calls
<1> QED
  BY <1>1, <1>2, <1>3, <1>4, <1>5, <1>6, <1>7, <1>8, <1>10, <1>11, <1>12, <1>13,
     <1>14, <1>15, <1>16, <1>17, <1>18, <1>19, <1>20, <1>21
     DEF Next, Arrive, Continue

-----------------------------------------------------------------------------
\* A locked switch row is active and its holder's alone.
LEMMA KeptSwitchLocks ==
    ASSUME LockedSwitches,
           \A d \in Calls : at'[d] = "release" =>
               /\ at[d] = "release" /\ UNCHANGED <<arg[d], num[d]>>
               /\ num[d] \in active'[arg[d]]
    PROVE  LockedSwitches'
  BY DEF LockedSwitches

\* What Switch does to the rows of its scope and of the others.
LEMMA SwitchAdds ==
    ASSUME TypeOK, NEW s \in Scopes, NEW K, Switch(s, K)
    PROVE  /\ keys'[s] = Append(keys[s], K) /\ active'[s] = active[s] \cup {Len(keys[s]) + 1}
           /\ outbox'[s] = Append(outbox[s], <<"on", Len(keys[s]) + 1>>)
           /\ \A r \in Scopes \ {s} : UNCHANGED <<keys[r], active[r], outbox[r]>>
           /\ \A r \in Scopes : active[r] \subseteq active'[r]
  BY DEF TypeOK, TablesTyped, Switch, Announce

LEMMA StepLockedSwitches == TypeOK /\ LockedSwitches /\ [Next]_vars => LockedSwitches'
<1> SUFFICES ASSUME TypeOK, LockedSwitches, [Next]_vars PROVE LockedSwitches'
  OBVIOUS
<1>1. ASSUME NEW c \in Calls, NEW s \in Scopes, Activate(c, s) PROVE LockedSwitches'
  BY <1>1, KeptSwitchLocks DEF LockedSwitches, Activate, Start, switches, TypeOK, CallsTyped
<1>2. ASSUME NEW c \in Calls, NEW s \in Dual, NEW u \in Users, RequestKey(c, s, u)
      PROVE  LockedSwitches'
  BY <1>2, KeptSwitchLocks DEF LockedSwitches, RequestKey, Start, switches, TypeOK, CallsTyped
<1>3. ASSUME NEW c \in Calls, NEW s \in Scopes, NEW n \in active[s], Deactivate(c, s, n)
      PROVE  LockedSwitches'
  <2>1. \A d \in Calls \ {c} : UNCHANGED <<at[d], arg[d], num[d]>>
    BY <1>3 DEF Deactivate, Start, TypeOK, CallsTyped
  <2>2. arg'[c] = s /\ num'[c] = n /\ UNCHANGED active
    BY <1>3 DEF Deactivate, Start, switches, TypeOK, CallsTyped
  <2>3. \A d \in Calls : ~ (at[d] = "release" /\ arg[d] = s /\ num[d] = n)
    BY <1>3 DEF Deactivate, HoldsSwitch
  <2> QED
    BY <2>1, <2>2, <2>3 DEF LockedSwitches
<1>4. ASSUME NEW c \in Calls, InsertSwitch(c) PROVE LockedSwitches'
  <2>1. arg[c] \in Scopes
    BY <1>4 DEF InsertSwitch, TypeOK, CallsTyped
  <2>2. \A r \in Scopes : active[r] \subseteq active'[r]
    <3>1. CASE active[arg[c]] = {}
      <4>1. Switch(arg[c], {})
        BY <1>4, <3>1 DEF InsertSwitch
      <4> QED
        BY <2>1, <4>1, SwitchAdds
    <3>2. CASE active[arg[c]] # {}
      BY <1>4, <3>2 DEF InsertSwitch, switches
    <3> QED
      BY <3>1, <3>2
  <2> QED
    BY <1>4, <2>2, KeptSwitchLocks DEF InsertSwitch, Finish, LockedSwitches, TypeOK, CallsTyped
<1>5. ASSUME NEW c \in Calls, Release(c) PROVE LockedSwitches'
  <2>1. \A d \in Calls :
           at'[d] = "release" => d # c /\ at[d] = "release" /\ UNCHANGED <<arg[d], num[d]>>
    BY <1>5 DEF Release, Finish, TypeOK, CallsTyped
  <2>2. \A d \in Calls \ {c} : at[d] = "release" => ~ (arg[d] = arg[c] /\ num[d] = num[c])
    BY <1>5 DEF Release, LockedSwitches
  <2>3. \A d \in Calls \ {c} : at[d] = "release" => num[d] \in active'[arg[d]]
    BY <1>5, <2>2 DEF Release, LockedSwitches, TypeOK, TablesTyped, CallsTyped
  <2> QED
    BY <2>1, <2>3, KeptSwitchLocks
<1>6. ASSUME NEW c \in Calls, Begin(c) PROVE LockedSwitches'
  BY <1>6, KeptSwitchLocks DEF LockedSwitches, Begin, BeginAt, switches, TypeOK, CallsTyped
<1>7. ASSUME NEW c \in Calls, NEW s \in Dual, LockStale(c, s) PROVE LockedSwitches'
  BY <1>7, KeptSwitchLocks DEF LockedSwitches, LockStale, switches, TypeOK, CallsTyped
<1>8. ASSUME NEW c \in Calls, FindOther(c) PROVE LockedSwitches'
  BY <1>8, KeptSwitchLocks DEF LockedSwitches, FindOther, switches, TypeOK, CallsTyped
<1>9. ASSUME NEW c \in Calls, FindOwn(c) PROVE LockedSwitches'
  BY <1>9, KeptSwitchLocks DEF LockedSwitches, FindOwn, Finish, switches, TypeOK, CallsTyped
<1>10. ASSUME NEW c \in Calls, FindNone(c) PROVE LockedSwitches'
  BY <1>10, KeptSwitchLocks DEF LockedSwitches, FindNone, Goto, switches, TypeOK, CallsTyped
<1>11. ASSUME NEW c \in Calls, InsertKey(c) PROVE LockedSwitches'
  BY <1>11, KeptSwitchLocks DEF LockedSwitches, InsertKey, Finish, switches, TypeOK, CallsTyped
<1>12. ASSUME NEW c \in Calls, BeginApprove(c) PROVE LockedSwitches'
  BY <1>12, KeptSwitchLocks
     DEF LockedSwitches, BeginApprove, BeginAt, switches, TypeOK, CallsTyped
<1>13. ASSUME NEW c \in Calls, LockKey(c) PROVE LockedSwitches'
  BY <1>13, KeptSwitchLocks DEF LockedSwitches, LockKey, Goto, switches, TypeOK, CallsTyped
<1>14. ASSUME NEW c \in Calls, ApproveTooLate(c) PROVE LockedSwitches'
  BY <1>14, KeptSwitchLocks
     DEF LockedSwitches, ApproveTooLate, Finish, switches, TypeOK, CallsTyped
<1>15. ASSUME NEW c \in Calls, ApproveRefused(c) PROVE LockedSwitches'
  BY <1>15, KeptSwitchLocks
     DEF LockedSwitches, ApproveRefused, Finish, switches, TypeOK, CallsTyped
<1>16. ASSUME NEW c \in Calls, ApproveWrite(c) PROVE LockedSwitches'
  <2>1. arg[c] \in Scopes
    BY <1>16, DualIsScopes DEF ApproveWrite, TypeOK, CallsTyped, Approving
  <2>2. \A r \in Scopes : active[r] \subseteq active'[r]
    <3>1. CASE active[arg[c]] = {}
      <4>1. Switch(arg[c], {keyBy[arg[c]], who[c]})
        BY <1>16, <3>1 DEF ApproveWrite
      <4> QED
        BY <2>1, <4>1, SwitchAdds
    <3>2. CASE active[arg[c]] # {}
      BY <1>16, <3>2 DEF ApproveWrite
    <3> QED
      BY <3>1, <3>2
  <2> QED
    BY <1>16, <2>2, KeptSwitchLocks DEF ApproveWrite, Finish, LockedSwitches, TypeOK, CallsTyped
<1>17. ASSUME NEW c \in Calls, Retry(c) PROVE LockedSwitches'
  BY <1>17, KeptSwitchLocks DEF LockedSwitches, Retry, switches, TypeOK, CallsTyped
<1>18. ASSUME NEW c \in Calls, GiveUp(c) PROVE LockedSwitches'
  BY <1>18, KeptSwitchLocks DEF LockedSwitches, GiveUp, Finish, switches, TypeOK, CallsTyped
<1>19. ASSUME NEW c \in Calls, Fail(c) PROVE LockedSwitches'
  BY <1>19, KeptSwitchLocks DEF LockedSwitches, Fail, Finish, switches, TypeOK, CallsTyped
<1>20. ASSUME NEW s \in Dual, Lapse(s) PROVE LockedSwitches'
  BY <1>20, KeptSwitchLocks DEF LockedSwitches, Lapse, switches, calls
<1>21. CASE UNCHANGED vars
  BY <1>21 DEF LockedSwitches, vars, switches, calls
<1> QED
  BY <1>1, <1>2, <1>3, <1>4, <1>5, <1>6, <1>7, <1>8, <1>9, <1>10, <1>11, <1>12, <1>13,
     <1>14, <1>15, <1>16, <1>17, <1>18, <1>19, <1>20, <1>21
     DEF Next, Arrive, Continue

\* Only the newest row of a scope can be active.
LEMMA StepLastIsActive ==
    TypeOK /\ LockedSwitches /\ LastIsActive /\ [Next]_vars => LastIsActive'
<1> SUFFICES ASSUME TypeOK, LockedSwitches, LastIsActive, [Next]_vars PROVE LastIsActive'
  OBVIOUS
<1>a. ASSUME NEW s \in Scopes, NEW K, active[s] = {}, Switch(s, K) PROVE LastIsActive'
  <2>1. Len(keys[s]) \in Nat /\ Len(keys'[s]) = Len(keys[s]) + 1
    BY <1>a, SwitchAdds DEF TypeOK, TablesTyped
  <2>2. active'[s] = {Len(keys[s]) + 1}
    BY <1>a, SwitchAdds
  <2>3. \A r \in Scopes \ {s} : UNCHANGED <<keys[r], active[r]>>
    BY <1>a, SwitchAdds
  <2> QED
    BY <2>1, <2>2, <2>3 DEF LastIsActive
<1>1. ASSUME NEW c \in Calls, NEW s \in Scopes, Activate(c, s) PROVE LastIsActive'
  BY <1>1 DEF Activate, switches, LastIsActive
<1>2. ASSUME NEW c \in Calls, NEW s \in Dual, NEW u \in Users, RequestKey(c, s, u)
      PROVE  LastIsActive'
  BY <1>2 DEF RequestKey, switches, LastIsActive
<1>3. ASSUME NEW c \in Calls, NEW s \in Scopes, NEW n \in active[s], Deactivate(c, s, n)
      PROVE  LastIsActive'
  BY <1>3 DEF Deactivate, switches, LastIsActive
<1>4. ASSUME NEW c \in Calls, InsertSwitch(c) PROVE LastIsActive'
  <2>1. arg[c] \in Scopes
    BY <1>4 DEF InsertSwitch, TypeOK, CallsTyped
  <2>2. CASE active[arg[c]] = {}
    BY <1>4, <1>a, <2>1, <2>2 DEF InsertSwitch
  <2>3. CASE active[arg[c]] # {}
    BY <1>4, <2>3 DEF InsertSwitch, switches, LastIsActive
  <2> QED
    BY <2>2, <2>3
<1>5. ASSUME NEW c \in Calls, Release(c) PROVE LastIsActive'
  <2>1. arg[c] \in Scopes /\ num[c] \in active[arg[c]]
    BY <1>5 DEF Release, LockedSwitches, TypeOK, CallsTyped
  <2>2. active[arg[c]] = {num[c]}
    BY <2>1 DEF LastIsActive
  <2>3. active'[arg[c]] = {} /\ keys' = keys /\ \A r \in Scopes \ {arg[c]} : active'[r] = active[r]
    BY <1>5, <2>1, <2>2 DEF Release, TypeOK, TablesTyped
  <2> QED
    BY <2>3 DEF LastIsActive
<1>6. ASSUME NEW c \in Calls, Begin(c) PROVE LastIsActive'
  BY <1>6 DEF Begin, switches, LastIsActive
<1>7. ASSUME NEW c \in Calls, NEW s \in Dual, LockStale(c, s) PROVE LastIsActive'
  BY <1>7 DEF LockStale, switches, LastIsActive
<1>8. ASSUME NEW c \in Calls, FindOther(c) PROVE LastIsActive'
  BY <1>8 DEF FindOther, switches, LastIsActive
<1>9. ASSUME NEW c \in Calls, FindOwn(c) PROVE LastIsActive'
  BY <1>9 DEF FindOwn, switches, LastIsActive
<1>10. ASSUME NEW c \in Calls, FindNone(c) PROVE LastIsActive'
  BY <1>10 DEF FindNone, switches, LastIsActive
<1>11. ASSUME NEW c \in Calls, InsertKey(c) PROVE LastIsActive'
  BY <1>11 DEF InsertKey, switches, LastIsActive
<1>12. ASSUME NEW c \in Calls, BeginApprove(c) PROVE LastIsActive'
  BY <1>12 DEF BeginApprove, switches, LastIsActive
<1>13. ASSUME NEW c \in Calls, LockKey(c) PROVE LastIsActive'
  BY <1>13 DEF LockKey, switches, LastIsActive
<1>14. ASSUME NEW c \in Calls, ApproveTooLate(c) PROVE LastIsActive'
  BY <1>14 DEF ApproveTooLate, switches, LastIsActive
<1>15. ASSUME NEW c \in Calls, ApproveRefused(c) PROVE LastIsActive'
  BY <1>15 DEF ApproveRefused, switches, LastIsActive
<1>16. ASSUME NEW c \in Calls, ApproveWrite(c) PROVE LastIsActive'
  <2>1. arg[c] \in Scopes
    BY <1>16, DualIsScopes DEF ApproveWrite, TypeOK, CallsTyped, Approving
  <2>2. CASE active[arg[c]] = {}
    BY <1>16, <1>a, <2>1, <2>2 DEF ApproveWrite
  <2>3. CASE active[arg[c]] # {}
    BY <1>16, <2>3 DEF ApproveWrite, LastIsActive
  <2> QED
    BY <2>2, <2>3
<1>17. ASSUME NEW c \in Calls, Retry(c) PROVE LastIsActive'
  BY <1>17 DEF Retry, switches, LastIsActive
<1>18. ASSUME NEW c \in Calls, GiveUp(c) PROVE LastIsActive'
  BY <1>18 DEF GiveUp, switches, LastIsActive
<1>19. ASSUME NEW c \in Calls, Fail(c) PROVE LastIsActive'
  BY <1>19 DEF Fail, switches, LastIsActive
<1>20. ASSUME NEW s \in Dual, Lapse(s) PROVE LastIsActive'
  BY <1>20 DEF LastIsActive, Lapse, switches
<1>21. CASE UNCHANGED vars
  BY <1>21 DEF LastIsActive, vars, switches
<1> QED
  BY <1>1, <1>2, <1>3, <1>4, <1>5, <1>6, <1>7, <1>8, <1>9, <1>10, <1>11, <1>12, <1>13,
     <1>14, <1>15, <1>16, <1>17, <1>18, <1>19, <1>20, <1>21
     DEF Next, Arrive, Continue

-----------------------------------------------------------------------------
\* Ageing and expiring a pending request leaves its row as KeyRow wants it.
LEMMA KeyRowKept ==
    ASSUME NEW s \in Dual, KeyRow(s), UNCHANGED <<keyBy[s], keys[s], asked[s]>>,
           key'[s] = key[s] \/ (key[s] \in Pending /\ key'[s] \in {"lapsed", "expired"})
    PROVE  KeyRow(s)'
  BY DEF KeyRow, Pending

LEMMA StepKeyRows ==
    TypeOK /\ LockedKeys /\ LastIsActive /\ KeyRows /\ [Next]_vars => KeyRows'
<1> SUFFICES ASSUME TypeOK, LockedKeys, LastIsActive, KeyRows, [Next]_vars PROVE KeyRows'
  OBVIOUS
<1>a. ASSUME UNCHANGED <<table, keys, asked>> PROVE \A s \in Dual : KeyRow(s)'
  BY <1>a, KeyRowKept DEF KeyRows, table
<1>b. ASSUME NEW c \in Calls, at'[c] # "insert_switch" \/ arg'[c] \notin Dual,
             \A d \in Calls \ {c} : UNCHANGED <<at[d], arg[d]>>
      PROVE  \A d \in Calls : at'[d] = "insert_switch" => arg'[d] \notin Dual
  BY <1>b DEF KeyRows
<1>1. ASSUME NEW c \in Calls, NEW s \in Scopes, Activate(c, s) PROVE KeyRows'
  <2>1. \A d \in Calls : at'[d] = "insert_switch" => arg'[d] \notin Dual
    BY <1>1, <1>b DEF Activate, Start, KeyRows, TypeOK, CallsTyped
  <2>2. UNCHANGED <<table, keys, asked>>
    BY <1>1 DEF Activate, switches
  <2> QED
    BY <1>a, <2>1, <2>2 DEF KeyRows
<1>2. ASSUME NEW c \in Calls, NEW s \in Dual, NEW u \in Users, RequestKey(c, s, u)
      PROVE  KeyRows'
  <2>1. \A d \in Calls : at'[d] = "insert_switch" => arg'[d] \notin Dual
    BY <1>2, <1>b DEF RequestKey, Start, KeyRows, TypeOK, CallsTyped
  <2>2. UNCHANGED <<table, keys, asked>>
    BY <1>2 DEF RequestKey, switches
  <2> QED
    BY <1>a, <2>1, <2>2 DEF KeyRows
<1>3. ASSUME NEW c \in Calls, NEW s \in Scopes, NEW n \in active[s], Deactivate(c, s, n)
      PROVE  KeyRows'
  <2>1. \A d \in Calls : at'[d] = "insert_switch" => arg'[d] \notin Dual
    BY <1>3, <1>b DEF Deactivate, Start, KeyRows, TypeOK, CallsTyped
  <2>2. UNCHANGED <<table, keys, asked>>
    BY <1>3 DEF Deactivate, switches
  <2> QED
    BY <1>a, <2>1, <2>2 DEF KeyRows
<1>4. ASSUME NEW c \in Calls, InsertSwitch(c) PROVE KeyRows'
  <2>1. \A d \in Calls : at'[d] = "insert_switch" => arg'[d] \notin Dual
    BY <1>4, <1>b DEF InsertSwitch, Finish, KeyRows, TypeOK, CallsTyped
  <2>2. arg[c] \in Scopes /\ arg[c] \notin Dual
    BY <1>4 DEF InsertSwitch, KeyRows, TypeOK, CallsTyped
  <2>3. \A s \in Scopes \ {arg[c]} : keys'[s] = keys[s]
    <3>1. CASE active[arg[c]] = {}
      <4>1. Switch(arg[c], {})
        BY <1>4, <3>1 DEF InsertSwitch
      <4> QED
        BY <2>2, <4>1, SwitchAdds
    <3>2. CASE active[arg[c]] # {}
      BY <1>4, <3>2 DEF InsertSwitch, switches
    <3> QED
      BY <3>1, <3>2
  <2>4. \A s \in Dual : KeyRow(s)'
    BY <1>4, <2>2, <2>3, KeyRowKept, DualIsScopes DEF InsertSwitch, table, KeyRows
  <2> QED
    BY <2>1, <2>4 DEF KeyRows
<1>5. ASSUME NEW c \in Calls, Release(c) PROVE KeyRows'
  <2>1. \A d \in Calls : at'[d] = "insert_switch" => arg'[d] \notin Dual
    BY <1>5, <1>b DEF Release, Finish, KeyRows, TypeOK, CallsTyped
  <2>2. UNCHANGED <<table, keys, asked>>
    BY <1>5 DEF Release, switches
  <2> QED
    BY <1>a, <2>1, <2>2 DEF KeyRows
<1>6. ASSUME NEW c \in Calls, Begin(c) PROVE KeyRows'
  <2>1. \A d \in Calls : at'[d] = "insert_switch" => arg'[d] \notin Dual
    BY <1>6, <1>b DEF Begin, BeginAt, KeyRows, TypeOK, CallsTyped
  <2>2. UNCHANGED <<table, keys, asked>>
    BY <1>6 DEF Begin, switches
  <2> QED
    BY <1>a, <2>1, <2>2 DEF KeyRows
<1>7. ASSUME NEW c \in Calls, NEW s \in Dual, LockStale(c, s) PROVE KeyRows'
  <2>1. \A d \in Calls : at'[d] = "insert_switch" => arg'[d] \notin Dual
    BY <1>7, <1>b DEF LockStale, KeyRows, TypeOK, CallsTyped
  <2>2. UNCHANGED <<table, keys, asked>>
    BY <1>7 DEF LockStale, switches
  <2> QED
    BY <1>a, <2>1, <2>2 DEF KeyRows
<1>8. ASSUME NEW c \in Calls, FindOther(c) \/ FindOwn(c) PROVE KeyRows'
  <2>1. \A d \in Calls : at'[d] = "insert_switch" => arg'[d] \notin Dual
    BY <1>8, <1>b DEF FindOther, FindOwn, Finish, KeyRows, TypeOK, CallsTyped
  <2>2. \A s \in Dual : key'[s] = key[s] \/ (key[s] \in Pending /\ key'[s] = "expired")
    BY <1>8 DEF FindOther, FindOwn, Expired, LockedKeys, Pending
  <2>3. UNCHANGED <<keyBy, keys, asked>>
    BY <1>8 DEF FindOther, FindOwn, switches
  <2>4. \A s \in Dual : KeyRow(s)'
    BY <2>2, <2>3, KeyRowKept DEF KeyRows
  <2> QED
    BY <2>1, <2>4 DEF KeyRows
<1>10. ASSUME NEW c \in Calls, FindNone(c) PROVE KeyRows'
  <2>1. \A d \in Calls : at'[d] = "insert_switch" => arg'[d] \notin Dual
    BY <1>10, <1>b DEF FindNone, Goto, KeyRows, TypeOK, CallsTyped
  <2>2. UNCHANGED <<table, keys, asked>>
    BY <1>10 DEF FindNone, switches
  <2> QED
    BY <1>a, <2>1, <2>2 DEF KeyRows
<1>11. ASSUME NEW c \in Calls, InsertKey(c) PROVE KeyRows'
  <2>1. \A d \in Calls : at'[d] = "insert_switch" => arg'[d] \notin Dual
    BY <1>11, <1>b DEF InsertKey, Finish, KeyRows, TypeOK, CallsTyped
  <2>2. ASSUME key[arg[c]] = "none" PROVE \A s \in Dual : KeyRow(s)'
    <3>1. /\ key' = [Expired(c) EXCEPT ![arg[c]] = "pending"]
          /\ keyBy' = [keyBy EXCEPT ![arg[c]] = who[c]]
          /\ asked' = [asked EXCEPT ![arg[c]] = asked[arg[c]] + 1]
          /\ UNCHANGED keys
      BY <1>11, <2>2 DEF InsertKey, Ask, switches
    <3>2. arg[c] \in Dual /\ who[c] \in Users
      BY <1>11 DEF InsertKey, TypeOK, CallsTyped, Initiating
    <3>3. ASSUME NEW s \in Dual, s = arg[c] PROVE KeyRow(s)'
      <4>1. key[s] = "none" /\ keys[s] = <<>> /\ asked[s] = 0
        BY <2>2, <3>3 DEF KeyRows, KeyRow
      <4>2. key'[s] = "pending" /\ keyBy'[s] \in Users /\ keys'[s] = keys[s] /\ asked'[s] = asked[s] + 1
        BY <3>1, <3>2, <3>3 DEF Expired, TypeOK, TablesTyped
      <4> QED
        BY <4>1, <4>2 DEF KeyRow
    <3>4. \A s \in Dual \ {arg[c]} : key'[s] = key[s] \/ (key[s] \in Pending /\ key'[s] = "expired")
      BY <3>1, <3>2 DEF Expired, LockedKeys, Pending
    <3>5. \A s \in Dual \ {arg[c]} : KeyRow(s)'
      BY <3>1, <3>4, KeyRowKept DEF KeyRows, TypeOK, TablesTyped
    <3> QED
      BY <3>3, <3>5
  <2>3. ASSUME key[arg[c]] # "none" PROVE \A s \in Dual : KeyRow(s)'
    BY <1>11, <1>a, <2>3 DEF InsertKey, switches
  <2> QED
    BY <2>1, <2>2, <2>3 DEF KeyRows
<1>12. ASSUME NEW c \in Calls, BeginApprove(c) PROVE KeyRows'
  <2>1. \A d \in Calls : at'[d] = "insert_switch" => arg'[d] \notin Dual
    BY <1>12, <1>b DEF BeginApprove, BeginAt, KeyRows, TypeOK, CallsTyped
  <2>2. UNCHANGED <<table, keys, asked>>
    BY <1>12 DEF BeginApprove, switches
  <2> QED
    BY <1>a, <2>1, <2>2 DEF KeyRows
<1>13. ASSUME NEW c \in Calls, LockKey(c) PROVE KeyRows'
  <2>1. \A d \in Calls : at'[d] = "insert_switch" => arg'[d] \notin Dual
    BY <1>13, <1>b DEF LockKey, Goto, KeyRows, TypeOK, CallsTyped
  <2>2. UNCHANGED <<table, keys, asked>>
    BY <1>13 DEF LockKey, switches
  <2> QED
    BY <1>a, <2>1, <2>2 DEF KeyRows
<1>14. ASSUME NEW c \in Calls, ApproveTooLate(c) PROVE KeyRows'
  <2>1. \A d \in Calls : at'[d] = "insert_switch" => arg'[d] \notin Dual
    BY <1>14, <1>b DEF ApproveTooLate, Finish, KeyRows, TypeOK, CallsTyped
  <2>2. \A s \in Dual : key'[s] = key[s] \/ (key[s] \in Pending /\ key'[s] = "expired")
    BY <1>14 DEF ApproveTooLate, Open, TypeOK, TablesTyped
  <2>3. UNCHANGED <<keyBy, keys, asked>>
    BY <1>14 DEF ApproveTooLate, switches
  <2>4. \A s \in Dual : KeyRow(s)'
    BY <2>2, <2>3, KeyRowKept DEF KeyRows
  <2> QED
    BY <2>1, <2>4 DEF KeyRows
<1>15. ASSUME NEW c \in Calls, ApproveRefused(c) PROVE KeyRows'
  <2>1. \A d \in Calls : at'[d] = "insert_switch" => arg'[d] \notin Dual
    BY <1>15, <1>b DEF ApproveRefused, Finish, KeyRows, TypeOK, CallsTyped
  <2>2. UNCHANGED <<table, keys, asked>>
    BY <1>15 DEF ApproveRefused, switches
  <2> QED
    BY <1>a, <2>1, <2>2 DEF KeyRows
<1>16. ASSUME NEW c \in Calls, ApproveWrite(c) PROVE KeyRows'
  <2>1. \A d \in Calls : at'[d] = "insert_switch" => arg'[d] \notin Dual
    BY <1>16, <1>b DEF ApproveWrite, Finish, KeyRows, TypeOK, CallsTyped
  <2>2. /\ arg[c] \in Dual /\ arg[c] \in Scopes /\ who[c] \in Users /\ keyBy[arg[c]] # who[c]
        /\ key[arg[c]] \in Pending
    BY <1>16, DualIsScopes DEF ApproveWrite, LockedKeys, TypeOK, CallsTyped, Approving
  <2>3. keys[arg[c]] = <<>> /\ keyBy[arg[c]] \in Users /\ asked[arg[c]] = 1
    BY <2>2 DEF KeyRows, KeyRow, Pending
  <2>4. active[arg[c]] = {}
    BY <2>2, <2>3 DEF LastIsActive
  <2>5. Switch(arg[c], {keyBy[arg[c]], who[c]}) /\ UNCHANGED <<keyBy, asked>>
    BY <1>16, <2>4 DEF ApproveWrite
  <2>6. key' = [key EXCEPT ![arg[c]] = "approved"]
    BY <1>16 DEF ApproveWrite
  <2>7. keys'[arg[c]] = << {keyBy[arg[c]], who[c]} >>
    BY <2>2, <2>3, <2>5, SwitchAdds
  <2>8. ASSUME NEW s \in Dual, s = arg[c] PROVE KeyRow(s)'
    <3>1. key'[s] = "approved" /\ keyBy'[s] = keyBy[s] /\ asked'[s] = 1
      BY <2>2, <2>3, <2>5, <2>6, <2>8 DEF TypeOK, TablesTyped
    <3>2. who[c] \in Users \ {keyBy[s]} /\ keys'[s] = << {keyBy[s], who[c]} >> /\ keyBy[s] \in Users
      BY <2>2, <2>3, <2>7, <2>8
    <3> QED
      BY <3>1, <3>2 DEF KeyRow
  <2>9. \A s \in Dual \ {arg[c]} : KeyRow(s)'
    BY <2>2, <2>5, <2>6, SwitchAdds, KeyRowKept, DualIsScopes DEF KeyRows, TypeOK, TablesTyped
  <2> QED
    BY <2>1, <2>8, <2>9 DEF KeyRows
<1>17. ASSUME NEW c \in Calls, Retry(c) PROVE KeyRows'
  <2>1. \A d \in Calls : at'[d] = "insert_switch" => arg'[d] \notin Dual
    BY <1>17, <1>b DEF Retry, KeyRows, TypeOK, CallsTyped
  <2>2. UNCHANGED <<table, keys, asked>>
    BY <1>17 DEF Retry, switches
  <2> QED
    BY <1>a, <2>1, <2>2 DEF KeyRows
<1>18. ASSUME NEW c \in Calls, GiveUp(c) PROVE KeyRows'
  <2>1. \A d \in Calls : at'[d] = "insert_switch" => arg'[d] \notin Dual
    BY <1>18, <1>b DEF GiveUp, Finish, KeyRows, TypeOK, CallsTyped
  <2>2. UNCHANGED <<table, keys, asked>>
    BY <1>18 DEF GiveUp, switches
  <2> QED
    BY <1>a, <2>1, <2>2 DEF KeyRows
<1>19. ASSUME NEW c \in Calls, Fail(c) PROVE KeyRows'
  <2>1. \A d \in Calls : at'[d] = "insert_switch" => arg'[d] \notin Dual
    BY <1>19, <1>b DEF Fail, Finish, KeyRows, TypeOK, CallsTyped
  <2>2. UNCHANGED <<table, keys, asked>>
    BY <1>19 DEF Fail, switches
  <2> QED
    BY <1>a, <2>1, <2>2 DEF KeyRows
<1>20. ASSUME NEW s \in Dual, Lapse(s) PROVE KeyRows'
  <2>1. \A r \in Dual : key'[r] = key[r] \/ (key[r] \in Pending /\ key'[r] = "lapsed")
    BY <1>20 DEF Lapse, Pending, TypeOK, TablesTyped
  <2>2. UNCHANGED <<keyBy, keys, asked, calls>>
    BY <1>20 DEF Lapse, switches
  <2>3. \A r \in Dual : KeyRow(r)'
    BY <2>1, <2>2, KeyRowKept DEF KeyRows
  <2> QED
    BY <2>2, <2>3 DEF KeyRows, calls
<1>21. CASE UNCHANGED vars
  BY <1>21, <1>a DEF KeyRows, vars, table, switches, calls
<1> QED
  BY <1>1, <1>2, <1>3, <1>4, <1>5, <1>6, <1>7, <1>8, <1>10, <1>11, <1>12, <1>13,
     <1>14, <1>15, <1>16, <1>17, <1>18, <1>19, <1>20, <1>21
     DEF Next, Arrive, Continue

LEMMA InitIInv == Init => IInv
<1> SUFFICES ASSUME Init PROVE IInv
  OBVIOUS
<1>1. LockedKeys
  BY DEF Init, LockedKeys, Holds
<1>2. LockedSwitches
  BY DEF Init, LockedSwitches
<1>3. LastIsActive
  BY DEF Init, LastIsActive
<1>4. ASSUME NEW s \in Dual PROVE KeyRow(s)
  BY DualIsScopes DEF Init, KeyRow
<1>5. KeyRows
  BY <1>4 DEF Init, KeyRows
<1> QED
  BY <1>1, <1>2, <1>3, <1>5 DEF IInv

THEOREM Inductive == Spec => [](TypeOK /\ IInv)
<1>1. TypeOK /\ IInv /\ [Next]_vars => IInv'
  BY StepLockedKeys, StepLockedSwitches, StepLastIsActive, StepKeyRows DEF IInv
<1> QED
  BY <1>1, InitTyped, StepTyped, InitIInv, PTL DEF Spec

-----------------------------------------------------------------------------
\* Whatever the races, a scope has one active switch row at most.
THEOREM OneActiveHolds == Spec => []OneActivePerScope
<1>1. TypeOK /\ IInv => OneActivePerScope
  BY DEF IInv, LastIsActive, OneActivePerScope
<1> QED
  BY <1>1, Inductive, PTL

\* A dual-key scope is halted by the keys of two users, the one who asked among them.
THEOREM TwoKeysHold == Spec => []TwoKeys
<1>1. TypeOK /\ IInv => TwoKeys
  <2> SUFFICES ASSUME TypeOK, IInv, NEW s \in Dual, NEW n \in DOMAIN keys[s]
               PROVE  /\ key[s] = "approved"
                      /\ \E u \in Users \ {keyBy[s]} : keys[s][n] = {keyBy[s], u}
    BY DEF TwoKeys
  <2>1. key[s] = "approved"
    BY DEF IInv, KeyRows, KeyRow
  <2>2. PICK u \in Users \ {keyBy[s]} : keys[s] = << {keyBy[s], u} >>
    BY <2>1 DEF IInv, KeyRows, KeyRow
  <2>3. n = 1
    BY <2>2
  <2> QED
    BY <2>1, <2>2, <2>3
<1> QED
  BY <1>1, Inductive, PTL

\* A dual-key scope is asked for once and halted once.
THEOREM OneRequestHolds == Spec => []OneRequestPerScope
<1>1. TypeOK /\ IInv => OneRequestPerScope
  <2> SUFFICES ASSUME TypeOK, IInv, NEW s \in Dual
               PROVE  asked[s] <= 1 /\ Len(keys[s]) <= 1
    BY DEF OneRequestPerScope
  <2>1. KeyRow(s)
    BY DEF IInv, KeyRows
  <2>2. asked[s] <= 1
    BY <2>1 DEF KeyRow
  <2>3. CASE keys[s] = <<>>
    BY <2>2, <2>3
  <2>4. CASE keys[s] # <<>>
    <3>1. PICK u \in Users : keys[s] = << {keyBy[s], u} >>
      BY <2>1, <2>4 DEF KeyRow
    <3> QED
      BY <2>2, <3>1
  <2> QED
    BY <2>3, <2>4
<1> QED
  BY <1>1, Inductive, PTL

-----------------------------------------------------------------------------
\* An approved or expired key row is never written again.
THEOREM ClosedKeysHold == Spec => ClosedKeysStayClosed
<1> DEFINE Kept == \A s \in Dual : key[s] \in {"approved", "expired"} => key'[s] = key[s]
<1>a. ASSUME TypeOK, IInv, [Next]_vars PROVE Kept
  <2>1. UNCHANGED key => Kept
    OBVIOUS
  <2>2. ASSUME NEW c \in Calls, FindOther(c) \/ FindOwn(c) PROVE Kept
    BY <1>a, <2>2 DEF FindOther, FindOwn, Expired, IInv, LockedKeys
  <2>3. ASSUME NEW c \in Calls, InsertKey(c) PROVE Kept
    <3>1. CASE key[arg[c]] = "none"
      BY <1>a, <2>3, <3>1 DEF InsertKey, Ask, Expired, IInv, LockedKeys
    <3>2. CASE key[arg[c]] # "none"
      BY <2>3, <3>2 DEF InsertKey, table
    <3> QED
      BY <3>1, <3>2
  <2>4. ASSUME NEW c \in Calls, ApproveTooLate(c) PROVE Kept
    BY <1>a, <2>4 DEF ApproveTooLate, Open, Pending, TypeOK, TablesTyped
  <2>5. ASSUME NEW c \in Calls, ApproveWrite(c) PROVE Kept
    BY <1>a, <2>5 DEF ApproveWrite, Pending, IInv, LockedKeys, TypeOK, TablesTyped
  <2>6. ASSUME NEW s \in Dual, Lapse(s) PROVE Kept
    BY <1>a, <2>6 DEF Lapse, TypeOK, TablesTyped
  <2>7. ASSUME NEW c \in Calls, Arrive(c) PROVE UNCHANGED key
    BY <2>7 DEF Arrive, Activate, RequestKey, Deactivate, table
  <2>8. ASSUME NEW c \in Calls, InsertSwitch(c) \/ Release(c) \/ FindNone(c)
        PROVE  UNCHANGED key
    BY <2>8 DEF InsertSwitch, Release, FindNone, table
  <2>9. ASSUME NEW c \in Calls, Begin(c) \/ BeginApprove(c) \/ LockKey(c) \/ ApproveRefused(c)
        PROVE  UNCHANGED key
    BY <2>9 DEF Begin, BeginApprove, LockKey, ApproveRefused, table
  <2>10. ASSUME NEW c \in Calls, Retry(c) \/ GiveUp(c) \/ Fail(c) PROVE UNCHANGED key
    BY <2>10 DEF Retry, GiveUp, Fail, table
  <2>11. ASSUME NEW c \in Calls, NEW s \in Dual, LockStale(c, s) PROVE UNCHANGED key
    BY <2>11 DEF LockStale, table
  <2>12. CASE UNCHANGED vars
    BY <2>12 DEF vars, table
  <2> HIDE DEF Kept
  <2> QED
    BY <1>a, <2>1, <2>2, <2>3, <2>4, <2>5, <2>6, <2>7, <2>8, <2>9, <2>10, <2>11, <2>12
       DEF Next, Continue
<1>1. TypeOK /\ IInv /\ [Next]_vars => [Kept]_vars
  BY <1>a
<1> QED
  BY <1>1, Inductive, PTL DEF Spec, ClosedKeysStayClosed

-----------------------------------------------------------------------------
\* The two ways the history of a scope grows.
LEMMA HistoryOn ==
    ASSUME TypeOK, NEW s \in Scopes, NEW K, History(s), active[s] = {}, Switch(s, K)
    PROVE  History(s)'
<1> DEFINE n == Len(keys[s])
<1>1. /\ n \in Nat /\ outbox[s] \in Seq(Changes) /\ keys[s] \in Seq(SUBSET (Users \cup {None}))
      /\ Len(outbox[s]) = 2 * n
  BY DEF TypeOK, TablesTyped, History
<1>2. /\ Len(keys'[s]) = n + 1 /\ active'[s] = {n + 1}
      /\ outbox'[s] = Append(outbox[s], <<"on", n + 1>>)
  BY <1>1, SwitchAdds
<1>3. /\ Len(outbox'[s]) = 2 * (n + 1) - 1 /\ outbox'[s][2 * (n + 1) - 1] = <<"on", n + 1>>
      /\ \A i \in 1..2 * n : outbox'[s][i] = outbox[s][i]
  <2>1. 2 * (n + 1) - 1 = 2 * n + 1 /\ <<"on", n + 1>> \in Changes
    BY <1>1 DEF Changes
  <2>2. /\ Len(outbox'[s]) = 2 * n + 1 /\ outbox'[s][2 * n + 1] = <<"on", n + 1>>
        /\ \A i \in 1..2 * n : outbox'[s][i] = outbox[s][i]
    <3> HIDE DEF n
    <3>1. ASSUME NEW L \in Nat, NEW e \in Changes, NEW q \in Seq(Changes), Len(q) = L
          PROVE  /\ Len(Append(q, e)) = L + 1 /\ Append(q, e)[L + 1] = e
                 /\ \A i \in 1..L : Append(q, e)[i] = q[i]
      BY <3>1
    <3>2. 2 * n \in Nat
      BY <1>1
    <3> QED
      BY <1>1, <1>2, <2>1, <3>1, <3>2
  <2> QED
    BY <2>1, <2>2
<1>4. ASSUME NEW m \in 1..n
      PROVE  outbox'[s][2 * m - 1] = <<"on", m>> /\ outbox'[s][2 * m] = <<"off", m>>
  <2>1. 2 * m \in 1..2 * n /\ 2 * m - 1 \in 1..2 * n
    BY <1>1
  <2> QED
    BY <1>3, <2>1 DEF History
<1>5. ASSUME NEW m \in 1..n + 1, m # n + 1 PROVE m \in 1..n
  BY <1>1, <1>5
<1> HIDE DEF n
<1> QED
  BY <1>2, <1>3, <1>4, <1>5 DEF History

LEMMA HistoryOff ==
    ASSUME TypeOK, NEW s \in Scopes, History(s), Len(keys[s]) > 0, active[s] = {Len(keys[s])},
           active'[s] = {}, keys'[s] = keys[s],
           outbox'[s] = Append(outbox[s], <<"off", Len(keys[s])>>)
    PROVE  History(s)'
<1> DEFINE n == Len(keys[s])
<1>1. n \in Nat /\ n > 0 /\ outbox[s] \in Seq(Changes) /\ Len(outbox[s]) = 2 * n - 1
  BY DEF TypeOK, TablesTyped, History
<1>2. /\ Len(outbox'[s]) = 2 * n /\ outbox'[s][2 * n] = <<"off", n>>
      /\ \A i \in 1..2 * n - 1 : outbox'[s][i] = outbox[s][i]
  BY <1>1
<1>3. ASSUME NEW m \in 1..n
      PROVE  outbox'[s][2 * m - 1] = <<"on", m>> /\ outbox'[s][2 * m] = <<"off", m>>
  <2>1. 2 * m - 1 \in 1..2 * n - 1 /\ (m # n => 2 * m \in 1..2 * n - 1)
    BY <1>1
  <2> QED
    BY <1>2, <2>1 DEF History
<1> HIDE DEF n
<1>4. Len(keys'[s]) = n
  BY DEF n
<1> QED
  <2>1. Len(outbox'[s]) = 2 * Len(keys'[s]) - (IF active'[s] = {} THEN 0 ELSE 1)
    BY <1>1, <1>2, <1>4
  <2>2. \A m \in 1..Len(keys'[s]) :
           outbox'[s][2 * m - 1] = <<"on", m>> /\ outbox'[s][2 * m] = <<"off", m>>
    BY <1>3, <1>4
  <2> QED
    BY <2>1, <2>2 DEF History

\* What a step does to the switch rows and their events: nothing, one switch more
\* in a scope that has no active one, or the end of the active one.
Quiet == UNCHANGED switches
On(c) == \E K \in SUBSET Users :
    /\ arg[c] \in Scopes /\ active[arg[c]] = {}
    /\ arg[c] \in Dual => \E u, v \in K : u # v
    /\ Switch(arg[c], K)
Off(c) ==
    /\ arg[c] \in Scopes /\ Len(keys[arg[c]]) > 0 /\ active[arg[c]] = {Len(keys[arg[c]])}
    /\ active' = [active EXCEPT ![arg[c]] = {}]
    /\ Announce(arg[c], "off", Len(keys[arg[c]]))
    /\ UNCHANGED keys

LEMMA StepsOfSwitches ==
    TypeOK /\ IInv /\ [Next]_vars => Quiet \/ \E c \in Calls : On(c) \/ Off(c)
<1> SUFFICES ASSUME TypeOK, IInv, [Next]_vars
             PROVE  Quiet \/ \E c \in Calls : On(c) \/ Off(c)
  OBVIOUS
<1> DEFINE Goal == Quiet \/ \E c \in Calls : On(c) \/ Off(c)
<1>1. ASSUME NEW c \in Calls, InsertSwitch(c) PROVE Goal
  <2>1. arg[c] \in Scopes /\ arg[c] \notin Dual
    BY <1>1 DEF InsertSwitch, IInv, KeyRows, TypeOK, CallsTyped
  <2>2. CASE active[arg[c]] = {}
    <3>1. Switch(arg[c], {})
      BY <1>1, <2>2 DEF InsertSwitch
    <3>2. On(c)
      BY <2>1, <2>2, <3>1 DEF On
    <3> QED
      BY <3>2
  <2>3. CASE active[arg[c]] # {}
    BY <1>1, <2>3 DEF InsertSwitch, Quiet
  <2> QED
    BY <2>2, <2>3
<1>2. ASSUME NEW c \in Calls, Release(c) PROVE Goal
  <2>1. arg[c] \in Scopes /\ num[c] \in active[arg[c]]
    BY <1>2 DEF Release, IInv, LockedSwitches, TypeOK, CallsTyped
  <2>2. num[c] = Len(keys[arg[c]]) /\ active[arg[c]] = {num[c]} /\ Len(keys[arg[c]]) > 0
    BY <2>1 DEF IInv, LastIsActive
  <2>3. active[arg[c]] \ {num[c]} = {}
    BY <2>2
  <2>4. Off(c)
    BY <1>2, <2>1, <2>2, <2>3 DEF Off, Release
  <2> QED
    BY <2>4
<1>3. ASSUME NEW c \in Calls, ApproveWrite(c) PROVE Goal
  <2>1. /\ arg[c] \in Dual /\ arg[c] \in Scopes /\ who[c] \in Users
        /\ key[arg[c]] \in Pending /\ keyBy[arg[c]] # who[c]
    BY <1>3, DualIsScopes DEF ApproveWrite, IInv, LockedKeys, TypeOK, CallsTyped, Approving
  <2>2. KeyRow(arg[c])
    BY <2>1 DEF IInv, KeyRows
  <2>3. keyBy[arg[c]] \in Users /\ keys[arg[c]] = <<>>
    BY <2>1, <2>2 DEF KeyRow, Pending
  <2>4. active[arg[c]] = {}
    BY <2>1, <2>3 DEF IInv, LastIsActive
  <2>5. Switch(arg[c], {keyBy[arg[c]], who[c]})
    BY <1>3, <2>4 DEF ApproveWrite
  <2>6. \E u, v \in {keyBy[arg[c]], who[c]} : u # v
    BY <2>1
  <2>7. On(c)
    BY <2>1, <2>3, <2>4, <2>5, <2>6 DEF On
  <2> QED
    BY <2>7
<1>4. ASSUME NEW c \in Calls, Arrive(c) PROVE Quiet
  BY <1>4 DEF Arrive, Activate, RequestKey, Deactivate, Quiet
<1>5. ASSUME NEW c \in Calls, FindOther(c) \/ FindOwn(c) \/ FindNone(c) \/ InsertKey(c)
      PROVE  Quiet
  BY <1>5 DEF FindOther, FindOwn, FindNone, InsertKey, Quiet
<1>6. ASSUME NEW c \in Calls, Begin(c) \/ BeginApprove(c) \/ LockKey(c) \/ ApproveTooLate(c)
      PROVE  Quiet
  BY <1>6 DEF Begin, BeginApprove, LockKey, ApproveTooLate, Quiet
<1>7. ASSUME NEW c \in Calls, ApproveRefused(c) \/ Retry(c) \/ GiveUp(c) \/ Fail(c) PROVE Quiet
  BY <1>7 DEF ApproveRefused, Retry, GiveUp, Fail, Quiet
<1>8. ASSUME NEW c \in Calls, NEW s \in Dual, LockStale(c, s) PROVE Quiet
  BY <1>8 DEF LockStale, Quiet
<1>9. ASSUME NEW s \in Dual, Lapse(s) PROVE Quiet
  BY <1>9 DEF Lapse, Quiet
<1>10. CASE UNCHANGED vars
  BY <1>10 DEF vars, Quiet
<1> QED
  BY <1>1, <1>2, <1>3, <1>4, <1>5, <1>6, <1>7, <1>8, <1>9, <1>10 DEF Next, Continue

-----------------------------------------------------------------------------
LEMMA StepHistory ==
    TypeOK /\ IInv /\ OutboxIsTheHistory /\ [Next]_vars => OutboxIsTheHistory'
<1> SUFFICES ASSUME TypeOK, IInv, OutboxIsTheHistory, [Next]_vars, NEW s \in Scopes
             PROVE  History(s)'
  BY DEF OutboxIsTheHistory
<1>1. History(s)
  BY DEF OutboxIsTheHistory
<1>2. ASSUME UNCHANGED <<keys[s], active[s], outbox[s]>> PROVE History(s)'
  BY <1>1, <1>2 DEF History
<1>3. CASE Quiet
  BY <1>2, <1>3 DEF Quiet, switches
<1>4. ASSUME NEW c \in Calls, On(c) PROVE History(s)'
  <2>1. PICK K \in SUBSET Users : Switch(arg[c], K)
    BY <1>4 DEF On
  <2>2. arg[c] \in Scopes /\ active[arg[c]] = {}
    BY <1>4 DEF On
  <2>3. CASE s = arg[c]
    BY <1>1, <2>1, <2>2, <2>3, HistoryOn
  <2>4. CASE s # arg[c]
    <3>1. UNCHANGED <<keys[s], active[s], outbox[s]>>
      BY <2>1, <2>2, <2>4, SwitchAdds
    <3> QED
      BY <1>2, <3>1
  <2> QED
    BY <2>3, <2>4
<1>5. ASSUME NEW c \in Calls, Off(c) PROVE History(s)'
  <2>1. CASE s = arg[c]
    <3>1. /\ Len(keys[s]) > 0 /\ active[s] = {Len(keys[s])}
          /\ active'[s] = {} /\ keys'[s] = keys[s]
          /\ outbox'[s] = Append(outbox[s], <<"off", Len(keys[s])>>)
      BY <1>5, <2>1 DEF Off, Announce, TypeOK, TablesTyped
    <3> QED
      BY <1>1, <3>1, HistoryOff
  <2>2. CASE s # arg[c]
    <3>1. UNCHANGED <<keys[s], active[s], outbox[s]>>
      BY <1>5, <2>2 DEF Off, Announce, TypeOK, TablesTyped
    <3> QED
      BY <1>2, <3>1
  <2> QED
    BY <2>1, <2>2
<1> QED
  BY <1>3, <1>4, <1>5, StepsOfSwitches

\* The events of a scope tell its history without a gap, a swap or a repetition.
THEOREM OutboxHolds == Spec => []OutboxIsTheHistory
<1>1. Init => OutboxIsTheHistory
  BY DEF Init, OutboxIsTheHistory, History
<1> QED
  BY <1>1, StepHistory, Inductive, PTL DEF Spec

-----------------------------------------------------------------------------
\* The transactions implement the kill switches: every committed change of a
\* switch is one step of KillSwitch, and everything else stutters.
THEOREM Implements == Spec => IsKillSwitch
<1>1. Init => Abstract!Init
  BY DEF Init, Abstract!Init, Halted
<1>2. TypeOK /\ IInv /\ [Next]_vars => [Abstract!Next]_<<Halted, keys, outbox>>
  <2> SUFFICES ASSUME TypeOK, IInv, [Next]_vars
               PROVE  [Abstract!Next]_<<Halted, keys, outbox>>
    OBVIOUS
  <2>1. CASE Quiet
    BY <2>1 DEF Quiet, switches, Halted
  <2>2. ASSUME NEW c \in Calls, On(c) PROVE Abstract!Next
    <3>1. PICK K \in SUBSET Users :
             (arg[c] \in Dual => \E u, v \in K : u # v) /\ Switch(arg[c], K)
      BY <2>2 DEF On
    <3>2. arg[c] \in Scopes /\ active[arg[c]] = {}
      BY <2>2 DEF On
    <3>3. arg[c] \notin Halted /\ Halted' = Halted \cup {arg[c]}
      <4>1. ASSUME NEW s, s = arg[c]
            PROVE  s \in Scopes /\ s \notin Halted /\ Halted' = Halted \cup {s}
        <5>1. s \in Scopes /\ active[s] = {} /\ Switch(s, K)
          BY <3>1, <3>2, <4>1
        <5>2. /\ active'[s] = active[s] \cup {Len(keys[s]) + 1}
              /\ \A r \in Scopes \ {s} : UNCHANGED <<keys[r], active[r], outbox[r]>>
          BY <5>1, SwitchAdds
        <5> QED
          BY <5>1, <5>2 DEF Halted
      <4> QED
        BY <4>1
    <3>4. Abstract!Halt(arg[c], K)
      BY <3>1, <3>3 DEF Abstract!Halt, Abstract!Suffices, Switch, Announce
    <3> QED
      BY <3>2, <3>4 DEF Abstract!Next
  <2>3. ASSUME NEW c \in Calls, Off(c) PROVE Abstract!Next
    <3>1. arg[c] \in Halted /\ Halted' = Halted \ {arg[c]}
      BY <2>3 DEF Off, Halted, TypeOK, TablesTyped
    <3>2. Abstract!Resume(arg[c])
      BY <2>3, <3>1 DEF Abstract!Resume, Off, Announce
    <3> QED
      BY <2>3, <3>2 DEF Abstract!Next, Off
  <2> QED
    BY <2>1, <2>2, <2>3, StepsOfSwitches
<1> QED
  BY <1>1, <1>2, Inductive, PTL DEF Spec, IsKillSwitch, Abstract!Spec
=============================================================================
