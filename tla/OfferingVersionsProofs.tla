----------------------- MODULE OfferingVersionsProofs -----------------------
(***************************************************************************)
(* Proofs about OfferingVersions, for any number of offerings and          *)
(* transactions. Locks is what the row lock is worth; with it, Known: the  *)
(* version a PUT has read stays the current one, but for an offboarding    *)
(* that may close it. StepEvolves then says what a step can do to the      *)
(* versions of one offering, and the theorems follow from it.              *)
(***************************************************************************)
EXTENDS OfferingVersions, SequenceTheorems, TLAPS

Closers == {"delete", "offboard"}

\* A function on 1..n is a sequence.
LEMMA IsSequence ==
    ASSUME NEW S, NEW n \in Nat, NEW s \in [1..n -> S]
    PROVE  s \in Seq(S)
  BY SeqDef

\* A sequence is as long as its domain.
LEMMA SameLength ==
    ASSUME NEW S, NEW s \in Seq(S), NEW n \in Nat, DOMAIN s = 1..n
    PROVE  Len(s) = n
<1>1. Len(s) \in Nat /\ 1..Len(s) = 1..n
  BY LenProperties
<1> QED
  BY <1>1

\* Row w is row v closed at t.
Shut(v, w, t, who) ==
    w.version = v.version /\ w.from = v.from /\ w.to = t /\ w.by = who

\* Closing a row sets its end and who did it, and nothing else.
LEMMA ShutRow ==
    ASSUME NEW v \in Version, NEW t \in Nat, NEW who \in Closers \cup {"put"}
    PROVE  /\ [v EXCEPT !.to = t, !.by = who] \in Version
           /\ Shut(v, [v EXCEPT !.to = t, !.by = who], t, who)
  BY DEF Version, Closers, Shut

\* What the later proofs need of a closed sequence of versions.
LEMMA ClosedRows ==
    ASSUME NEW q \in Seq(Version), NEW t \in Nat, NEW who \in Closers
    PROVE  /\ Closed(q, t, who) \in Seq(Version)
           /\ Len(Closed(q, t, who)) = Len(q)
           /\ \A i \in 1..Len(q) :
                IF q[i].to = Open THEN Shut(q[i], Closed(q, t, who)[i], t, who)
                                  ELSE Closed(q, t, who)[i] = q[i]
<1> DEFINE row(i) == IF q[i].to = Open THEN [q[i] EXCEPT !.to = t, !.by = who] ELSE q[i]
<1>1. Len(q) \in Nat /\ DOMAIN q = 1..Len(q) /\ \A i \in 1..Len(q) : q[i] \in Version
  BY LenProperties, ElementOfSeq
<1>2. \A i \in 1..Len(q) : row(i) \in Version
  BY <1>1, ShutRow
<1> DEFINE f == [i \in 1..Len(q) |-> row(i)]
<1>3. Closed(q, t, who) = f
  BY <1>1 DEF Closed
<1>4. f \in [1..Len(q) -> Version]
  BY <1>2
<1>5. f \in Seq(Version)
  BY ONLY <1>1, <1>4, IsSequence
<1>6. Len(f) = Len(q)
  BY ONLY <1>1, <1>4, <1>5, SameLength
<1>7. \A i \in 1..Len(q) : IF q[i].to = Open THEN Shut(q[i], f[i], t, who) ELSE f[i] = q[i]
  BY <1>1, ShutRow
<1> HIDE DEF f
<1> QED
  BY <1>3, <1>5, <1>6, <1>7

\* What they need of a rotated one.
Rotation(q, i, t, r) ==
    /\ r \in Seq(Version) /\ Len(r) = Len(q) + 1
    /\ i = 0 => r[Len(q) + 1] = Fresh(1, t)
    /\ i # 0 => r[Len(q) + 1] = Fresh(q[i].version + 1, t)
    /\ \A j \in 1..Len(q) :
         (j = i => Shut(q[j], r[j], t, "put")) /\ (j # i => r[j] = q[j])

\* What PUT makes of the versions.
LEMMA RotatedRows ==
    ASSUME NEW q \in Seq(Version), NEW i \in 0..Len(q), NEW t \in Nat,
           NEW r, r = Rotated(q, i, t)
    PROVE  Rotation(q, i, t, r)
<1> USE DEF Rotation
<1>1. Len(q) \in Nat /\ DOMAIN q = 1..Len(q) /\ \A j \in 1..Len(q) : q[j] \in Version
  BY LenProperties, ElementOfSeq
<1>2. ASSUME NEW s \in Seq(Version), NEW e \in Version, Len(s) = Len(q)
      PROVE  /\ Append(s, e) \in Seq(Version) /\ Len(Append(s, e)) = Len(q) + 1
             /\ Append(s, e)[Len(q) + 1] = e
             /\ \A j \in 1..Len(q) : Append(s, e)[j] = s[j]
  BY <1>2, <1>1, AppendProperties
<1>3. CASE i = 0
  <2>1. Fresh(1, t) \in Version
    BY DEF Fresh, Version
  <2>2. r = Append(q, Fresh(1, t))
    BY <1>3 DEF Rotated
  <2>3. \A j \in 1..Len(q) : j # i
    BY <1>3
  <2> QED
    BY ONLY <1>2, <1>3, <2>1, <2>2, <2>3, q \in Seq(Version)
<1>4. CASE i # 0
  <2>1. i \in 1..Len(q)
    BY <1>1, <1>4
  <2> DEFINE s == [q EXCEPT ![i].to = t, ![i].by = "put"]
  <2>2. \A j \in 1..Len(q) : s[j] = IF j = i THEN [q[j] EXCEPT !.to = t, !.by = "put"] ELSE q[j]
    BY <1>1, <2>1 DEF Version
  <2>3. DOMAIN s = 1..Len(q) /\ \A j \in 1..Len(q) : s[j] \in Version
    BY <1>1, <2>1, <2>2 DEF Version
  <2>4. s \in [1..Len(q) -> Version]
    BY <1>1, <2>3
  <2>5. s \in Seq(Version)
    BY ONLY <1>1, <2>4, IsSequence
  <2>6. Len(s) = Len(q)
    BY ONLY <1>1, <2>4, <2>5, SameLength
  <2>7. Fresh(q[i].version + 1, t) \in Version
    BY <1>1, <2>1 DEF Fresh, Version
  <2>8. r = Append(s, Fresh(q[i].version + 1, t))
    BY <1>4 DEF Rotated
  <2>9. \A j \in 1..Len(q) : (j = i => Shut(q[j], s[j], t, "put")) /\ (j # i => s[j] = q[j])
    BY <1>1, <2>2, ShutRow
  <2> HIDE DEF s
  <2> QED
    BY ONLY <1>2, <1>4, <2>5, <2>6, <2>7, <2>8, <2>9
<1> QED
  BY <1>3, <1>4

\* A new offering's only version.
LEMMA FirstRow ==
    ASSUME NEW t \in Nat
    PROVE  /\ <<Fresh(1, t)>> \in Seq(Version) /\ Len(<<Fresh(1, t)>>) = 1
           /\ <<Fresh(1, t)>>[1] = Fresh(1, t)
<1>1. Fresh(1, t) \in Version
  BY DEF Fresh, Version
<1> QED
  BY <1>1

-----------------------------------------------------------------------------
Stmts == {"idle", "post", "lock", "read", "write", "delete", "sweep"}

\* The types of all but the versions.
CallType ==
    /\ now \in Nat
    /\ status \in [Offerings -> {"none", "active", "discontinued"}]
    /\ lock \in [Offerings -> Calls \cup {None}]
    /\ at \in [Calls -> Stmts]
    /\ on \in [Calls -> SUBSET Offerings]
    /\ began \in [Calls -> Nat] /\ cur \in [Calls -> Nat]
    /\ want \in [Calls -> SUBSET Offerings]
    /\ raced \in SUBSET Offerings

\* Every end of a transaction gives back its locks and forgets what it was about.
LEMMA ReleaseType ==
    ASSUME NEW c \in Calls, CallType, Release(c)
    PROVE  /\ now' = now /\ raced' = raced
           /\ at' = [at EXCEPT ![c] = "idle"] /\ at' \in [Calls -> Stmts]
           /\ lock' \in [Offerings -> Calls \cup {None}]
           /\ \A o \in Offerings : lock'[o] = IF lock[o] = c THEN None ELSE lock[o]
           /\ began' = [began EXCEPT ![c] = 0] /\ began' \in [Calls -> Nat]
           /\ cur' = [cur EXCEPT ![c] = 0] /\ cur' \in [Calls -> Nat]
           /\ want' = [want EXCEPT ![c] = {}] /\ want' \in [Calls -> SUBSET Offerings]
  BY DEF CallType, Release, Stmts

\* A transaction that ends is about nothing any more.
LEMMA EndOn ==
    ASSUME NEW c \in Calls, CallType, End(c)
    PROVE  /\ Release(c) /\ on' \in [Calls -> SUBSET Offerings]
           /\ on'[c] = {} /\ \A d \in Calls \ {c} : on'[d] = on[d]
  BY DEF CallType, End

\* A PUT's COMMIT can keep its offering from an offboarding under way.
LEMMA CommitOn ==
    ASSUME NEW c \in Calls, NEW o \in Offerings, CallType, Commit(c, o)
    PROVE  /\ Release(c) /\ on' \in [Calls -> SUBSET Offerings]
           /\ on'[c] = {}
           /\ \A d \in Calls \ {c} :
                 on'[d] = on[d] \/ (at[d] = "sweep" /\ on'[d] = on[d] \ {o})
<1>1. PICK blind \in SUBSET {d \in Calls \ {c} : at[d] = "sweep" /\ want[d] = {}} :
          on' = [d \in Calls |-> IF d = c THEN {}
                                ELSE IF d \in blind THEN on[d] \ {o} ELSE on[d]]
  BY DEF Commit
<1> QED
  BY <1>1 DEF Commit, CallType

\* What BEGIN does.
LEMMA BeginType ==
    ASSUME NEW c \in Calls, NEW stmt \in Stmts, NEW s \in SUBSET Offerings, CallType,
           Begin(c, stmt, s)
    PROVE  /\ at[c] = "idle" /\ at' \in [Calls -> Stmts]
           /\ at' = [at EXCEPT ![c] = stmt]
           /\ on' \in [Calls -> SUBSET Offerings]
           /\ on' = [on EXCEPT ![c] = s]
           /\ began' \in [Calls -> Nat] /\ began' = [began EXCEPT ![c] = now]
           /\ raced' \in SUBSET Offerings
  BY DEF CallType, Begin

RowType == rows \in [Offerings -> Seq(Version)]

\* Calls, locks and clock keep their types.
LEMMA StepCallType == CallType /\ RowType /\ [Next]_vars => CallType'
<1> SUFFICES ASSUME CallType, RowType, [Next]_vars PROVE CallType'
  OBVIOUS
<1>0. CASE UNCHANGED vars
  BY <1>0 DEF CallType, vars, table, call
<1>1. CASE Tick
  BY <1>1 DEF CallType, Tick, table, call
<1>2. ASSUME NEW c \in Calls, NEW o \in Offerings,
             BeginPost(c, o) \/ BeginPut(c, o) \/ BeginDelete(c, o)
      PROVE  CallType'
  <2>1. PICK stmt \in Stmts : Begin(c, stmt, {o})
    BY <1>2 DEF BeginPost, BeginPut, BeginDelete, Stmts
  <2>2. UNCHANGED <<now, status, lock, cur, want>>
    BY <1>2 DEF BeginPost, BeginPut, BeginDelete, table
  <2>3. {o} \in SUBSET Offerings
    OBVIOUS
  <2> QED
    BY <2>1, <2>2, <2>3, BeginType DEF CallType
<1>3. ASSUME NEW c \in Calls, BeginSweep(c) PROVE CallType'
  <2>1. Begin(c, "sweep", Offerings) /\ UNCHANGED <<now, status, lock, cur>>
    BY <1>3 DEF BeginSweep, table
  <2>2. want' \in [Calls -> SUBSET Offerings]
    BY <1>3 DEF BeginSweep, CallType
  <2> QED
    BY <2>1, <2>2, BeginType DEF CallType, Stmts
<1>4. ASSUME NEW c \in Calls, NEW o \in Offerings, Post(c, o) PROVE CallType'
  BY <1>4, EndOn, ReleaseType DEF CallType, Post
<1>5. ASSUME NEW c \in Calls, NEW o \in Offerings, LockPut(c, o) PROVE CallType'
  BY <1>5 DEF CallType, LockPut, table, Stmts
<1>6. ASSUME NEW c \in Calls, NEW o \in Offerings, ReadCurrent(c, o) PROVE CallType'
  <2>1. \A i \in OpenRows(rows[o]) \cup {0} : i \in Nat
    BY LenProperties DEF OpenRows, RowType
  <2> QED
    BY <1>6, <2>1 DEF CallType, ReadCurrent, table, Stmts
<1>7. ASSUME NEW c \in Calls, NEW o \in Offerings,
             NEW st \in {"keep", "active", "discontinued"}, Write(c, o, st)
      PROVE  CallType'
  <2>1. (Commit(c, o) /\ status' = [status EXCEPT ![o] = IF st = "keep" THEN @ ELSE st])
        \/ (End(c) /\ UNCHANGED status)
    BY <1>7 DEF Write, table
  <2> QED
    BY <2>1, EndOn, CommitOn, ReleaseType DEF CallType
<1>8. ASSUME NEW c \in Calls, NEW o \in Offerings, Delete(c, o) PROVE CallType'
  BY <1>8, EndOn, ReleaseType DEF CallType, Delete
<1>9. ASSUME NEW c \in Calls, NEW o \in Offerings, SweepLock(c, o) PROVE CallType'
  BY <1>9 DEF CallType, SweepLock, table
<1>10. ASSUME NEW c \in Calls, Sweep(c) PROVE CallType'
  BY <1>10, EndOn, ReleaseType DEF CallType, Sweep
<1>11. ASSUME NEW c \in Calls, Fail(c) PROVE CallType'
  BY <1>11, EndOn, ReleaseType DEF CallType, Fail, table
<1> QED
  BY <1>0, <1>1, <1>2, <1>3, <1>4, <1>5, <1>6, <1>7, <1>8, <1>9, <1>10, <1>11
     DEF Next, Step

-----------------------------------------------------------------------------
\* About one offering, in one of these statements.
About(c, o, stmts) == at[c] \in stmts /\ on[c] = {o}

\* What the row lock of an offering is worth.
Single ==
    \A c \in Calls : at[c] \in {"post", "lock", "read", "write", "delete"} =>
        \E o \in Offerings : on[c] = {o}

Held ==
    \A c \in Calls, o \in Offerings : About(c, o, {"read", "write"}) => lock[o] = c

Holder ==
    \A o \in Offerings : lock[o] # None =>
        /\ Exists(o)
        /\ \/ About(lock[o], o, {"read", "write"})
           \/ at[lock[o]] = "sweep" /\ o \notin want[lock[o]]

Existing ==
    /\ \A c \in Calls, o \in Offerings :
        About(c, o, {"lock", "read", "write", "delete"}) \/ o \in want[c] => Exists(o)
    /\ \A c \in Calls, o \in Offerings : About(c, o, {"post"}) => ~ Exists(o)
    /\ \A c, d \in Calls, o \in Offerings :
        About(c, o, {"post"}) /\ About(d, o, {"post"}) => c = d

Locks == Single /\ Held /\ Holder /\ Existing

\* A transaction that ends leaves the others where they were.
LEMMA EndLocks ==
    ASSUME NEW c \in Calls, CallType, Locks, Release(c), on'[c] = {},
           \A d \in Calls \ {c} :
               on'[d] = on[d] \/ (at[d] = "sweep" /\ on'[d] \subseteq on[d]),
           \A o \in Offerings : Exists(o) => Exists(o)',
           \A o \in Offerings : Exists(o)' => Exists(o) \/ About(c, o, {"post"})
    PROVE  Locks'
<1>1. /\ at'[c] = "idle" /\ want'[c] = {}
      /\ \A d \in Calls \ {c} : at'[d] = at[d] /\ want'[d] = want[d]
      /\ \A o \in Offerings : lock'[o] = IF lock[o] = c THEN None ELSE lock[o]
  BY ReleaseType DEF CallType
<1>2. Single'
  BY <1>1 DEF Locks, Single
<1>3. Held'
  BY <1>1 DEF Locks, Held, About
<1>4. Holder'
  BY <1>1 DEF Locks, Holder, About, CallType
<1>5. Existing'
  BY <1>1 DEF Locks, Existing, About
<1> QED
  BY <1>2, <1>3, <1>4, <1>5 DEF Locks

\* At first nobody holds a lock.
LEMMA InitLocks == Init => CallType /\ Locks
  BY NoneIsNoCall DEF Init, CallType, Stmts, Locks, Single, Held, Holder, Existing, About, Exists

\* A transaction that begins holds no lock yet.
LEMMA BeginLocks ==
    ASSUME NEW c \in Calls, NEW stmt \in {"post", "lock", "delete", "sweep"},
           NEW s \in SUBSET Offerings, CallType, Locks, Begin(c, stmt, s),
           UNCHANGED <<status, lock>>,
           \A d \in Calls \ {c} : want'[d] = want[d],
           \A o \in want'[c] : Exists(o),
           stmt # "sweep" => \E o \in Offerings :
               /\ s = {o}
               /\ IF stmt # "post" THEN Exists(o)
                  ELSE ~ Exists(o) /\ \A d \in Calls : ~ About(d, o, {"post"})
    PROVE  Locks'
<1>1. /\ at[c] = "idle" /\ at'[c] = stmt /\ on'[c] = s
      /\ \A d \in Calls \ {c} : at'[d] = at[d] /\ on'[d] = on[d]
  BY DEF Begin, CallType
<1>2. Single'
  BY <1>1 DEF Locks, Single
<1>3. Held'
  BY <1>1 DEF Locks, Held, About
<1>4. Holder'
  <2>1. \A o \in Offerings : lock[o] # c
    BY <1>1, NoneIsNoCall DEF Locks, Holder, About
  <2> QED
    BY <1>1, <2>1 DEF Locks, Holder, About, CallType, Exists
<1>5. Existing'
  BY <1>1 DEF Locks, Existing, About, Exists
<1> QED
  BY <1>2, <1>3, <1>4, <1>5 DEF Locks

\* A lock is held by a transaction that is about the offering and past its wait.
LEMMA StepLocks == CallType /\ Locks /\ [Next]_vars => Locks'
<1> SUFFICES ASSUME CallType, Locks, [Next]_vars PROVE Locks'
  OBVIOUS
<1>0. CASE UNCHANGED vars
  BY <1>0 DEF Locks, Single, Held, Holder, Existing, About, Exists, vars, table, call
<1>1. CASE Tick
  BY <1>1 DEF Locks, Single, Held, Holder, Existing, About, Exists, Tick, table, call
<1>2. ASSUME NEW c \in Calls, NEW o \in Offerings, BeginPost(c, o) PROVE Locks'
  <2>1. /\ ~ Exists(o) /\ Begin(c, "post", {o}) /\ UNCHANGED <<status, lock, want>>
        /\ \A d \in Calls : ~ About(d, o, {"post"})
    BY <1>2 DEF BeginPost, About, table
  <2>2. \A x \in want'[c] : Exists(x)
    BY <2>1 DEF Locks, Existing, CallType
  <2> QED
    BY <2>1, <2>2, BeginLocks
<1>3. ASSUME NEW c \in Calls, NEW o \in Offerings, BeginPut(c, o) \/ BeginDelete(c, o)
      PROVE  Locks'
  <2>1. /\ Exists(o) /\ UNCHANGED <<status, lock, want>>
        /\ Begin(c, "lock", {o}) \/ Begin(c, "delete", {o})
    BY <1>3 DEF BeginPut, BeginDelete, table
  <2>2. \A x \in want'[c] : Exists(x)
    BY <2>1 DEF Locks, Existing, CallType
  <2> QED
    BY <2>1, <2>2, BeginLocks
<1>4. ASSUME NEW c \in Calls, BeginSweep(c) PROVE Locks'
  <2>1. /\ Begin(c, "sweep", Offerings) /\ UNCHANGED <<status, lock>>
        /\ \A x \in want'[c] : Exists(x)
        /\ \A d \in Calls \ {c} : want'[d] = want[d]
    BY <1>4 DEF BeginSweep, table, CallType
  <2> QED
    BY <2>1, BeginLocks
<1>5. ASSUME NEW c \in Calls, NEW o \in Offerings, Post(c, o) PROVE Locks'
  <2>1. End(c) /\ About(c, o, {"post"}) /\ status' = [status EXCEPT ![o] = "active"]
    BY <1>5 DEF Post, About
  <2>2. \A x \in Offerings : Exists(x) => Exists(x)'
    BY <2>1 DEF CallType, Exists
  <2>3. \A x \in Offerings : Exists(x)' => Exists(x) \/ About(c, x, {"post"})
    BY <2>1 DEF CallType, Exists
  <2> QED
    BY <2>1, <2>2, <2>3, EndOn, EndLocks
<1>6. ASSUME NEW c \in Calls, NEW o \in Offerings, LockPut(c, o) PROVE Locks'
  <2>1. /\ at[c] = "lock" /\ on[c] = {o} /\ lock[o] = None /\ Exists(o)
        /\ lock' = [lock EXCEPT ![o] = c] /\ at' = [at EXCEPT ![c] = "read"]
        /\ UNCHANGED <<status, on, want>>
    BY <1>6 DEF LockPut, table, Locks, Existing, About
  <2>2. \A d \in Calls \ {c}, x \in Offerings : About(d, x, {"read", "write"}) => x # o
    BY <2>1, NoneIsNoCall DEF Locks, Held
  <2>3. /\ at'[c] = "read" /\ \A d \in Calls \ {c} : at'[d] = at[d]
        /\ lock'[o] = c /\ \A x \in Offerings \ {o} : lock'[x] = lock[x]
    BY <2>1 DEF CallType
  <2>4. on' = on /\ want' = want /\ \A x \in Offerings : Exists(x)' = Exists(x)
    BY <2>1 DEF Exists
  <2>5. Single'
    BY <2>1, <2>3, <2>4 DEF Locks, Single
  <2>6. Held'
    BY <2>1, <2>2, <2>3, <2>4 DEF Locks, Held, About
  <2>7. Holder'
    <3>1. \A x \in Offerings \ {o} : lock[x] # c
      BY <2>1, NoneIsNoCall DEF Locks, Holder, About
    <3> QED
      BY <2>1, <2>3, <2>4, <3>1, NoneIsNoCall DEF Locks, Holder, About, CallType
  <2>8. Existing'
    BY <2>1, <2>3, <2>4 DEF Locks, Existing, About
  <2> QED
    BY <2>5, <2>6, <2>7, <2>8 DEF Locks
<1>7. ASSUME NEW c \in Calls, NEW o \in Offerings, ReadCurrent(c, o) PROVE Locks'
  <2>1. /\ at[c] = "read" /\ on[c] = {o} /\ at' = [at EXCEPT ![c] = "write"]
        /\ UNCHANGED <<status, lock, on, want>>
    BY <1>7 DEF ReadCurrent, table
  <2> QED
    BY <2>1 DEF CallType, Locks, Single, Held, Holder, Existing, About, Exists
<1>8. ASSUME NEW c \in Calls, NEW o \in Offerings,
             NEW st \in {"keep", "active", "discontinued"}, Write(c, o, st)
      PROVE  Locks'
  <2>1. /\ About(c, o, {"read", "write"})
        /\ \/ /\ Commit(c, o)
              /\ status' = [status EXCEPT ![o] = IF st = "keep" THEN @ ELSE st]
           \/ End(c) /\ UNCHANGED status
    BY <1>8 DEF Write, table, About
  <2>2. Exists(o)
    BY <2>1 DEF Locks, Existing, About
  <2>3. \A x \in Offerings : Exists(x)' = Exists(x)
    BY <2>1, <2>2 DEF CallType, Exists
  <2> QED
    BY <2>1, <2>3, EndOn, CommitOn, EndLocks
<1>9. ASSUME NEW c \in Calls, NEW o \in Offerings, Delete(c, o) PROVE Locks'
  <2>1. /\ About(c, o, {"delete"}) /\ End(c)
        /\ status' = [status EXCEPT ![o] = "discontinued"]
    BY <1>9 DEF Delete, About
  <2>2. \A x \in Offerings : Exists(x)' = Exists(x)
    BY <2>1 DEF CallType, Exists, Locks, Existing, About
  <2> QED
    BY <2>1, <2>2, EndOn, EndLocks
<1>10. ASSUME NEW c \in Calls, NEW o \in Offerings, SweepLock(c, o) PROVE Locks'
  <2>1. /\ at[c] = "sweep" /\ o \in want[c] /\ lock[o] = None /\ Exists(o)
        /\ lock' = [lock EXCEPT ![o] = c] /\ want' = [want EXCEPT ![c] = @ \ {o}]
        /\ UNCHANGED <<status, at, on>>
    BY <1>10 DEF SweepLock, table, Locks, Existing
  <2>2. \A d \in Calls, x \in Offerings : About(d, x, {"read", "write"}) => x # o
    BY <2>1, NoneIsNoCall DEF Locks, Held
  <2> QED
    BY <2>1, <2>2, NoneIsNoCall
       DEF CallType, Locks, Single, Held, Holder, Existing, About, Exists
<1>11. ASSUME NEW c \in Calls, Sweep(c) PROVE Locks'
  <2>1. End(c) /\ status' = [o \in Offerings |->
                               IF lock[o] = c THEN "discontinued" ELSE status[o]]
    BY <1>11 DEF Sweep
  <2>2. \A x \in Offerings : Exists(x)' = Exists(x)
    BY <2>1, NoneIsNoCall DEF CallType, Exists, Locks, Holder
  <2> QED
    BY <2>1, <2>2, EndOn, EndLocks
<1>12. ASSUME NEW c \in Calls, Fail(c) PROVE Locks'
  <2>1. End(c) /\ UNCHANGED status
    BY <1>12 DEF Fail, table
  <2>2. \A x \in Offerings : Exists(x)' = Exists(x)
    BY <2>1 DEF Exists
  <2> QED
    BY <2>1, <2>2, EndOn, EndLocks
<1> QED
  BY <1>0, <1>1, <1>2, <1>3, <1>4, <1>5, <1>6, <1>7, <1>8, <1>9, <1>10, <1>11, <1>12
     DEF Next, Step

-----------------------------------------------------------------------------
\* The versions of one offering: as Chain says, and the last is in force or was
\* closed by DELETE or by an offboarding.
Good(q) ==
    /\ \A i \in 1..(Len(q) - 1) :
        /\ q[i].to # Open
        /\ \/ q[i + 1].version = q[i].version + 1 /\ q[i + 1].from = q[i].to
           \/ q[i + 1].version = 1 /\ q[i].by \in Closers
    /\ Len(q) > 0 => q[Len(q)].to = Open \/ q[Len(q)].by \in Closers

\* Position i is what a PUT reads of q, or has read before an offboarding that
\* did not wait for its lock closed the version.
Current(q, i) ==
    /\ i \in 0..Len(q)
    /\ i = 0 => Len(q) = 0 \/ q[Len(q)].to # Open
    /\ i # 0 => i = Len(q) /\ (q[i].to = Open \/ q[i].by = "offboard")

\* What a transaction that began at t makes of them.
Evolves(q, r, t) ==
    \/ \E who \in Closers : r = Closed(q, t, who)
    \/ \E i \in 0..Len(q) : Current(q, i) /\ r = Rotated(q, i, t)
    \/ q = <<>> /\ r = <<Fresh(1, t)>>

Extends(q, r) ==
    /\ Len(q) <= Len(r)
    /\ \A i \in 1..Len(q) : q[i].to # Open /\ q[i].by # "offboard" => r[i] = q[i]

\* Every change of the versions is an extension of a good chain to a good one.
LEMMA EvolvesGood ==
    ASSUME NEW q \in Seq(Version), NEW r, NEW t \in Nat, Good(q), Evolves(q, r, t)
    PROVE  r \in Seq(Version) /\ Good(r) /\ Extends(q, r)
<1>1. Len(q) \in Nat /\ \A i \in 1..Len(q) : q[i] \in Version
  BY LenProperties, ElementOfSeq
<1>3. ASSUME NEW who \in Closers, r = Closed(q, t, who)
      PROVE  r \in Seq(Version) /\ Good(r) /\ Extends(q, r)
  <2>1. /\ r \in Seq(Version) /\ Len(r) = Len(q)
        /\ \A i \in 1..Len(q) :
             IF q[i].to = Open THEN Shut(q[i], r[i], t, who) ELSE r[i] = q[i]
    BY <1>3, ClosedRows
  <2>2. \A i \in 1..Len(q) : q[i].to # Open => r[i] = q[i]
    BY <2>1
  <2>3. \A i \in 1..Len(q) : r[i].version = q[i].version /\ r[i].from = q[i].from
    BY <2>1 DEF Shut
  <2>4. \A i \in 1..Len(q) : q[i].to = Open => r[i].by \in Closers
    BY <2>1 DEF Shut
  <2>5. Good(r)
    BY <1>1, <2>1, <2>2, <2>3, <2>4 DEF Good
  <2> QED
    BY <1>1, <2>1, <2>2, <2>5 DEF Extends
<1>4. ASSUME NEW i \in 0..Len(q), Current(q, i), r = Rotated(q, i, t)
      PROVE  r \in Seq(Version) /\ Good(r) /\ Extends(q, r)
  <2>1. /\ r \in Seq(Version) /\ Len(r) = Len(q) + 1
        /\ i = 0 => r[Len(q) + 1] = Fresh(1, t)
        /\ i # 0 => r[Len(q) + 1] = Fresh(q[i].version + 1, t)
        /\ \A j \in 1..Len(q) :
             (j = i => Shut(q[j], r[j], t, "put")) /\ (j # i => r[j] = q[j])
    <3>1. Rotation(q, i, t, r)
      BY <1>4, RotatedRows
    <3> QED
      BY <3>1 DEF Rotation
  <2>2. \A j \in 1..Len(q) : j # i => r[j] = q[j]
    BY <2>1
  <2>3. \A j \in 1..Len(q) : r[j].version = q[j].version /\ r[j].from = q[j].from
    BY <2>1 DEF Shut
  <2>4. i # 0 => i = Len(q) /\ r[i].to = t /\ t # Open
    BY <1>1, <1>4, <2>1, OpenIsNoTime DEF Current, Shut
  <2>5. /\ r[Len(q) + 1].to = Open /\ r[Len(q) + 1].from = t
        /\ i = 0 => r[Len(q) + 1].version = 1
        /\ i # 0 => r[Len(q) + 1].version = q[i].version + 1
    BY <2>1 DEF Fresh
  <2>6. ASSUME NEW j \in 1..(Len(r) - 1)
        PROVE  /\ r[j].to # Open
               /\ \/ r[j + 1].version = r[j].version + 1 /\ r[j + 1].from = r[j].to
                  \/ r[j + 1].version = 1 /\ r[j].by \in Closers
    <3>1. CASE j < Len(q)
      <4>1. j \in 1..(Len(q) - 1) /\ j \in 1..Len(q) /\ j + 1 \in 1..Len(q)
        BY <1>1, <2>1, <3>1
      <4>2. r[j] = q[j]
        BY <1>1, <2>2, <2>4, <3>1, <4>1
      <4> QED
        BY <2>3, <4>1, <4>2 DEF Good
    <3>2. CASE j = Len(q)
      <4>1. j \in 1..Len(q)
        BY <1>1, <2>1, <3>2
      <4>2. CASE i = 0
        BY <1>1, <1>4, <2>2, <2>5, <3>2, <4>1, <4>2 DEF Current, Good
      <4>3. CASE i # 0
        BY <1>1, <2>3, <2>4, <2>5, <3>2, <4>1, <4>3
      <4> QED
        BY <4>2, <4>3
    <3> QED
      BY <1>1, <2>1, <3>1, <3>2
  <2>7. Good(r)
    BY <1>1, <2>1, <2>5, <2>6 DEF Good
  <2>8. Extends(q, r)
    BY <1>1, <1>4, <2>1, <2>2, <2>4 DEF Extends, Current
  <2> QED
    BY <2>1, <2>7, <2>8
<1>5. ASSUME q = <<>>, r = <<Fresh(1, t)>>
      PROVE  r \in Seq(Version) /\ Good(r) /\ Extends(q, r)
  <2>1. r \in Seq(Version) /\ Len(r) = 1 /\ r[1] = Fresh(1, t)
    BY <1>5, FirstRow
  <2>2. Len(q) = 0
    BY <1>5
  <2> QED
    BY <2>1, <2>2 DEF Good, Extends, Fresh
<1> QED
  BY <1>3, <1>4, <1>5 DEF Evolves

-----------------------------------------------------------------------------
\* The versions of every offering are as they should be.
Rows ==
    /\ RowType
    /\ \A o \in Offerings : Good(rows[o])
    /\ \A o \in Offerings : ~ Exists(o) => rows[o] = <<>>

\* A PUT about to write has read what is still current.
Known ==
    \A c \in Calls, o \in Offerings :
        About(c, o, {"write"}) => Current(rows[o], cur[c])

\* Whoever changes the versions of an offering is about it, and makes them evolve.
Changes(c, x) ==
    at[c] # "idle" /\ x \in on[c] /\ Evolves(rows[x], rows'[x], began[c])

\* A step changes the versions of an offering only as POST, PUT or a close does.
LEMMA StepEvolves ==
    ASSUME CallType, Locks, Rows, Known, [Next]_vars
    PROVE  /\ rows' = [x \in Offerings |-> rows'[x]]
           /\ \A x \in Offerings : rows'[x] = rows[x] \/ \E c \in Calls : Changes(c, x)
<1> DEFINE Goal == /\ rows' = [x \in Offerings |-> rows'[x]]
                   /\ \A x \in Offerings :
                         rows'[x] = rows[x] \/ \E c \in Calls : Changes(c, x)
<1>1. ASSUME UNCHANGED rows PROVE Goal
  BY <1>1 DEF Rows, RowType
<1>2. ASSUME NEW c \in Calls, NEW o \in Offerings, NEW r, at[c] # "idle", on[c] = {o},
             Evolves(rows[o], r, began[c]), rows' = [rows EXCEPT ![o] = r]
      PROVE  Goal
  <2>1. rows'[o] = r /\ \A x \in Offerings \ {o} : rows'[x] = rows[x]
    BY <1>2 DEF Rows, RowType
  <2>2. Changes(c, o)
    BY <1>2, <2>1 DEF Changes
  <2> QED
    BY <1>2, <2>1, <2>2 DEF Rows, RowType
<1>3. ASSUME NEW c \in Calls, NEW o \in Offerings, Post(c, o)
      PROVE  Goal
  <2>1. rows[o] = <<>> /\ at[c] # "idle" /\ on[c] = {o}
    BY <1>3 DEF Post, Rows, Locks, Existing, About
  <2>2. Evolves(rows[o], <<Fresh(1, began[c])>>, began[c])
    BY <2>1 DEF Evolves
  <2>3. rows' = [rows EXCEPT ![o] = <<Fresh(1, began[c])>>]
    BY <1>3 DEF Post
  <2> QED
    BY <1>2, <2>1, <2>2, <2>3
<1>4. ASSUME NEW c \in Calls, NEW o \in Offerings,
             NEW st \in {"keep", "active", "discontinued"}, Write(c, o, st)
      PROVE  Goal
  <2>1. at[c] # "idle" /\ on[c] = {o} /\ Current(rows[o], cur[c])
    BY <1>4 DEF Write, Known, About
  <2>2. Evolves(rows[o], Rotated(rows[o], cur[c], began[c]), began[c])
    BY <2>1 DEF Evolves, Current
  <2>3. UNCHANGED rows \/ rows' = [rows EXCEPT ![o] = Rotated(rows[o], cur[c], began[c])]
    BY <1>4 DEF Write, table
  <2> QED
    BY <1>1, <1>2, <2>1, <2>2, <2>3
<1>5. ASSUME NEW c \in Calls, NEW o \in Offerings, Delete(c, o)
      PROVE  Goal
  <2>1. at[c] # "idle" /\ on[c] = {o}
    BY <1>5 DEF Delete
  <2>2. Evolves(rows[o], Closed(rows[o], began[c], "delete"), began[c])
    BY DEF Evolves, Closers
  <2>3. rows' = [rows EXCEPT ![o] = Closed(rows[o], began[c], "delete")]
    BY <1>5 DEF Delete
  <2> QED
    BY <1>2, <2>1, <2>2, <2>3
<1>6. ASSUME NEW c \in Calls, Sweep(c)
      PROVE  Goal
  <2>1. at[c] # "idle"
    BY <1>6 DEF Sweep
  <2>2. \A x \in Offerings \ on[c] : rows'[x] = rows[x]
    BY <1>6 DEF Sweep
  <2>3. \A x \in on[c] \cap Offerings :
            \E who \in Closers : rows'[x] = Closed(rows[x], began[c], who)
    BY <1>6 DEF Sweep, Closers
  <2>4. \A x \in on[c] \cap Offerings : Changes(c, x)
    BY <2>1, <2>3 DEF Evolves, Changes
  <2>5. rows' = [x \in Offerings |-> rows'[x]]
    BY <1>6 DEF Sweep
  <2> QED
    BY <2>2, <2>4, <2>5
<1>7. ASSUME NEW c \in Calls, NEW o \in Offerings,
             BeginPost(c, o) \/ BeginPut(c, o) \/ LockPut(c, o) \/ ReadCurrent(c, o)
               \/ BeginDelete(c, o) \/ SweepLock(c, o)
      PROVE  Goal
  BY <1>1, <1>7 DEF BeginPost, BeginPut, LockPut, ReadCurrent, BeginDelete, SweepLock, table
<1>8. ASSUME NEW c \in Calls, BeginSweep(c) \/ Fail(c)
      PROVE  Goal
  BY <1>1, <1>8 DEF BeginSweep, Fail, table
<1>9. CASE Tick \/ UNCHANGED vars
  BY <1>1, <1>9 DEF Tick, table, vars
<1>10. ASSUME \E c \in Calls : Step(c) PROVE Goal
  <2> HIDE DEF Goal
  <2> QED
    BY <1>3, <1>4, <1>5, <1>6, <1>7, <1>8, <1>10 DEF Step
<1> QED
  BY <1>9, <1>10 DEF Next

\* So each offering's versions stay as they should be.
LEMMA RowStep ==
    ASSUME CallType, Locks, Rows, Known, [Next]_vars
    PROVE  /\ rows' \in [Offerings -> Seq(Version)]
           /\ \A o \in Offerings : Good(rows'[o]) /\ Extends(rows[o], rows'[o])
<1>1. ASSUME NEW o \in Offerings
      PROVE  rows'[o] \in Seq(Version) /\ Good(rows'[o]) /\ Extends(rows[o], rows'[o])
  <2>1. rows[o] \in Seq(Version) /\ Good(rows[o]) /\ Len(rows[o]) \in Nat
    BY LenProperties DEF Rows, RowType
  <2>2. CASE rows'[o] = rows[o]
    BY <2>1, <2>2 DEF Extends
  <2>3. ASSUME NEW c \in Calls, Changes(c, o)
        PROVE  rows'[o] \in Seq(Version) /\ Good(rows'[o]) /\ Extends(rows[o], rows'[o])
    <3>1. began[c] \in Nat /\ Evolves(rows[o], rows'[o], began[c])
      BY <2>3 DEF Changes, CallType
    <3> QED
      BY <2>1, <3>1, EvolvesGood
  <2> QED
    BY <2>2, <2>3, StepEvolves
<1> QED
  BY <1>1, StepEvolves

-----------------------------------------------------------------------------
\* While a PUT is about to write, only an offboarding gets at its offering.
LEMMA Undisturbed ==
    ASSUME CallType, RowType, Locks, [Next]_vars, NEW d \in Calls, NEW x \in Offerings,
           About(d, x, {"write"})'
    PROVE  \/ /\ About(d, x, {"write"}) /\ cur'[d] = cur[d]
              /\ \/ rows'[x] = rows[x]
                 \/ \E t \in Nat : rows'[x] = Closed(rows[x], t, "offboard")
           \/ ReadCurrent(d, x)
<1> DEFINE Kept == About(d, x, {"write"}) /\ cur'[d] = cur[d]
<1>1. ASSUME NEW c \in Calls, Release(c), on'[c] = {},
             \A e \in Calls \ {c} : on'[e] = on[e] \/ at[e] = "sweep"
      PROVE  Kept /\ d # c
  <2>1. at'[c] = "idle" /\ \A e \in Calls \ {c} : at'[e] = at[e] /\ cur'[e] = cur[e]
    BY <1>1, ReleaseType DEF CallType
  <2> QED
    BY <1>1, <2>1 DEF About
<1>2. CASE Tick \/ UNCHANGED vars
  BY <1>2 DEF Tick, vars, table, call, About
<1>3. ASSUME NEW c \in Calls, NEW stmt, NEW s, stmt # "write", Begin(c, stmt, s),
             UNCHANGED <<rows, cur>>
      PROVE  Kept /\ rows'[x] = rows[x]
  BY <1>3 DEF Begin, About, CallType
<1>4. ASSUME NEW c \in Calls, NEW o \in Offerings,
             BeginPost(c, o) \/ BeginPut(c, o) \/ BeginDelete(c, o)
      PROVE  Kept /\ rows'[x] = rows[x]
  BY <1>3, <1>4 DEF BeginPost, BeginPut, BeginDelete, table
<1>5. ASSUME NEW c \in Calls, BeginSweep(c)
      PROVE  Kept /\ rows'[x] = rows[x]
  BY <1>3, <1>5 DEF BeginSweep, table
<1>6. ASSUME NEW c \in Calls, NEW o \in Offerings, LockPut(c, o) \/ SweepLock(c, o)
      PROVE  Kept /\ rows'[x] = rows[x]
  BY <1>6 DEF LockPut, SweepLock, table, About, CallType
<1>7. ASSUME NEW c \in Calls, NEW o \in Offerings, Post(c, o)
      PROVE  Kept /\ rows'[x] = rows[x]
  <2>1. Kept /\ d # c
    BY <1>1, <1>7, EndOn DEF Post
  <2>2. x # o
    BY <1>7, <2>1 DEF Post, Locks, Existing, About
  <2> QED
    BY <1>7, <2>1, <2>2 DEF Post
<1>8. ASSUME NEW c \in Calls, NEW o \in Offerings, ReadCurrent(c, o)
      PROVE  (Kept /\ rows'[x] = rows[x]) \/ ReadCurrent(d, x)
  <2>1. CASE c = d
    BY <1>8, <2>1 DEF ReadCurrent, About
  <2>2. CASE c # d
    BY <1>8, <2>2 DEF ReadCurrent, About, table, CallType
  <2> QED
    BY <2>1, <2>2
<1>9. ASSUME NEW c \in Calls, NEW o \in Offerings,
             NEW st \in {"keep", "active", "discontinued"}, Write(c, o, st)
      PROVE  Kept /\ rows'[x] = rows[x]
  <2>1. /\ About(c, o, {"write"})
        /\ \/ Commit(c, o) /\ rows' = [rows EXCEPT ![o] = Rotated(rows[o], cur[c], began[c])]
           \/ End(c) /\ UNCHANGED rows
    BY <1>9 DEF Write, About, table
  <2>2. Kept /\ d # c
    BY <1>1, <2>1, EndOn, CommitOn
  <2>3. x # o
    BY <2>1, <2>2 DEF Locks, Held, About
  <2> QED
    BY <2>1, <2>2, <2>3 DEF RowType
<1>10. ASSUME NEW c \in Calls, NEW o \in Offerings, Delete(c, o)
       PROVE  Kept /\ rows'[x] = rows[x]
  <2>1. Kept
    BY <1>1, <1>10, EndOn DEF Delete
  <2>2. x # o
    BY <1>10, <2>1, NoneIsNoCall DEF Delete, Locks, Held, About
  <2> QED
    BY <1>10, <2>1, <2>2 DEF Delete
<1>11. ASSUME NEW c \in Calls, Sweep(c)
       PROVE  /\ Kept
              /\ \/ rows'[x] = rows[x]
                 \/ \E t \in Nat : rows'[x] = Closed(rows[x], t, "offboard")
  <2>1. Kept /\ d # c
    BY <1>1, <1>11, EndOn DEF Sweep
  <2>2. lock[x] # c /\ began[c] \in Nat
    BY <2>1 DEF Locks, Held, About, CallType
  <2>3. rows'[x] = rows[x] \/ rows'[x] = Closed(rows[x], began[c], "offboard")
    BY <1>11, <2>2 DEF Sweep
  <2> QED
    BY <2>1, <2>2, <2>3
<1>12. ASSUME NEW c \in Calls, Fail(c)
       PROVE  Kept /\ rows'[x] = rows[x]
  BY <1>1, <1>12, EndOn DEF Fail, table
<1>13. CASE \E c \in Calls : Step(c)
  BY <1>4, <1>5, <1>6, <1>7, <1>8, <1>9, <1>10, <1>11, <1>12, <1>13 DEF Step
<1> QED
  BY <1>2, <1>13 DEF Next

\* A version a PUT has read stays the last one when an offboarding closes it.
LEMMA CurrentClosed ==
    ASSUME NEW q \in Seq(Version), NEW t \in Nat, NEW i, Current(q, i)
    PROVE  Current(Closed(q, t, "offboard"), i)
<1> DEFINE r == Closed(q, t, "offboard")
<1>1. /\ Len(r) = Len(q)
      /\ \A j \in 1..Len(q) :
           /\ q[j].to = Open => Shut(q[j], r[j], t, "offboard")
           /\ q[j].to # Open => r[j] = q[j]
  BY ClosedRows DEF Closers
<1>2. Len(q) \in Nat
  BY LenProperties
<1> HIDE DEF r
<1>3. ASSUME i = 0 PROVE Current(r, i)
  BY <1>1, <1>2, <1>3 DEF Current
<1>4. ASSUME i # 0 PROVE Current(r, i)
  <2>1. i = Len(q) /\ i \in 1..Len(q) /\ (q[i].to = Open \/ q[i].by = "offboard")
    BY <1>2, <1>4 DEF Current
  <2>2. r[i].by = "offboard"
    BY <1>1, <2>1 DEF Shut
  <2> QED
    BY <1>1, <1>2, <1>4, <2>1, <2>2 DEF Current
<1> QED
  BY <1>3, <1>4 DEF r

\* A PUT that is about to write still knows the last version.
LEMMA StepKnown ==
    ASSUME CallType, Locks, Rows, Known, [Next]_vars
    PROVE  Known'
<1> SUFFICES ASSUME NEW d \in Calls, NEW x \in Offerings, About(d, x, {"write"})'
             PROVE  Current(rows'[x], cur'[d])
  BY DEF Known
<1>1. rows[x] \in Seq(Version) /\ Good(rows[x]) /\ Len(rows[x]) \in Nat
  BY LenProperties DEF Rows, RowType
<1>2. CASE About(d, x, {"write"}) /\ cur'[d] = cur[d]
           /\ (rows'[x] = rows[x] \/ \E t \in Nat : rows'[x] = Closed(rows[x], t, "offboard"))
  BY <1>1, <1>2, CurrentClosed DEF Known
<1>3. CASE ReadCurrent(d, x)
  <2>1. PICK i \in OpenRows(rows[x]) \cup {0} :
            (i = 0 => OpenRows(rows[x]) = {}) /\ cur' = [cur EXCEPT ![d] = i]
    BY <1>3 DEF ReadCurrent
  <2>2. cur'[d] = i /\ rows'[x] = rows[x]
    BY <1>3, <2>1 DEF ReadCurrent, table, CallType
  <2>3. \A j : j \in OpenRows(rows[x]) <=> j \in 1..Len(rows[x]) /\ rows[x][j].to = Open
    BY <1>1 DEF OpenRows
  <2>4. Current(rows[x], i)
    BY <1>1, <2>1, <2>3 DEF Current, Good
  <2> QED
    BY <2>2, <2>4
<1> QED
  BY <1>2, <1>3, Undisturbed DEF Rows

-----------------------------------------------------------------------------
\* An offering without a row has no versions.
LEMMA StepUnlisted ==
    ASSUME CallType, Locks, Rows, Known, [Next]_vars, NEW x \in Offerings, ~ Exists(x)'
    PROVE  rows'[x] = <<>>
<1>1. CASE Tick \/ UNCHANGED vars
  BY <1>1 DEF Tick, vars, table, Rows, Exists
<1>2. ASSUME NEW c \in Calls, NEW o \in Offerings,
             BeginPost(c, o) \/ BeginPut(c, o) \/ LockPut(c, o) \/ ReadCurrent(c, o)
               \/ BeginDelete(c, o) \/ SweepLock(c, o)
      PROVE  rows'[x] = <<>>
  BY <1>2 DEF BeginPost, BeginPut, LockPut, ReadCurrent, BeginDelete, SweepLock, table,
              Rows, Exists
<1>3. ASSUME NEW c \in Calls, BeginSweep(c) \/ Fail(c)
      PROVE  rows'[x] = <<>>
  BY <1>3 DEF BeginSweep, Fail, table, Rows, Exists
<1>4. ASSUME NEW c \in Calls, NEW o \in Offerings, Post(c, o)
      PROVE  rows'[x] = <<>>
  BY <1>4 DEF Post, Rows, RowType, Exists, CallType
<1>5. ASSUME NEW c \in Calls, NEW o \in Offerings,
             NEW st \in {"keep", "active", "discontinued"}, Write(c, o, st)
      PROVE  rows'[x] = <<>>
  <2>1. Exists(o)
    BY <1>5 DEF Write, Locks, Existing, About
  <2>2. /\ \/ UNCHANGED status
           \/ status' = [status EXCEPT ![o] = IF st = "keep" THEN @ ELSE st]
        /\ \/ UNCHANGED rows
           \/ rows' = [rows EXCEPT ![o] = Rotated(rows[o], cur[c], began[c])]
    BY <1>5 DEF Write, table
  <2>3. x # o
    BY <2>1, <2>2 DEF Exists, CallType
  <2> QED
    BY <2>2, <2>3 DEF Rows, RowType, Exists, CallType
<1>6. ASSUME NEW c \in Calls, NEW o \in Offerings, Delete(c, o)
      PROVE  rows'[x] = <<>>
  BY <1>6 DEF Delete, Rows, RowType, Exists, CallType
<1>7. ASSUME NEW c \in Calls, Sweep(c)
      PROVE  rows'[x] = <<>>
  <2>1. rows[x] = <<>>
    BY <1>7 DEF Sweep, Exists, Rows
  <2>2. \A t, who : Closed(<<>>, t, who) = <<>>
    BY DEF Closed
  <2> QED
    BY <1>7, <2>1, <2>2 DEF Sweep
<1> QED
  BY <1>1, <1>2, <1>3, <1>4, <1>5, <1>6, <1>7 DEF Next, Step

-----------------------------------------------------------------------------
\* A step lists no offering without a price.
LEMMA Priced ==
    ASSUME NEW q \in Seq(Version), NEW i \in 0..Len(q), NEW t \in Nat
    PROVE  LET r == Rotated(q, i, t) IN r # <<>> /\ r[Len(r)].to = Open
<1> DEFINE r == Rotated(q, i, t)
<1>1. Rotation(q, i, t, r)
  BY RotatedRows
<1> HIDE DEF r
<1>2. Len(q) \in Nat /\ Len(r) = Len(q) + 1
      /\ (r[Len(q) + 1] = Fresh(1, t) \/ r[Len(q) + 1] = Fresh(q[i].version + 1, t))
  BY <1>1, LenProperties DEF Rotation
<1>3. r # <<>>
  BY <1>2
<1>4. r[Len(r)].to = Open
  BY <1>2 DEF Fresh
<1> QED
  BY <1>3, <1>4 DEF r

\* The listing and the versions go on agreeing.
LEMMA StepListed ==
    ASSUME CallType, Locks, Rows, Known, ListedHasPrice, [Next]_vars
    PROVE  ListedHasPrice'
<1> DEFINE HasPrice(q) == q # <<>> /\ (q[Len(q)].to = Open \/ q[Len(q)].by = "offboard")
<1> SUFFICES ASSUME NEW x \in Offerings, status'[x] = "active" PROVE HasPrice(rows'[x])
  BY DEF ListedHasPrice
<1>1. CASE status'[x] = status[x] /\ rows'[x] = rows[x]
  BY <1>1 DEF ListedHasPrice
<1>2. ASSUME NEW c \in Calls, NEW o \in Offerings, Post(c, o)
      PROVE  HasPrice(rows'[x])
  <2>1. CASE x = o
    <3>1. rows'[x] = <<Fresh(1, began[c])>> /\ began[c] \in Nat
      BY <1>2, <2>1 DEF Post, Rows, RowType, CallType
    <3> QED
      BY <3>1, FirstRow DEF Fresh
  <2>2. CASE x # o
    BY <1>1, <1>2, <2>2 DEF Post, Rows, RowType, CallType
  <2> QED
    BY <2>1, <2>2
<1>3. ASSUME NEW c \in Calls, NEW o \in Offerings,
             NEW st \in {"keep", "active", "discontinued"}, Write(c, o, st)
      PROVE  HasPrice(rows'[x])
  <2>1. \/ /\ rows' = [rows EXCEPT ![o] = Rotated(rows[o], cur[c], began[c])]
           /\ status' = [status EXCEPT ![o] = IF st = "keep" THEN @ ELSE st]
        \/ UNCHANGED table
    BY <1>3 DEF Write
  <2>2. Current(rows[o], cur[c]) /\ began[c] \in Nat /\ rows[o] \in Seq(Version)
    BY <1>3 DEF Write, Known, About, CallType, Rows, RowType
  <2>3. CASE x = o /\ rows' = [rows EXCEPT ![o] = Rotated(rows[o], cur[c], began[c])]
    <3>1. rows'[x] = Rotated(rows[x], cur[c], began[c]) /\ cur[c] \in 0..Len(rows[x])
      BY <2>2, <2>3 DEF Rows, RowType, Current
    <3> QED
      BY <2>2, <2>3, <3>1, Priced
  <2> QED
    BY <1>1, <2>1, <2>3 DEF table, CallType, Rows, RowType
<1>4. ASSUME NEW c \in Calls, NEW o \in Offerings, Delete(c, o)
      PROVE  HasPrice(rows'[x])
  BY <1>1, <1>4 DEF Delete, CallType, Rows, RowType
<1>5. ASSUME NEW c \in Calls, Sweep(c)
      PROVE  HasPrice(rows'[x])
  <2>1. status[x] = "active" /\ lock[x] # c
    BY <1>5 DEF Sweep
  <2>2. rows'[x] = rows[x] \/ rows'[x] = Closed(rows[x], began[c], "offboard")
    BY <1>5, <2>1 DEF Sweep
  <2>3. HasPrice(rows[x]) /\ rows[x] \in Seq(Version) /\ began[c] \in Nat
    BY <2>1 DEF ListedHasPrice, Rows, RowType, CallType
  <2>4. ASSUME rows'[x] = Closed(rows[x], began[c], "offboard")
        PROVE  HasPrice(rows'[x])
    <3>1. Len(rows[x]) \in Nat \ {0} /\ Len(rows'[x]) = Len(rows[x])
          /\ Current(rows[x], Len(rows[x]))
      BY <2>3, <2>4, ClosedRows, LenProperties, EmptySeq DEF Closers, Current
    <3>2. Current(rows'[x], Len(rows'[x]))
      BY <2>3, <2>4, <3>1, CurrentClosed
    <3>3. rows'[x] # <<>>
      BY <3>1
    <3> QED
      BY <3>1, <3>2, <3>3 DEF Current
  <2> QED
    BY <2>2, <2>3, <2>4
<1>6. ASSUME NEW c \in Calls, NEW o \in Offerings,
             BeginPost(c, o) \/ BeginPut(c, o) \/ LockPut(c, o) \/ ReadCurrent(c, o)
               \/ BeginDelete(c, o) \/ SweepLock(c, o)
      PROVE  HasPrice(rows'[x])
  BY <1>1, <1>6 DEF BeginPost, BeginPut, LockPut, ReadCurrent, BeginDelete, SweepLock, table
<1>7. ASSUME NEW c \in Calls, BeginSweep(c) \/ Fail(c)
      PROVE  HasPrice(rows'[x])
  BY <1>1, <1>7 DEF BeginSweep, Fail, table
<1>8. CASE Tick \/ UNCHANGED vars
  BY <1>1, <1>8 DEF Tick, table, vars
<1>9. ASSUME \E c \in Calls : Step(c) PROVE HasPrice(rows'[x])
  <2> HIDE DEF HasPrice
  <2> QED
    BY <1>2, <1>3, <1>4, <1>5, <1>6, <1>7, <1>9 DEF Step
<1> QED
  BY <1>8, <1>9 DEF Next

-----------------------------------------------------------------------------
\* The invariant that carries the theorems.
Inv == CallType /\ Locks /\ Rows /\ Known /\ ListedHasPrice

\* The empty tables satisfy the invariant.
LEMMA InitInv == Init => Inv
<1> SUFFICES ASSUME Init PROVE Inv
  OBVIOUS
<1>1. CallType /\ Locks
  BY InitLocks
<1>2. \A o \in Offerings : rows[o] = <<>>
  BY DEF Init
<1>3. Rows
  BY <1>2 DEF Init, Rows, RowType, Good
<1>4. Known /\ ListedHasPrice
  BY DEF Init, Known, About, ListedHasPrice
<1> QED
  BY <1>1, <1>3, <1>4 DEF Inv

\* Every step preserves the invariant.
LEMMA StepInv == Inv /\ [Next]_vars => Inv'
<1> SUFFICES ASSUME Inv, [Next]_vars PROVE Inv'
  OBVIOUS
<1>1. CallType /\ Locks /\ Rows /\ Known /\ ListedHasPrice /\ RowType
  BY DEF Inv, Rows
<1>2. CallType' /\ Locks'
  BY <1>1, StepCallType, StepLocks
<1>3. RowType' /\ \A o \in Offerings : Good(rows[o])'
  BY <1>1, RowStep DEF RowType
<1>4. \A x \in Offerings : ~ Exists(x)' => rows'[x] = <<>>
  BY <1>1, StepUnlisted
<1>5. Rows'
  BY <1>3, <1>4 DEF Rows, Exists
<1>6. Known' /\ ListedHasPrice'
  BY <1>1, StepKnown, StepListed
<1> QED
  BY <1>2, <1>5, <1>6 DEF Inv

\* The inductive invariant holds for any offerings, calls and bounds.
THEOREM SpecInv == Spec => []Inv
  BY InitInv, StepInv, PTL DEF Spec

\* Every value has its type, whatever transactions meet.
THEOREM TypeCorrect == Spec => []TypeOK
<1>1. Inv => TypeOK
  BY DEF Inv, Rows, RowType, CallType, Stmts, TypeOK
<1> QED
  BY <1>1, SpecInv, PTL

\* "No gap, no overlap" of scm-offerings.js, for any number of offerings,
\* versions and transactions: what the row lock keeps of it.
THEOREM ChainHolds == Spec => []Chain
<1>1. Inv => Chain
  <2> SUFFICES ASSUME Inv, NEW o \in Offerings, NEW i \in 1..(Len(rows[o]) - 1)
               PROVE  /\ rows[o][i].to # Open
                      /\ \/ /\ rows[o][i + 1].version = rows[o][i].version + 1
                            /\ rows[o][i + 1].from = rows[o][i].to
                         \/ rows[o][i + 1].version = 1
                            /\ rows[o][i].by \in {"delete", "offboard"}
    BY DEF Chain
  <2> QED
    BY DEF Inv, Rows, Good, Closers
<1> QED
  BY <1>1, SpecInv, PTL

\* The listing and the price versions agree after every transaction.
THEOREM ListedOfferingsHavePrices == Spec => []ListedHasPrice
  BY SpecInv, PTL DEF Inv

\* What is closed stays as it is, but for versions an offboarding closed under
\* a PUT that held the lock.
THEOREM VersionsStay == Spec => VersionsAreImmutable
<1>1. Inv /\ [Next]_vars =>
        [\A o \in Offerings : \A i \in DOMAIN rows[o] :
            /\ i \in DOMAIN rows'[o]
            /\ rows[o][i].to # Open /\ rows[o][i].by # "offboard" =>
                   rows'[o][i] = rows[o][i]]_vars
  <2> SUFFICES ASSUME Inv, [Next]_vars, NEW o \in Offerings, NEW i \in DOMAIN rows[o]
               PROVE  /\ i \in DOMAIN rows'[o]
                      /\ rows[o][i].to # Open /\ rows[o][i].by # "offboard" =>
                             rows'[o][i] = rows[o][i]
    OBVIOUS
  <2>1. /\ rows[o] \in Seq(Version) /\ rows'[o] \in Seq(Version)
        /\ Extends(rows[o], rows'[o])
    BY RowStep DEF Inv, Rows, RowType
  <2>2. /\ DOMAIN rows[o] = 1..Len(rows[o]) /\ DOMAIN rows'[o] = 1..Len(rows'[o])
        /\ Len(rows[o]) \in Nat /\ Len(rows'[o]) \in Nat
    BY <2>1, LenProperties
  <2> QED
    BY <2>1, <2>2 DEF Extends
<1> QED
  BY <1>1, SpecInv, PTL DEF Spec, VersionsAreImmutable

-----------------------------------------------------------------------------
\* SerialPeriods, row by row, and what it needs: times are not ahead of the
\* clock, nor of whoever is alone with the offering.
Serial(q) ==
    /\ \A i \in 1..Len(q) : q[i].to # Open => q[i].from <= q[i].to
    /\ \A i \in 1..(Len(q) - 1) : q[i].to <= q[i + 1].from

Before(q, t) ==
    \A i \in 1..Len(q) : q[i].from <= t /\ (q[i].to # Open => q[i].to <= t)

Busy(c, o) == at[c] # "idle" /\ o \in on[c]

InTime ==
    /\ \A o \in Offerings \ raced : Serial(rows[o]) /\ Before(rows[o], now)
    /\ \A c \in Calls, o \in Offerings \ raced :
        Busy(c, o) => Before(rows[o], began[c])

Alone ==
    \A c, d \in Calls, o \in Offerings \ raced : Busy(c, o) /\ Busy(d, o) => c = d

Clock == \A c \in Calls : began[c] <= now

\* A change at a time no earlier than all others keeps the periods in order.
LEMMA EvolvesSerial ==
    ASSUME NEW q \in Seq(Version), NEW r, NEW t \in Nat, Good(q), Serial(q), Before(q, t),
           Evolves(q, r, t)
    PROVE  Serial(r) /\ Before(r, t)
<1>1. Len(q) \in Nat /\ \A i \in 1..Len(q) : q[i] \in Version
  BY LenProperties, ElementOfSeq
<1>2. \A i \in 1..Len(q) : q[i].from \in Nat /\ (q[i].to \in Nat \/ q[i].to = Open)
  BY <1>1 DEF Version
<1>3. ASSUME NEW who \in Closers, r = Closed(q, t, who)
      PROVE  Serial(r) /\ Before(r, t)
  <2>1. /\ Len(r) = Len(q)
        /\ \A i \in 1..Len(q) : /\ q[i].to = Open => Shut(q[i], r[i], t, who)
                                /\ q[i].to # Open => r[i] = q[i]
    BY <1>3, ClosedRows
  <2>2. \A i \in 1..Len(q) : r[i].from = q[i].from
    BY <2>1 DEF Shut
  <2>3. \A i \in 1..Len(q) : q[i].to = Open => r[i].to = t
    BY <2>1 DEF Shut
  <2>4. \A i \in 1..(Len(q) - 1) : r[i].to = q[i].to
    BY <1>1, <2>1 DEF Good
  <2>5. \A i \in 1..Len(q) : q[i].to # Open => r[i].to = q[i].to
    BY <2>1
  <2>6. Before(r, t)
    BY <1>1, <1>2, <2>1, <2>2, <2>3, <2>5 DEF Before
  <2>7. \A i \in 1..Len(r) : r[i].to # Open => r[i].from <= r[i].to
    BY <1>1, <1>2, <2>1, <2>2, <2>3, <2>5 DEF Serial, Before
  <2>8. \A i \in 1..(Len(r) - 1) : r[i].to <= r[i + 1].from
    BY <1>1, <2>1, <2>2, <2>4 DEF Serial
  <2> QED
    BY <2>6, <2>7, <2>8 DEF Serial
<1>4. ASSUME NEW i \in 0..Len(q), Current(q, i), r = Rotated(q, i, t)
      PROVE  Serial(r) /\ Before(r, t)
  <2>1. /\ Len(r) = Len(q) + 1
        /\ r[Len(q) + 1] = Fresh(1, t) \/ r[Len(q) + 1] = Fresh(q[i].version + 1, t)
        /\ \A j \in 1..Len(q) :
             (j = i => Shut(q[j], r[j], t, "put")) /\ (j # i => r[j] = q[j])
    <3>1. Rotation(q, i, t, r)
      BY <1>4, RotatedRows
    <3> QED
      BY <3>1 DEF Rotation
  <2>2. r[Len(q) + 1].to = Open /\ r[Len(q) + 1].from = t
    BY <2>1 DEF Fresh
  <2>3. \A j \in 1..Len(q) : r[j].from = q[j].from /\ (j = i => r[j].to = t)
    BY <2>1 DEF Shut
  <2>4. \A j \in 1..Len(q) : j # i => r[j].to = q[j].to
    BY <2>1
  <2>5. i # 0 => i = Len(q)
    BY <1>4 DEF Current
  <2>6. Len(q) # 0 => r[Len(q)].to \in Nat /\ r[Len(q)].to <= t /\ r[Len(q)].from <= r[Len(q)].to
    <3>1. CASE Len(q) # 0 /\ i = 0
      BY <1>1, <1>2, <1>4, <2>3, <2>4, <3>1 DEF Current, Serial, Before
    <3>2. CASE Len(q) # 0 /\ i # 0
      BY <1>1, <1>2, <2>3, <2>5, <3>2 DEF Before
    <3> QED
      BY <3>1, <3>2
  <2>7. \A j \in 1..(Len(q) - 1) :
           r[j].to = q[j].to /\ r[j].to \in Nat /\ r[j].from = q[j].from
    BY <1>1, <1>2, <2>3, <2>4, <2>5 DEF Good
  <2>8. Before(r, t)
    BY <1>1, <1>2, <2>1, <2>2, <2>3, <2>6, <2>7 DEF Before
  <2>9. ASSUME NEW j \in 1..Len(r), r[j].to # Open
        PROVE  r[j].from <= r[j].to
    BY <1>1, <1>2, <2>1, <2>2, <2>6, <2>7, <2>9 DEF Serial
  <2>10. ASSUME NEW j \in 1..(Len(r) - 1)
         PROVE  r[j].to <= r[j + 1].from
    <3>1. CASE j < Len(q)
      BY <1>1, <2>3, <2>7, <3>1 DEF Serial
    <3>2. CASE j = Len(q)
      BY <1>1, <2>1, <2>2, <2>6, <3>2
    <3> QED
      BY <1>1, <2>1, <3>1, <3>2
  <2> QED
    BY <2>8, <2>9, <2>10 DEF Serial
<1>5. ASSUME q = <<>>, r = <<Fresh(1, t)>>
      PROVE  Serial(r) /\ Before(r, t)
  <2>1. Len(r) = 1 /\ r[1] = Fresh(1, t)
    BY <1>5, FirstRow
  <2> QED
    BY <2>1 DEF Serial, Before, Fresh
<1> QED
  BY <1>3, <1>4, <1>5 DEF Evolves

\* Either a transaction begins, or no one becomes busy and the clock may tick.
Goes ==
    /\ now' = now \/ now' = now + 1
    /\ raced' = raced
    /\ \A d \in Calls, o \in Offerings : Busy(d, o)' => Busy(d, o) /\ began'[d] = began[d]
    /\ \A d \in Calls : began'[d] = began[d] \/ began'[d] = 0

\* A step lets a transaction begin, or no more of them are in flight afterwards.
LEMMA StepBusy ==
    ASSUME CallType, [Next]_vars
    PROVE  \/ \E c \in Calls, stmt \in Stmts, s \in SUBSET Offerings :
                 Begin(c, stmt, s) /\ UNCHANGED <<now, rows>>
           \/ Goes
<1> DEFINE Starts == \E c \in Calls, stmt \in Stmts, s \in SUBSET Offerings :
                        Begin(c, stmt, s) /\ UNCHANGED <<now, rows>>
<1>1. ASSUME NEW c \in Calls, Release(c), on'[c] = {},
             \A d \in Calls \ {c} : on'[d] \subseteq on[d]
      PROVE  Goes
  <2>1. /\ now' = now /\ raced' = raced /\ at'[c] = "idle" /\ began'[c] = 0
        /\ \A d \in Calls \ {c} : at'[d] = at[d] /\ began'[d] = began[d]
    BY <1>1, ReleaseType DEF CallType
  <2> QED
    BY <1>1, <2>1 DEF Goes, Busy
<1>2. ASSUME NEW c \in Calls, End(c) PROVE Goes
  BY <1>1, <1>2, EndOn
<1>3. ASSUME NEW c \in Calls, NEW o \in Offerings, Commit(c, o) PROVE Goes
  BY <1>1, <1>3, CommitOn
<1>4. CASE Tick \/ UNCHANGED vars
  BY <1>4 DEF Tick, vars, table, call, Goes, Busy
<1>5. ASSUME NEW c \in Calls, NEW o \in Offerings,
             BeginPost(c, o) \/ BeginPut(c, o) \/ BeginDelete(c, o)
      PROVE  Starts
  BY <1>5 DEF BeginPost, BeginPut, BeginDelete, table, Stmts
<1>6. ASSUME NEW c \in Calls, BeginSweep(c) PROVE Starts
  BY <1>6 DEF BeginSweep, table, Stmts
<1>7. ASSUME NEW c \in Calls, NEW o \in Offerings,
             LockPut(c, o) \/ ReadCurrent(c, o) \/ SweepLock(c, o)
      PROVE  Goes
  BY <1>7 DEF LockPut, ReadCurrent, SweepLock, table, CallType, Goes, Busy
<1>8. ASSUME NEW c \in Calls, NEW o \in Offerings,
             Post(c, o) \/ Delete(c, o)
               \/ \E st \in {"keep", "active", "discontinued"} : Write(c, o, st)
      PROVE  Goes
  BY <1>2, <1>3, <1>8 DEF Post, Delete, Write
<1>9. ASSUME NEW c \in Calls, Sweep(c) \/ Fail(c) PROVE Goes
  BY <1>2, <1>9 DEF Sweep, Fail
<1>10. ASSUME \E c \in Calls : Step(c) PROVE Starts \/ Goes
  <2> HIDE DEF Starts
  <2> QED
    BY <1>5, <1>6, <1>7, <1>8, <1>9, <1>10 DEF Step
<1> QED
  BY <1>4, <1>10 DEF Next

\* While transactions about an offering do not overlap, their times do not go back.
LEMMA StepTimes ==
    ASSUME Inv, InTime, Alone, Clock, [Next]_vars
    PROVE  InTime' /\ Alone' /\ Clock'
<1>1. CallType /\ Locks /\ Rows /\ Known /\ now \in Nat /\ \A c \in Calls : began[c] \in Nat
  BY DEF Inv, CallType
<1>2. \A o \in Offerings : rows[o] \in Seq(Version) /\ Good(rows[o]) /\ Len(rows[o]) \in Nat
  BY <1>1, LenProperties DEF Rows, RowType
<1>3. ASSUME NEW c \in Calls, NEW stmt \in Stmts, NEW s \in SUBSET Offerings,
             Begin(c, stmt, s), UNCHANGED <<now, rows>>
      PROVE  InTime' /\ Alone' /\ Clock'
  <2>1. /\ raced \subseteq raced' /\ began'[c] = now
        /\ \A d \in Calls \ {c} : /\ began'[d] = began[d]
                                  /\ \A o \in Offerings : Busy(d, o)' = Busy(d, o)
    BY <1>1, <1>3 DEF Begin, CallType, Busy
  <2>2. \A o \in Offerings \ raced' : Busy(c, o)' =>
            \A d \in Calls \ {c} : ~ Busy(d, o)
    BY <1>1, <1>3 DEF Begin, CallType, Busy
  <2>3. InTime'
    BY <1>3, <2>1 DEF InTime
  <2>4. Alone'
    BY <2>1, <2>2 DEF Alone
  <2>5. Clock'
    BY <1>1, <1>3, <2>1 DEF Clock
  <2> QED
    BY <2>3, <2>4, <2>5
<1>4. ASSUME Goes PROVE InTime' /\ Alone' /\ Clock'
  <2>1. Alone'
    BY <1>4 DEF Goes, Alone
  <2>2. Clock'
    BY <1>1, <1>4 DEF Goes, Clock
  <2>3. ASSUME NEW q \in Seq(Version), Len(q) \in Nat, NEW t \in Nat, NEW u \in Nat,
               t <= u, Before(q, t)
        PROVE  Before(q, u)
    <3>1. \A i \in 1..Len(q) : q[i] \in Version
      BY <2>3, ElementOfSeq
    <3>2. \A i \in 1..Len(q) : q[i].from \in Nat /\ (q[i].to \in Nat \/ q[i].to = Open)
      BY <3>1 DEF Version
    <3> QED
      BY <2>3, <3>2 DEF Before
  <2>4. ASSUME NEW o \in Offerings \ raced'
        PROVE  /\ Serial(rows'[o]) /\ Before(rows'[o], now')
               /\ \A d \in Calls : Busy(d, o)' => Before(rows'[o], began'[d])
    <3>1. /\ o \in Offerings \ raced /\ now' \in Nat /\ now <= now'
          /\ \A d \in Calls : Busy(d, o)' => Busy(d, o) /\ began'[d] = began[d]
      BY <1>1, <1>4 DEF Goes
    <3>2. CASE rows'[o] = rows[o]
      BY <1>1, <1>2, <2>3, <3>1, <3>2 DEF InTime
    <3>3. ASSUME NEW c \in Calls, Changes(c, o)
          PROVE  /\ Serial(rows'[o]) /\ Before(rows'[o], now')
                 /\ \A d \in Calls : Busy(d, o)' => Before(rows'[o], began'[d])
      <4>1. Busy(c, o) /\ Evolves(rows[o], rows'[o], began[c])
        BY <3>3 DEF Changes, Busy
      <4>2. Serial(rows[o]) /\ Before(rows[o], began[c])
        BY <3>1, <4>1 DEF InTime
      <4>3. Serial(rows'[o]) /\ Before(rows'[o], began[c])
        BY <1>1, <1>2, <4>1, <4>2, EvolvesSerial
      <4>4. rows'[o] \in Seq(Version) /\ Len(rows'[o]) \in Nat
        BY <1>1, RowStep, LenProperties
      <4>5. Before(rows'[o], now')
        BY <1>1, <2>3, <3>1, <4>3, <4>4 DEF Clock
      <4>6. \A d \in Calls : Busy(d, o)' => d = c
        BY <3>1, <4>1 DEF Alone
      <4> QED
        BY <3>1, <4>3, <4>5, <4>6
    <3> QED
      BY <1>1, <3>2, <3>3, StepEvolves
  <2> QED
    BY <2>1, <2>2, <2>4 DEF InTime
<1> QED
  BY <1>1, <1>3, <1>4, StepBusy

\* Without another transaction about the offering its periods follow each
\* other in time.
THEOREM PeriodsAreSerial == Spec => []SerialPeriods
<1>1. Init => InTime /\ Alone /\ Clock
  BY DEF Init, InTime, Alone, Clock, Busy, Serial, Before
<1>2. Inv /\ InTime => SerialPeriods
  <2> SUFFICES ASSUME Inv, InTime, NEW o \in Offerings \ raced
               PROVE  /\ \A i \in DOMAIN rows[o] : rows[o][i].to # Open =>
                            rows[o][i].from <= rows[o][i].to
                      /\ \A i \in 1..(Len(rows[o]) - 1) : rows[o][i].to <= rows[o][i + 1].from
    BY DEF SerialPeriods
  <2>1. DOMAIN rows[o] = 1..Len(rows[o])
    BY LenProperties DEF Inv, Rows, RowType
  <2> QED
    BY <2>1 DEF InTime, Serial
<1>3. Inv /\ InTime /\ Alone /\ Clock /\ [Next]_vars => InTime' /\ Alone' /\ Clock'
  BY StepTimes
<1> QED
  BY <1>1, <1>2, <1>3, SpecInv, PTL DEF Spec
=============================================================================
