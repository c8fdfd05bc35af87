----------------------------- MODULE DedupProofs -----------------------------
(***************************************************************************)
(* The two guards against doing a thing twice.                             *)
(*                                                                         *)
(* The idempotency middleware: one effect and one response, for any number *)
(* of requests and payloads. While no row was deleted, the row's first     *)
(* owner stays its owner, so nobody else ever gets past the claim; whoever *)
(* runs without being the owner runs bare. Past a deletion, those that act *)
(* on a claim are counted against the rows inserted and deleted.           *)
(*                                                                         *)
(* The event bus: nothing delivered is lost, and what is handled again has *)
(* a reason, for any number of processes, recovery rounds and messages.    *)
(* Whoever acknowledges a message has seen it handled or has buried it;    *)
(* every loop about to call a handler has a success to account for it. And *)
(* the bus implements AtLeastOnce, step by step.                           *)
(***************************************************************************)
EXTENDS EventBus, Idempotency, FiniteSetTheorems, TLAPS

\* Types first.
LEMMA InitType == Init => TypeOK
  BY DEF Init, TypeOK, Ages, Places

\* Each of the middleware's steps keeps them.
LEMMA StepType == TypeOK /\ [Next]_vars => TypeOK'
<1> SUFFICES ASSUME TypeOK, [Next]_vars PROVE TypeOK'
  OBVIOUS
<1> USE NoneIsNoRequest DEF TypeOK, Ages, Places, Goto, DeleteRow, InsertRow, Answer, row, request
<1>1. ASSUME NEW r \in Requests, Lookup(r) PROVE TypeOK'
  BY <1>1 DEF Lookup
<1>2. ASSUME NEW r \in Requests, Replay(r) PROVE TypeOK'
  BY <1>2 DEF Replay
<1>3. ASSUME NEW r \in Requests, ReleaseStale(r) PROVE TypeOK'
  BY <1>3 DEF ReleaseStale
<1>4. ASSUME NEW r \in Requests, Claim(r) PROVE TypeOK'
  BY <1>4 DEF Claim
<1>5. ASSUME NEW r \in Requests, QueryFails(r) PROVE TypeOK'
  BY <1>5 DEF QueryFails
<1>6. ASSUME NEW r \in Requests, Run(r) PROVE TypeOK'
  BY <1>6 DEF Run
<1>7. ASSUME NEW r \in Requests, RunBare(r) PROVE TypeOK'
  BY <1>7 DEF RunBare
<1>8. ASSUME NEW r \in Requests, Save(r) PROVE TypeOK'
  BY <1>8 DEF Save, Update
<1>9. ASSUME NEW r \in Requests, SaveFails(r) PROVE TypeOK'
  BY <1>9 DEF SaveFails, Update
<1>10. ASSUME NEW r \in Requests, DropClaim(r) PROVE TypeOK'
  BY <1>10 DEF DropClaim
<1>11. ASSUME NEW r \in Requests, Crash(r) PROVE TypeOK'
  BY <1>11 DEF Crash
<1>12. CASE CleanupExpired
  BY <1>12 DEF CleanupExpired
<1>13. CASE CleanupStale
  BY <1>13 DEF CleanupStale
<1>14. CASE Tick
  BY <1>14 DEF Tick
<1>15. CASE UNCHANGED vars
  BY <1>15 DEF vars
<1> QED BY <1>1, <1>2, <1>3, <1>4, <1>5, <1>6, <1>7, <1>8, <1>9, <1>10,
           <1>11, <1>12, <1>13, <1>14, <1>15 DEF Next, Middleware, Handler

\* Every variable keeps its type, and only a row has a response or an age.
THEOREM TypeCorrect == Spec => []TypeOK
  BY InitType, StepType, PTL DEF Spec

-----------------------------------------------------------------------------
\* What request r has done so far, as long as no row was deleted: only the
\* row's owner is past its claim, with nothing saved until it saves, and unless
\* r ran bare only the owner has an effect and only the owner's response was sent, for the owner's payload.
Followed(r) ==
    /\ pc[r] \in {"run", "save", "drop"} => r = owner
    /\ pc[r] \in {"run", "save"} => saved = None
    /\ \/ bare[r]
       \/ /\ effect[r] => r = owner
          /\ body[r] # None => body[r] = owner /\ hash[r] = hash[owner]

FirstOwnerStays ==
    deletions = 0 => saved \in {None, owner} /\ \A r \in Requests : Followed(r)

\* No step but a deletion changes the owner.
LEMMA StepOwner == TypeOK /\ FirstOwnerStays /\ [Next]_vars => FirstOwnerStays'
<1> SUFFICES ASSUME TypeOK, FirstOwnerStays, [Next]_vars, deletions' = 0
             PROVE  saved' \in {None, owner'} /\ \A q \in Requests : Followed(q)'
  BY DEF FirstOwnerStays
<1> USE NoneIsNoRequest
    DEF TypeOK, Places, Followed, Goto, DeleteRow, InsertRow, Answer, row, request
<1>a. deletions = 0
  BY DEF TypeOK, Next, Middleware, Handler, Lookup, Replay, ReleaseStale, Claim, QueryFails, Save,
         SaveFails, DropClaim, Run, RunBare, Crash, CleanupExpired, CleanupStale, Tick, vars
<1>b. saved \in {None, owner} /\ \A q \in Requests : Followed(q)
  BY <1>a DEF FirstOwnerStays
<1>1. ASSUME NEW r \in Requests, Lookup(r)
      PROVE  saved' \in {None, owner'} /\ \A q \in Requests : Followed(q)'
  BY <1>1, <1>b DEF Lookup
<1>2. ASSUME NEW r \in Requests, Replay(r)
      PROVE  saved' \in {None, owner'} /\ \A q \in Requests : Followed(q)'
  BY <1>2, <1>b DEF Replay, Completed
<1>3. ASSUME NEW r \in Requests, ReleaseStale(r)
      PROVE  saved' \in {None, owner'} /\ \A q \in Requests : Followed(q)'
  BY <1>3, <1>b DEF ReleaseStale
<1>4. ASSUME NEW r \in Requests, Claim(r)
      PROVE  saved' \in {None, owner'} /\ \A q \in Requests : Followed(q)'
  BY <1>4, <1>b DEF Claim
<1>5. ASSUME NEW r \in Requests, QueryFails(r)
      PROVE  saved' \in {None, owner'} /\ \A q \in Requests : Followed(q)'
  BY <1>5, <1>b DEF QueryFails
<1>6. ASSUME NEW r \in Requests, Run(r)
      PROVE  saved' \in {None, owner'} /\ \A q \in Requests : Followed(q)'
  BY <1>6, <1>b DEF Run
<1>7. ASSUME NEW r \in Requests, RunBare(r)
      PROVE  saved' \in {None, owner'} /\ \A q \in Requests : Followed(q)'
  BY <1>7, <1>b DEF RunBare
<1>8. ASSUME NEW r \in Requests, Save(r)
      PROVE  saved' \in {None, owner'} /\ \A q \in Requests : Followed(q)'
  BY <1>8, <1>b DEF Save, Update
<1>9. ASSUME NEW r \in Requests, SaveFails(r)
      PROVE  saved' \in {None, owner'} /\ \A q \in Requests : Followed(q)'
  BY <1>9, <1>b DEF SaveFails, Update
<1>10. ASSUME NEW r \in Requests, DropClaim(r)
       PROVE  saved' \in {None, owner'} /\ \A q \in Requests : Followed(q)'
  BY <1>10, <1>b DEF DropClaim
<1>11. ASSUME NEW r \in Requests, Crash(r)
       PROVE  saved' \in {None, owner'} /\ \A q \in Requests : Followed(q)'
  BY <1>11, <1>b DEF Crash
<1>12. ASSUME CleanupExpired \/ CleanupStale PROVE FALSE
  BY <1>12 DEF CleanupExpired, CleanupStale, InProgress
<1>13. CASE Tick
  BY <1>13, <1>b DEF Tick
<1>14. CASE UNCHANGED vars
  BY <1>14, <1>b DEF vars
<1> QED BY <1>1, <1>2, <1>3, <1>4, <1>5, <1>6, <1>7, <1>8, <1>9, <1>10,
           <1>11, <1>12, <1>13, <1>14 DEF Next, Middleware, Handler

LEMMA FirstOwnerAlways == Spec => []FirstOwnerStays
<1>1. Init => FirstOwnerStays
  BY DEF Init, FirstOwnerStays, Followed
<1> QED BY <1>1, StepOwner, TypeCorrect, PTL DEF Spec

\* One effect and one response per key, whatever crashes and however requests
\* cross, until a row is deleted or a failed query lets a request run bare.
THEOREM OneEffectOneResponseHolds == Spec => []OneEffectOneResponse
<1>1. FirstOwnerStays => OneEffectOneResponse
  BY DEF FirstOwnerStays, Followed, OneEffectOneResponse
<1> QED BY <1>1, FirstOwnerAlways, PTL

-----------------------------------------------------------------------------
\* A saved response and its row stay as they are until they expire, but for a
\* late release of the claim and, after a deletion, a late response over it.
THEOREM ResponseIsKeptAlways == Spec => ResponseIsKept
<1> DEFINE Late == \E r \in Requests : ReleasedLate(r) \/ OverwrittenLate(r)
           Kept == Completed /\ ~ Expired => UNCHANGED <<owner, saved>> \/ Late
<1>1. ASSUME TypeOK, FirstOwnerStays, [Next]_vars PROVE [Kept]_vars
  <2> SUFFICES ASSUME Completed, ~ Expired PROVE UNCHANGED <<owner, saved>> \/ Late
    OBVIOUS
  <2> USE <1>1, NoneIsNoRequest
      DEF TypeOK, Places, Completed, Expired, InProgress, Goto, DeleteRow, InsertRow, Answer,
          row, request
  <2>1. ASSUME NEW r \in Requests, Lookup(r) \/ Replay(r) \/ Claim(r) \/ DropClaim(r)
        PROVE  UNCHANGED <<owner, saved>>
    BY <2>1 DEF Lookup, Replay, Claim, DropClaim
  <2>2. ASSUME NEW r \in Requests, ReleaseStale(r) PROVE Late
    BY <2>2 DEF ReleaseStale, ReleasedLate
  <2>3. ASSUME NEW r \in Requests, QueryFails(r) PROVE UNCHANGED <<owner, saved>> \/ Late
    BY <2>3 DEF QueryFails, ReleasedLate
  <2>4. ASSUME NEW r \in Requests, Handler(r) \/ Crash(r) PROVE UNCHANGED <<owner, saved>>
    BY <2>4 DEF Handler, Run, RunBare, Crash
  <2>5. ASSUME NEW r \in Requests, Save(r) \/ SaveFails(r)
        PROVE  UNCHANGED <<owner, saved>> \/ Late
    <3>1. pc[r] = "save" /\ pc'[r] # "save" /\ owner' = owner /\ saved' \in {saved, r}
      BY <2>5 DEF Save, SaveFails, Update
    <3>2. deletions # 0
      BY <3>1 DEF FirstOwnerStays, Followed
    <3> QED BY <3>1, <3>2 DEF OverwrittenLate
  <2>6. CASE CleanupExpired \/ CleanupStale \/ Tick \/ UNCHANGED vars
    BY <2>6 DEF CleanupExpired, CleanupStale, Tick, vars
  <2> HIDE DEF Late
  <2> QED BY <2>1, <2>2, <2>3, <2>4, <2>5, <2>6 DEF Next, Middleware
<1> QED BY <1>1, FirstOwnerAlways, TypeCorrect, PTL DEF Spec, ResponseIsKept

-----------------------------------------------------------------------------
\* Requests about to take effect or that have, on a claim of their own: each has
\* the row there now or one that was deleted.
Acting == {r \in Requests : pc[r] = "run" \/ (effect[r] /\ ~ bare[r])}

ClaimsCount == Cardinality(Acting) <= deletions + IF owner = None THEN 0 ELSE 1

LEMMA ActingCount ==
    /\ IsFiniteSet(Acting) /\ Cardinality(Acting) \in Nat
    /\ \A S \in SUBSET Acting : Cardinality(S) \in Nat /\ Cardinality(S) <= Cardinality(Acting)
<1>1. Acting \subseteq Requests
  BY DEF Acting
<1> QED BY <1>1, RequestsFinite, FS_Subset, FS_CardinalityType

\* Only a claim adds to them, and inserts a row; only a deletion takes a row.
LEMMA StepCount == TypeOK /\ ClaimsCount /\ [Next]_vars => ClaimsCount'
<1> SUFFICES ASSUME TypeOK, ClaimsCount, [Next]_vars PROVE ClaimsCount'
  OBVIOUS
<1> DEFINE Rows == deletions + IF owner = None THEN 0 ELSE 1
<1>a. Cardinality(Acting) <= Rows /\ Rows \in Nat
  BY DEF ClaimsCount, TypeOK
<1>b. Cardinality(Acting) \in Nat
  BY ActingCount
<1>1. ASSUME Acting' \subseteq Acting, Rows' \in Nat, Rows' >= Rows PROVE ClaimsCount'
  <2>1. Cardinality(Acting') \in Nat /\ Cardinality(Acting') <= Cardinality(Acting)
    BY <1>1, ActingCount
  <2>2. Cardinality(Acting') <= Rows'
    BY <1>1, <1>a, <1>b, <2>1
  <2> QED BY <2>2 DEF ClaimsCount
<1>2. ASSUME NEW r \in Requests, Claim(r), owner = None PROVE ClaimsCount'
  <2>1. Acting' = Acting \cup {r}
    BY <1>2 DEF Claim, TypeOK, Acting, Goto
  <2>2. Cardinality(Acting') <= Cardinality(Acting) + 1 /\ Cardinality(Acting') \in Nat
    BY <1>b, <2>1, ActingCount, FS_AddElement
  <2>3. deletions' = deletions /\ owner' # None
    BY <1>2, NoneIsNoRequest DEF Claim, InsertRow
  <2> QED BY <1>2, <1>b, <2>2, <2>3 DEF ClaimsCount, TypeOK
<1>3. ASSUME DeleteRow PROVE Rows' \in Nat /\ Rows' >= Rows
  BY <1>3 DEF DeleteRow, TypeOK
<1>4. ASSUME UNCHANGED row PROVE Rows' \in Nat /\ Rows' >= Rows
  BY <1>4, <1>a DEF row
<1>5. ASSUME NEW r \in Requests, Lookup(r) \/ Replay(r) \/ ReleaseStale(r) \/ QueryFails(r)
      PROVE  ClaimsCount'
  <2>1. Acting' \subseteq Acting
    BY <1>5 DEF Lookup, Replay, ReleaseStale, QueryFails, TypeOK, Acting, Goto
  <2>2. UNCHANGED row \/ DeleteRow \/ (owner = None /\ InsertRow(r))
    BY <1>5 DEF Lookup, Replay, ReleaseStale, QueryFails
  <2>3. owner = None /\ InsertRow(r) => Rows' \in Nat /\ Rows' >= Rows
    BY NoneIsNoRequest DEF InsertRow, TypeOK
  <2> QED BY <1>1, <1>3, <1>4, <2>1, <2>2, <2>3
<1>6. ASSUME NEW r \in Requests, Claim(r), owner # None PROVE ClaimsCount'
  <2>1. Acting' \subseteq Acting /\ UNCHANGED row
    BY <1>6 DEF Claim, TypeOK, Acting, Goto
  <2> QED BY <1>1, <1>4, <2>1
<1>7. ASSUME NEW r \in Requests, Run(r) \/ RunBare(r) \/ DropClaim(r) \/ Crash(r)
      PROVE  ClaimsCount'
  <2>1. Acting' \subseteq Acting
    BY <1>7 DEF Run, RunBare, DropClaim, Crash, TypeOK, Acting, Goto, Answer
  <2>2. UNCHANGED row \/ DeleteRow
    BY <1>7 DEF Run, RunBare, DropClaim, Crash
  <2> QED BY <1>1, <1>3, <1>4, <2>1, <2>2
<1>8. ASSUME NEW r \in Requests, Save(r) \/ SaveFails(r) PROVE ClaimsCount'
  <2>1. Acting' \subseteq Acting /\ UNCHANGED <<owner, deletions>>
    BY <1>8 DEF Save, SaveFails, TypeOK, Acting, Goto, Answer
  <2> QED BY <1>1, <1>a, <2>1
<1>9. CASE CleanupExpired \/ CleanupStale
  <2>1. Acting' \subseteq Acting /\ DeleteRow
    BY <1>9 DEF CleanupExpired, CleanupStale, Acting, request
  <2> QED BY <1>1, <1>3, <2>1
<1>10. CASE Tick \/ UNCHANGED vars
  <2>1. Acting' \subseteq Acting /\ UNCHANGED <<owner, deletions>>
    BY <1>10 DEF Tick, vars, row, request, Acting
  <2> QED BY <1>1, <1>a, <2>1
<1> HIDE DEF Rows
<1> QED BY <1>2, <1>5, <1>6, <1>7, <1>8, <1>9, <1>10 DEF Next, Middleware, Handler

\* For any number of requests, a key's handler takes effect on a claim at most
\* once more than rows were deleted: every repeat has its deleted row.
THEOREM EffectsHaveReasonsHolds == Spec => []EffectsHaveReasons
<1>1. Init => ClaimsCount
  <2>1. Init => Acting = {}
    BY DEF Init, Acting
  <2> QED BY <2>1, FS_EmptySet DEF Init, ClaimsCount
<1>2. TypeOK /\ ClaimsCount => EffectsHaveReasons
  <2> SUFFICES ASSUME TypeOK, ClaimsCount PROVE EffectsHaveReasons
    OBVIOUS
  <2> DEFINE Took == {r \in Requests : effect[r] /\ ~ bare[r]}
  <2>1. Took \in SUBSET Acting
    BY DEF Acting
  <2>2. Cardinality(Took) \in Nat /\ Cardinality(Took) <= Cardinality(Acting)
    BY <2>1, ActingCount
  <2> HIDE DEF Took
  <2>3. Cardinality(Took) <= 1 + deletions
    BY <2>2, ActingCount DEF ClaimsCount, TypeOK
  <2> QED BY <2>3 DEF Took, EffectsHaveReasons
<1> QED BY <1>1, <1>2, StepCount, TypeCorrect, PTL DEF Spec

-----------------------------------------------------------------------------
\* The least of a set of numbers.
LEMMA MinIs ==
  ASSUME NEW S, S # {}, \A x \in S : x \in Nat
  PROVE  Min(S) \in S /\ \A x \in S : Min(S) <= x
<1>1. \E x \in S : \A y \in S : ~ (<<y, x>> \in OpToRel(<, Nat))
  <2>1. S \subseteq Nat
    OBVIOUS
  <2> QED
    BY <2>1, NatLessThanWellFounded, WFMin
<1>2. PICK x \in S : \A y \in S : ~ (<<y, x>> \in OpToRel(<, Nat))
  BY <1>1
<1>3. ASSUME NEW y \in S PROVE x <= y
  <2>1. y < x => <<y, x>> \in OpToRel(<, Nat)
    BY DEF OpToRel
  <2>2. ~ (y < x)
    BY <1>2, <2>1, Zenon
  <2> QED
    BY <2>2
<1> QED
  BY <1>3 DEF Min

\* The greatest of a bounded one.
LEMMA MaxIs ==
  ASSUME NEW S, S # {}, NEW n \in Nat, \A x \in S : x \in 0..n
  PROVE  Max(S) \in S /\ \A x \in S : x <= Max(S)
<1> DEFINE R == {y \in 0..n : n - y \in S}
<1>1. R # {} /\ \A y \in R : y \in Nat
  <2>1. PICK x \in S : TRUE
    OBVIOUS
  <2>2. n - x \in 0..n /\ n - (n - x) = x
    OBVIOUS
  <2>3. n - x \in R
    BY <2>2
  <2> QED
    BY <2>3
<1>2. Min(R) \in R /\ \A y \in R : Min(R) <= y
  <2> HIDE DEF R
  <2> QED
    BY <1>1, MinIs
<1>3. PICK m \in 0..n : m = Min(R) /\ n - m \in S
  BY <1>2
<1>4. ASSUME NEW y \in S PROVE y <= n - m
  <2>1. n - y \in 0..n /\ n - (n - y) = y /\ y \in 0..n
    OBVIOUS
  <2>2. n - y \in R
    BY <2>1
  <2>3. m <= n - y
    BY <1>2, <1>3, <2>2
  <2> QED
    BY <2>1, <2>3
<1>5. \E z \in S : \A y \in S : z >= y
  BY <1>3, <1>4
<1>6. Max(S) \in S /\ \A y \in S : Max(S) >= y
  BY ONLY <1>5 DEF Max
<1> QED
  BY <1>6

\* A batch: some of the messages, the oldest one among them, and of every
\* message all older ones too.
LEMMA OldestIs ==
  ASSUME NEW S, S # {}, IsFiniteSet(S), \A x \in S : x \in Nat
  PROVE  /\ OldestOf(S) \subseteq S /\ OldestOf(S) # {}
         /\ \A m \in OldestOf(S) : \A k \in S : k < m => k \in OldestOf(S)
<1> DEFINE below(m) == {k \in S : k < m}
<1>1. OldestOf(S) = {m \in S : Cardinality(below(m)) < BatchSize}
  BY DEF OldestOf
<1>2. Min(S) \in OldestOf(S)
  <2>1. Min(S) \in S /\ \A k \in S : Min(S) <= k
    BY MinIs
  <2>2. below(Min(S)) = {}
    BY <2>1
  <2>3. Cardinality(below(Min(S))) = 0
    BY <2>2, FS_EmptySet
  <2> QED
    BY <1>1, <2>1, <2>3, Tunables
<1>3. ASSUME NEW m \in OldestOf(S), NEW k \in S, k < m
      PROVE  k \in OldestOf(S)
  <2>1. below(k) \in SUBSET below(m) /\ below(m) \in SUBSET S
    BY <1>1, <1>3
  <2>2. IsFiniteSet(below(m)) /\ IsFiniteSet(below(k))
    BY <2>1, FS_Subset
  <2>3. Cardinality(below(k)) <= Cardinality(below(m))
    BY <2>1, <2>2, FS_Subset
  <2>4. Cardinality(below(k)) \in Nat /\ Cardinality(below(m)) \in Nat
    BY <2>2, FS_CardinalityType
  <2>5. Cardinality(below(m)) < BatchSize
    BY <1>1, <1>3
  <2>6. Cardinality(below(k)) < BatchSize
    BY <2>3, <2>4, <2>5, Tunables
  <2> QED
    BY <1>1, <1>3, <2>6
<1> QED
  BY <1>1, <1>2, <1>3

\* What a poll reads is what follows in the stream, without a gap.
LEMMA PollReads ==
  ASSUME NEW l \in Loops, Poll(l), sent \in Nat, read \in 0..sent
  PROVE  /\ read' \in (read + 1)..sent
         /\ pel' = pel \cup ((read + 1)..read')
         /\ at' = [at EXCEPT ![l] = "check"] /\ UNCHANGED tries
         /\ batch' = [batch EXCEPT ![l] = (read + 1)..read']
<1> DEFINE s == OldestOf((read + 1)..sent)
<1>1. /\ (read + 1)..sent # {} /\ IsFiniteSet((read + 1)..sent)
      /\ \A x \in (read + 1)..sent : x \in Nat
  <2>1. read + 1 \in (read + 1)..sent /\ \A x \in (read + 1)..sent : x \in Nat
    BY DEF Poll
  <2>2. IsFiniteSet((read + 1)..sent)
    BY FS_Interval
  <2> QED
    BY <2>1, <2>2
<1>2. /\ s \subseteq (read + 1)..sent /\ s # {}
      /\ \A m \in s : \A k \in (read + 1)..sent : k < m => k \in s
  BY <1>1, OldestIs
<1>3. Max(s) \in s /\ \A x \in s : x <= Max(s)
  <2>1. \A x \in s : x \in 0..sent
    BY <1>2
  <2> HIDE DEF s
  <2> QED
    BY <1>2, <2>1, MaxIs
<1>4. s = (read + 1)..Max(s)
  <2> HIDE DEF s
  <2>1. PICK n \in (read + 1)..sent : n = Max(s) /\ n \in s
    BY <1>2, <1>3
  <2>2. \A x \in s : x \in (read + 1)..n
    BY <1>2, <1>3, <2>1
  <2>3. \A x \in (read + 1)..n : x \in s
    BY <1>2, <2>1
  <2> QED
    BY <2>1, <2>2, <2>3
<1>5. read' = Max(s) /\ pel' = pel \cup s /\ Take(l, s)
  BY DEF Poll
<1> HIDE DEF s
<1> QED
  BY <1>2, <1>3, <1>4, <1>5 DEF Take

-----------------------------------------------------------------------------
Awaits == {"idle", "check", "handle", "ack", "mark", "bury", "drop"}

\* A loop that has not begun with its message has not tried it, and one that is
\* to try it, or has succeeded, has a try left.
TriesFit ==
    \A l \in Loops :
        /\ at[l] \in {"idle", "check"} => tries[l] = 0
        /\ at[l] \in {"handle", "ack", "mark"} => tries[l] < MaxRetries

\* The letter being replayed is where it was found, unless the list has changed.
ReplayFits ==
    \/ replay = NoReplay
    \/ /\ replay.msg \in 1..read
       /\ moved \/ (replay.index \in 1..Len(dlq) /\ dlq[replay.index] = replay.msg)

BusInv == BusTypeOK /\ TriesFit /\ ReplayFits

\* A loop at work is working on a message of its batch.
LEMMA CurrentIs ==
  ASSUME BusTypeOK, NEW l \in Loops, at[l] # "idle"
  PROVE  Current(l) \in batch[l] /\ Current(l) \in 1..read /\ Current(l) \in Messages
<1>1. batch[l] # {} /\ batch[l] \subseteq 1..read /\ read \in Nat /\ read <= MaxSent
  BY BusBounds DEF BusTypeOK
<1>2. \A m \in batch[l] : m \in Nat
  BY <1>1
<1>3. Current(l) \in batch[l]
  BY <1>1, <1>2, MinIs DEF Current
<1> QED
  BY <1>1, <1>3, BusBounds DEF Messages

\* The types of what the loops share with nobody.
LoopTypes ==
    /\ at \in [Loops -> Awaits]
    /\ batch \in [Loops -> SUBSET (1..read)]
    /\ \A l \in Loops : batch[l] = {} <=> at[l] = "idle"
    /\ tries \in [Loops -> 0..MaxRetries]
    /\ TriesFit

\* The loop moves within its message.
LEMMA MoveKeeps ==
  ASSUME LoopTypes, NEW l \in Loops, at[l] # "idle",
         NEW s \in Awaits \ {"idle", "check"}, NEW n \in 0..MaxRetries,
         s \in {"handle", "ack", "mark"} => n < MaxRetries,
         at' = [at EXCEPT ![l] = s], tries' = [tries EXCEPT ![l] = n],
         UNCHANGED <<batch, read>>
  PROVE  LoopTypes'
  BY DEF LoopTypes, TriesFit, Awaits

\* The loop goes on with the next message.
LEMMA AdvanceKeeps ==
  ASSUME LoopTypes, NEW l \in Loops, at[l] # "idle", Advance(l), UNCHANGED read
  PROVE  LoopTypes'
<1>1. batch[l] \ {Current(l)} = {} <=> batch[l] = {Current(l)}
  BY DEF LoopTypes
<1> QED
  BY <1>1, Tunables DEF LoopTypes, TriesFit, Awaits, Advance

\* The loop takes messages, more of which may have been read by now.
LEMMA TakeKeeps ==
  ASSUME LoopTypes, NEW l \in Loops, at[l] = "idle", read \in Nat, read' \in Nat, read <= read',
         NEW s \in SUBSET (1..read'), s # {}, Take(l, s)
  PROVE  LoopTypes'
<1>1. \A k \in Loops : batch[k] \subseteq 1..read'
  BY DEF LoopTypes
<1> QED
  BY <1>1 DEF LoopTypes, TriesFit, Awaits, Take

\* The types of the bus contain those of its loops.
LEMMA LoopSplit == BusTypeOK /\ TriesFit => LoopTypes
  BY DEF BusTypeOK, LoopTypes, Awaits

\* The members of the list, and the list with one of them replaced.
LEMMA ListIs ==
  ASSUME NEW S, NEW s \in Seq(S), NEW i \in DOMAIN s
  PROVE  s[i] \in S /\ \A m \in S : [s EXCEPT ![i] = m] \in Seq(S)
<1>1. DOMAIN s = 1..Len(s) /\ Len(s) \in Nat /\ s \in [1..Len(s) -> S]
  OBVIOUS
<1>2. ASSUME NEW m \in S PROVE [s EXCEPT ![i] = m] \in [1..Len(s) -> S]
  BY <1>1
<1> QED
  BY <1>1, <1>2

\* A letter in front of the list.
LEMMA PushedIs ==
  ASSUME NEW S, dlq \in Seq(S), NEW m \in S, Pushed(m)
  PROVE  /\ dlq' \in Seq(S) /\ Len(dlq') = Len(dlq) + 1 /\ dlq'[1] = m
         /\ moved' = (replay # NoReplay)
         /\ \A i \in 1..Len(dlq) : dlq'[i + 1] = dlq[i]
  BY DEF Pushed

\* There is a poller per process and a number of recovery rounds.
LEMMA LoopsAreFinite == IsFiniteSet(Loops)
<1>1. IsFiniteSet({"poll"} \cup Rounds)
  BY BusBounds, FS_Singleton, FS_Union
<1> QED
  BY <1>1, BusBounds, FS_Product DEF Loops

\* A process that stops leaves a finite number of messages half done.
LEMMA StoppedCount ==
  ASSUME NEW p, NEW m
  PROVE  Cardinality({l \in Loops : l[1] = p /\ at[l] \in {"ack", "mark"} /\ Current(l) = m}) \in Nat
<1>1. IsFiniteSet(Loops)
  BY LoopsAreFinite
<1>2. {l \in Loops : l[1] = p /\ at[l] \in {"ack", "mark"} /\ Current(l) = m} \in SUBSET Loops
  OBVIOUS
<1> QED
  BY <1>1, <1>2, FS_Subset, FS_CardinalityType

\* One message's credit changes.
LEMMA CreditKept ==
  ASSUME credit \in [Messages -> Int], NEW m \in Messages, NEW d \in Int,
         credit' = [credit EXCEPT ![m] = @ + d]
  PROVE  /\ credit' \in [Messages -> Int]
         /\ \A k \in Messages : credit'[k] = IF k = m THEN credit[k] + d ELSE credit[k]
<1>1. credit[m] + d \in Int
  OBVIOUS
<1> QED
  BY <1>1

\* The bus starts empty.
LEMMA BusInitInv == BusInit => BusInv
<1> SUFFICES ASSUME BusInit PROVE BusInv
  OBVIOUS
<1> USE BusBounds, Tunables, MaxFaultsIsNat
<1>1. dlq \in Seq(1..read)
  BY DEF BusInit
<1>2. credit \in [Messages -> Int]
  BY DEF BusInit
<1>3. LoopTypes
  BY DEF BusInit, LoopTypes, TriesFit, Awaits
<1>4. replay \in [index : Nat, msg : 0..read]
  BY DEF BusInit, NoReplay
<1>5. moved \in BOOLEAN
  BY DEF BusInit
<1> QED
  BY <1>1, <1>2, <1>3, <1>4, <1>5 DEF BusInit, BusInv, BusTypeOK, TriesFit, ReplayFits, LoopTypes, Awaits

\* Each step keeps the types, the attempts within MaxRetries and the place of the
\* letter being replayed.
LEMMA BusStep == BusInv /\ [BusNext]_busVars => BusInv'
<1> SUFFICES ASSUME BusInv, [BusNext]_busVars PROVE BusInv'
  OBVIOUS
<1> USE BusBounds, Tunables, MaxFaultsIsNat
    DEF redis, loop, history, letter, Fault
<1>t. BusTypeOK /\ TriesFit /\ ReplayFits /\ LoopTypes
  BY LoopSplit DEF BusInv
\* The steps that leave the list of dead letters and the replay alone.
<1>k. ASSUME LoopTypes', UNCHANGED <<read, dlq, letter, sent>>,
             pel' \subseteq pel, idle' \subseteq pel', marked' \subseteq 1..read,
             memory' \in [Procs -> SUBSET (1..read)],
             handled' \subseteq 1..read, gone' \subseteq 1..read,
             credit' \in [Messages -> Int], faults' \in 0..MaxFaults
      PROVE  BusInv'
  BY <1>t, <1>k DEF BusInv, BusTypeOK, ReplayFits, LoopTypes, Awaits
<1>c. ASSUME NEW l \in Loops, at[l] # "idle"
      PROVE  Current(l) \in batch[l] /\ Current(l) \in 1..read /\ Current(l) \in Messages
  BY <1>t, <1>c, CurrentIs
<1>z. ASSUME NEW m, AckedOrNot(m) \/ UNCHANGED <<pel, idle>>
      PROVE  pel' \subseteq pel /\ idle' \subseteq pel'
  BY <1>z, <1>t DEF AckedOrNot, Acked, BusTypeOK
<1>0. CASE UNCHANGED busVars
  BY <1>0, <1>t DEF busVars, BusInv, BusTypeOK, TriesFit, ReplayFits, Loops
<1>1. CASE Publish
  BY <1>1, <1>t DEF Publish, BusInv, BusTypeOK, TriesFit, ReplayFits, Loops
<1>2. ASSUME NEW l \in Loops, Poll(l) PROVE BusInv'
  <2>1. /\ read' \in (read + 1)..sent
        /\ pel' = pel \cup ((read + 1)..read')
        /\ Take(l, (read + 1)..read')
    BY <1>2, <1>t, PollReads DEF BusTypeOK, Take
  <2>2. read \in Nat /\ read' \in Nat /\ read <= read' /\ 1..read \subseteq 1..read'
        /\ sent' = sent /\ sent \in 0..MaxSent
    BY <1>t, <1>2, <2>1 DEF BusTypeOK, Poll
  <2>3. (read + 1)..read' \subseteq 1..read' /\ (read + 1)..read' # {}
    BY <2>1, <2>2
  <2>4. LoopTypes'
    BY <1>2, <1>t, <2>1, <2>2, <2>3, TakeKeeps DEF Poll
  <2>5. dlq \in Seq(1..read')
    BY <1>t, <2>2 DEF BusTypeOK
  <2>6. UNCHANGED <<sent, idle, marked, dlq, memory, letter, history>>
    BY <1>2 DEF Poll
  <2>7. /\ pel' \subseteq 1..read' /\ idle' \subseteq pel' /\ marked' \subseteq 1..read'
        /\ handled' \subseteq 1..read' /\ gone' \subseteq 1..read'
    BY <1>t, <2>1, <2>2, <2>3, <2>6 DEF BusTypeOK
  <2>8. memory' \in [Procs -> SUBSET (1..read')] /\ dlq' \in Seq(1..read')
    BY <1>t, <2>2, <2>5, <2>6 DEF BusTypeOK
  <2>9. replay' \in [index : Nat, msg : 0..read'] /\ moved' \in BOOLEAN /\ ReplayFits'
    BY <1>t, <2>2, <2>6 DEF BusTypeOK, ReplayFits
  <2>10. /\ sent' \in 0..MaxSent /\ read' \in 0..sent' /\ credit' \in [Messages -> Int]
         /\ faults' \in 0..MaxFaults
    BY <1>t, <2>1, <2>2, <2>6 DEF BusTypeOK
  <2> QED
    BY <2>4, <2>7, <2>8, <2>9, <2>10 DEF BusInv, BusTypeOK, LoopTypes, Awaits
<1>3. ASSUME NEW m \in 1..read, Idle(m) PROVE BusInv'
  BY <1>3, <1>t DEF Idle, BusInv, BusTypeOK, TriesFit, ReplayFits, Loops
<1>4. ASSUME NEW l \in Loops, AutoClaim(l) PROVE BusInv'
  <2>1. idle \subseteq 1..read /\ idle # {} /\ read \in Nat
    BY <1>4, <1>t DEF AutoClaim, BusTypeOK
  <2>2. IsFiniteSet(idle) /\ \A m \in idle : m \in Nat
    <3>1. IsFiniteSet(1..read) /\ idle \in SUBSET (1..read)
      BY <2>1, FS_Interval
    <3>2. IsFiniteSet(idle)
      BY <3>1, FS_Subset, Zenon
    <3> QED
      BY <2>1, <3>2
  <2>3. OldestOf(idle) \subseteq idle /\ OldestOf(idle) # {}
    BY <2>1, <2>2, OldestIs
  <2>4. LoopTypes'
    BY <1>4, <1>t, <2>1, <2>3, TakeKeeps DEF AutoClaim
  <2> QED
    BY <1>4, <1>t, <2>4, <1>k DEF AutoClaim, BusTypeOK
<1>5. ASSUME NEW l \in Loops, Check(l) PROVE BusInv'
  <2>1. LoopTypes'
    BY <1>5, <1>t, MoveKeeps, AdvanceKeeps DEF Check, Proceed, LoopTypes, Awaits, TriesFit
  <2>2. credit' \in [Messages -> Int]
    BY <1>5, <1>t DEF Check, Proceed, BusTypeOK
  <2> QED
    BY <1>5, <1>t, <2>1, <2>2, <1>k DEF Check, Proceed, Acked, BusTypeOK
<1>6. ASSUME NEW l \in Loops, CheckFails(l) PROVE BusInv'
  <2>1. LoopTypes'
    BY <1>6, <1>t, MoveKeeps DEF CheckFails, LoopTypes, Awaits, TriesFit
  <2>2. credit' \in [Messages -> Int]
    BY <1>6, <1>c, <1>t, CreditKept DEF CheckFails, BusTypeOK
  <2> QED
    <3>1. pel' \subseteq pel /\ idle' \subseteq pel'
      BY <1>6, <1>z DEF CheckFails
    <3> QED
      BY <1>6, <1>t, <2>1, <2>2, <3>1, <1>k DEF CheckFails, BusTypeOK
<1>7. ASSUME NEW l \in Loops, Handle(l) PROVE BusInv'
  <2>1. LoopTypes'
    BY <1>7, <1>t, MoveKeeps DEF Handle, LoopTypes, Awaits, TriesFit
  <2>2. credit' \in [Messages -> Int]
    <3>1. credit' = [credit EXCEPT ![Current(l)] = @ + (-1)]
      BY <1>7, <1>c, <1>t DEF Handle, BusTypeOK
    <3> QED
      BY <1>7, <1>c, <1>t, <3>1, CreditKept DEF Handle, BusTypeOK
  <2> QED
    BY <1>7, <1>t, <1>c, <2>1, <2>2, <1>k DEF Handle, BusTypeOK
<1>8. ASSUME NEW l \in Loops, at[l] \in {"handle", "ack"}, Attempt(l), UNCHANGED read
      PROVE  LoopTypes'
  BY <1>8, <1>t, MoveKeeps DEF Attempt, LoopTypes, Awaits, TriesFit
<1>9. ASSUME NEW l \in Loops, HandleFails(l) PROVE BusInv'
  BY <1>9, <1>8, <1>t, <1>k DEF HandleFails, BusTypeOK
<1>10. ASSUME NEW l \in Loops, Ack(l) PROVE BusInv'
  <2>1. LoopTypes'
    BY <1>10, <1>t, MoveKeeps DEF Ack, LoopTypes, Awaits, TriesFit
  <2> QED
    BY <1>10, <1>t, <2>1, <1>k DEF Ack, Acked, BusTypeOK
<1>11. ASSUME NEW l \in Loops, AckFails(l) PROVE BusInv'
  <2>1. credit' \in [Messages -> Int]
    BY <1>11, <1>c, <1>t, CreditKept DEF AckFails, BusTypeOK
  <2> QED
    <3>1. pel' \subseteq pel /\ idle' \subseteq pel'
      BY <1>11, <1>z DEF AckFails
    <3> QED
      BY <1>11, <1>8, <1>t, <2>1, <3>1, <1>k DEF AckFails, BusTypeOK
<1>12. ASSUME NEW l \in Loops, Mark(l) PROVE BusInv'
  BY <1>12, <1>t, <1>c, <1>k, AdvanceKeeps DEF Mark, BusTypeOK
<1>13. ASSUME NEW l \in Loops, MarkFails(l) PROVE BusInv'
  <2>1. credit' \in [Messages -> Int]
    BY <1>13, <1>c, <1>t, CreditKept DEF MarkFails, BusTypeOK
  <2> QED
    BY <1>13, <1>t, <2>1, <1>k, AdvanceKeeps DEF MarkFails, BusTypeOK
\* The list has changed.
<1>e. ASSUME moved' = (replay # NoReplay), UNCHANGED <<read, replay>>
      PROVE  ReplayFits' /\ moved' \in BOOLEAN
  <2>1. CASE replay = NoReplay
    BY <1>e, <2>1 DEF ReplayFits, NoReplay
  <2>2. CASE replay # NoReplay
    BY <1>e, <1>t, <2>2 DEF ReplayFits
  <2> QED
    BY <2>1, <2>2
<1>14. ASSUME NEW l \in Loops, Bury(l) \/ BuryFails(l) PROVE BusInv'
  <2>1. LoopTypes'
    BY <1>14, <1>t, MoveKeeps DEF Bury, BuryFails, LoopTypes, Awaits, TriesFit
  <2>2. Current(l) \in 1..read
    BY <1>14, <1>c DEF Bury, BuryFails
  <2>3. dlq' \in Seq(1..read) /\ Len(dlq') \in Nat /\ Len(dlq) <= Len(dlq')
    <3>1. CASE Pushed(Current(l))
      BY <1>t, <2>2, <3>1, PushedIs DEF BusTypeOK
    <3>2. CASE UNCHANGED dlq
      BY <1>t, <3>2 DEF BusTypeOK
    <3> QED
      BY <1>14, <3>1, <3>2 DEF Bury, BuryFails
  <2>4. memory' \in [Procs -> SUBSET (1..read)]
    <3>1. CASE UNCHANGED memory
      BY <1>t, <3>1 DEF BusTypeOK
    <3>2. CASE memory' = [memory EXCEPT ![l[1]] = @ \cup {Current(l)}]
      BY <1>t, <2>2, <3>2 DEF BusTypeOK, Loops
    <3> QED
      BY <1>14, <3>1, <3>2 DEF Bury, BuryFails
  <2>5. /\ faults' \in 0..MaxFaults
        /\ UNCHANGED <<read, sent, pel, idle, marked, replay, handled, credit, gone>>
    BY <1>14, <1>t DEF Bury, BuryFails, BusTypeOK
  <2>6. ReplayFits' /\ moved' \in BOOLEAN
    <3>1. CASE Pushed(Current(l))
      BY <1>t, <2>5, <3>1, <1>e DEF Pushed
    <3>2. CASE UNCHANGED <<dlq, moved>>
      BY <1>t, <2>5, <3>2 DEF ReplayFits, BusTypeOK
    <3> QED
      BY <1>14, <3>1, <3>2 DEF Bury, BuryFails
  <2> QED
    BY <1>t, <2>1, <2>3, <2>4, <2>5, <2>6 DEF BusInv, BusTypeOK, LoopTypes, Awaits
<1>15. ASSUME NEW l \in Loops, Drop(l) PROVE BusInv'
  BY <1>15, <1>t, <1>c, <1>k, AdvanceKeeps DEF Drop, Acked, BusTypeOK
<1>16. ASSUME NEW l \in Loops, DropFails(l) PROVE BusInv'
  <2>1. LoopTypes'
    BY <1>16, <1>t DEF DropFails, LoopTypes, TriesFit, Awaits
  <2> QED
    <3>1. pel' \subseteq pel /\ idle' \subseteq pel'
      BY <1>16, <1>z DEF DropFails
    <3> QED
      BY <1>16, <1>t, <2>1, <3>1, <1>k DEF DropFails, BusTypeOK
<1>17. ASSUME NEW p \in Procs, Stop(p) PROVE BusInv'
  <2>1. LoopTypes'
    BY <1>17, <1>t DEF Stop, LoopTypes, TriesFit, Awaits
  <2>2. credit' \in [Messages -> Int]
    <3> DEFINE back(m) == Cardinality({l \in Loops : l[1] = p /\ at[l] \in {"ack", "mark"} /\ Current(l) = m})
    <3>1. ASSUME NEW m \in Messages PROVE credit[m] \in Int /\ back(m) \in Nat
      <4>1. credit[m] \in Int
        BY <1>t DEF BusTypeOK
      <4>2. back(m) \in Nat
        BY StoppedCount, Zenon
      <4> QED
        BY <4>1, <4>2
    <3>2. credit' = [m \in Messages |-> credit[m] + back(m)]
      BY <1>17 DEF Stop
    <3> HIDE DEF back
    <3> QED
      BY <3>1, <3>2
  <2>3. /\ memory' \in [Procs -> SUBSET (1..read)] /\ gone' \subseteq 1..read
        /\ faults' \in 0..MaxFaults
    <3>1. \A q \in Procs : memory[q] \subseteq 1..read
      BY <1>t DEF BusTypeOK
    <3>2. gone \subseteq 1..read /\ gone' = gone \cup memory[p]
      BY <1>17, <1>t DEF Stop, BusTypeOK
    <3>3. memory' = [memory EXCEPT ![p] = {}]
      BY <1>17 DEF Stop
    <3>4. memory' \in [Procs -> SUBSET (1..read)]
      BY <1>t, <3>3 DEF BusTypeOK
    <3>5. gone' \subseteq 1..read
      BY <3>1, <3>2
    <3>6. faults' \in 0..MaxFaults
      BY <1>17, <1>t DEF Stop, BusTypeOK
    <3> QED
      BY <3>4, <3>5, <3>6
  <2>4. pel' \subseteq pel /\ idle' \subseteq pel' /\ marked' \subseteq 1..read /\ handled' \subseteq 1..read
    BY <1>17, <1>t DEF Stop, BusTypeOK
  <2>5. UNCHANGED <<read, dlq, letter, sent>>
    BY <1>17 DEF Stop
  <2> QED
    BY <2>1, <2>2, <2>3, <2>4, <2>5, <1>k
<1>18. ASSUME NEW i \in 1..Len(dlq), BeginReplay(i) PROVE BusInv'
  <2>1. dlq[i] \in 1..read /\ Len(dlq) \in Nat /\ read \in Nat
    BY <1>t DEF BusTypeOK
  <2>2. replay' \in [index : Nat, msg : 0..read] /\ moved' = FALSE /\ ReplayFits'
    BY <1>18, <2>1 DEF BeginReplay, ReplayFits
  <2> QED
    BY <1>18, <1>t, <2>2 DEF BeginReplay, BusInv, BusTypeOK, TriesFit, Loops
<1>19. CASE Replayed
  <2>1. replay.index \in DOMAIN dlq /\ replay.msg \in 1..read /\ dlq \in Seq(1..read)
    <3>1. replay # NoReplay /\ replay.index \in DOMAIN dlq
      BY <1>19 DEF Replayed
    <3>2. replay.msg \in 1..read
      BY <1>t, <3>1 DEF ReplayFits
    <3> QED
      BY <1>t, <3>1, <3>2 DEF BusTypeOK
  <2>2. dlq' \in Seq(1..read) /\ dlq[replay.index] \in 1..read
    BY <1>19, <2>1, ListIs DEF Replayed
  <2>3. gone' \subseteq 1..read
    BY <1>19, <1>t, <2>2 DEF Replayed, BusTypeOK
  <2>4. replay' \in [index : Nat, msg : 0..read] /\ moved' = FALSE /\ ReplayFits'
    BY <1>19, <1>t DEF Replayed, ReplayFits, NoReplay, BusTypeOK
  <2> QED
    BY <1>19, <1>t, <2>2, <2>3, <2>4 DEF Replayed, BusInv, BusTypeOK, TriesFit, Loops
<1>20. CASE ReplayFails
  <2>1. replay' \in [index : Nat, msg : 0..read] /\ moved' = FALSE /\ ReplayFits'
    BY <1>20, <1>t DEF ReplayFails, ReplayFits, NoReplay, BusTypeOK
  <2> QED
    BY <1>20, <1>t, <2>1 DEF ReplayFails, BusInv, BusTypeOK, TriesFit, Loops
\* The list is emptied.
<1>21. ASSUME NEW ps \in SUBSET Procs, Emptied(ps) PROVE BusInv'
  <2>1. /\ dlq \in Seq(1..read) /\ gone \subseteq 1..read
        /\ \A p \in Procs : memory[p] \subseteq 1..read
    BY <1>t DEF BusTypeOK
  <2>2. \A i \in DOMAIN dlq : dlq[i] \in 1..read
    BY <2>1, ListIs
  <2>3. (UNION {memory[p] : p \in ps}) \subseteq 1..read
    BY <2>1
  <2>4. /\ gone' \subseteq 1..read /\ memory' \in [Procs -> SUBSET (1..read)]
        /\ dlq' = <<>> /\ moved' = (replay # NoReplay)
        /\ UNCHANGED <<sent, read, pel, idle, marked, loop, replay, handled, credit, faults>>
    <3>1. gone' \subseteq 1..read
      BY <1>21, <2>1, <2>2, <2>3 DEF Emptied
    <3>2. memory' \in [Procs -> SUBSET (1..read)]
      BY <1>21, <2>1 DEF Emptied
    <3> QED
      BY <1>21, <3>1, <3>2 DEF Emptied
  <2>5. ReplayFits' /\ moved' \in BOOLEAN /\ dlq' \in Seq(1..read)
    <3>1. ReplayFits' /\ moved' \in BOOLEAN
      BY <2>4, <1>e
    <3> QED
      BY <2>4, <3>1
  <2> QED
    BY <1>t, <2>4, <2>5 DEF BusInv, BusTypeOK, TriesFit, Loops
<1>22. ASSUME NEW p \in Procs, PurgeFails(p) PROVE BusInv'
  <2>1. \A q \in Procs : memory[q] \subseteq 1..read
    BY <1>t DEF BusTypeOK
  <2>2. memory' \in [Procs -> SUBSET (1..read)] /\ gone' \subseteq 1..read
    BY <1>22, <1>t, <2>1 DEF PurgeFails, BusTypeOK
  <2> QED
    BY <1>22, <1>t, <2>2, <1>k DEF PurgeFails, BusTypeOK, LoopTypes, TriesFit, Loops
<1>23. ASSUME Expire \/ \E p \in Procs : Purge(p) PROVE BusInv'
  BY <1>21, <1>23 DEF Expire, Purge
<1> QED
  BY <1>0, <1>1, <1>2, <1>3, <1>4, <1>5, <1>6, <1>7, <1>9, <1>10, <1>11, <1>12, <1>13,
     <1>14, <1>15, <1>16, <1>17, <1>18, <1>19, <1>20, <1>22, <1>23
  DEF BusNext, Work, LoopFault

\* The stream, the group, its loops and the list of dead letters keep their types;
\* a loop's batch is empty exactly when it is idle.
THEOREM BusTypeCorrect == BusSpec => []BusTypeOK
<1>1. BusInv => BusTypeOK
  BY DEF BusInv
<1> QED
  BY BusInitInv, BusStep, <1>1, PTL DEF BusSpec

-----------------------------------------------------------------------------
\* The letters of the list, with one in front, or with one of its own again in the
\* place of another.
LEMMA LettersAre ==
  ASSUME NEW S, dlq \in Seq(S)
  PROVE  /\ Letters \subseteq S
         /\ \A m : Pushed(m) => Letters' = Letters \cup {m}
         /\ UNCHANGED dlq => Letters' = Letters
         /\ \A i \in DOMAIN dlq : \A m :
               dlq' = [dlq EXCEPT ![i] = m] =>
                   /\ Letters' \subseteq Letters \cup {m} /\ m \in Letters'
                   /\ Letters \subseteq Letters' \cup {dlq[i]}
<1>0. Letters \subseteq S
  BY DEF Letters
<1>1. ASSUME NEW m, Pushed(m) PROVE Letters' = Letters \cup {m}
  <2>1. /\ DOMAIN dlq = 1..Len(dlq) /\ Len(dlq) \in Nat
        /\ DOMAIN dlq' = 1..(Len(dlq) + 1) /\ dlq'[1] = m
        /\ \A i \in 1..Len(dlq) : dlq'[i + 1] = dlq[i]
    BY <1>1 DEF Pushed
  <2>2. \A i \in DOMAIN dlq : i + 1 \in DOMAIN dlq' /\ dlq'[i + 1] = dlq[i]
    BY <2>1
  <2>3. 1 \in DOMAIN dlq'
    BY <2>1
  <2>4. ASSUME NEW i \in DOMAIN dlq', i # 1 PROVE i - 1 \in DOMAIN dlq /\ dlq'[i] = dlq[i - 1]
    <3>1. i - 1 \in 1..Len(dlq) /\ (i - 1) + 1 = i
      BY <2>1, <2>4
    <3> QED
      BY <2>1, <3>1
  <2> QED
    BY <2>1, <2>2, <2>3, <2>4 DEF Letters
<1>2. UNCHANGED dlq => Letters' = Letters
  BY DEF Letters
<1>3. ASSUME NEW i \in DOMAIN dlq, NEW m, dlq' = [dlq EXCEPT ![i] = m]
      PROVE  /\ Letters' \subseteq Letters \cup {m} /\ m \in Letters'
             /\ Letters \subseteq Letters' \cup {dlq[i]}
  BY <1>3 DEF Letters
<1> QED
  BY <1>0, <1>1, <1>2, <1>3

\* What each step that writes a letter, or loses one, makes of those buried.
LEMMA BuriedByLoop ==
  ASSUME BusInv, NEW l \in Loops, Bury(l) \/ BuryFails(l)
  PROVE  Buried' = Buried \cup {Current(l)}
<1> DEFINE kept == UNION {memory[p] : p \in Procs}
<1>t. dlq \in Seq(1..read) /\ memory \in [Procs -> SUBSET (1..read)]
  BY DEF BusInv, BusTypeOK
<1>1. CASE Bury(l)
  <2>1. Pushed(Current(l)) /\ UNCHANGED <<memory, gone>>
    BY <1>1 DEF Bury
  <2>2. Letters' = Letters \cup {Current(l)}
    BY <1>t, <2>1, LettersAre
  <2> QED
    BY <2>1, <2>2 DEF Buried
<1>2. CASE BuryFails(l)
  <2>1. /\ UNCHANGED gone /\ l[1] \in Procs
        /\ Pushed(Current(l)) \/ UNCHANGED dlq
        /\ memory' = [memory EXCEPT ![l[1]] = @ \cup {Current(l)}]
    BY <1>2 DEF BuryFails, Loops
  <2>2. Letters \subseteq Letters' /\ Letters' \subseteq Letters \cup {Current(l)}
    BY <1>t, <2>1, LettersAre
  <2>3. kept' = kept \cup {Current(l)}
    <3>1. \A p \in Procs : memory'[p] = IF p = l[1] THEN memory[p] \cup {Current(l)} ELSE memory[p]
      BY <1>t, <2>1
    <3> QED
      BY <2>1, <3>1
  <2>4. Buried = Letters \cup gone \cup kept
    BY DEF Buried
  <2> QED
    BY <2>1, <2>2, <2>3, <2>4 DEF Buried
<1> QED
  BY <1>1, <1>2

\* The letters in the memory of a process that stops, or is told to purge, are in
\* "gone".
LEMMA BuriedByStop ==
  ASSUME BusInv, NEW q \in Procs, Stop(q) \/ PurgeFails(q)
  PROVE  UNCHANGED Buried
<1> DEFINE kept == UNION {memory[p] : p \in Procs}
<1>1. /\ gone' = gone \cup memory[q] /\ UNCHANGED dlq
      /\ memory' = [memory EXCEPT ![q] = {}]
  BY DEF Stop, PurgeFails, redis
<1>2. \A p \in Procs : memory'[p] = IF p = q THEN {} ELSE memory[p]
  BY <1>1 DEF BusInv, BusTypeOK
<1>3. gone \cup kept = gone' \cup kept'
  BY <1>1, <1>2
<1>4. Letters' = Letters
  BY <1>1 DEF Letters
<1>5. Buried = Letters \cup (gone \cup kept) /\ Buried' = Letters' \cup (gone' \cup kept')
  BY DEF Buried
<1> QED
  BY <1>3, <1>4, <1>5

\* So are all letters of a list that is emptied.
LEMMA BuriedByEmptying ==
  ASSUME BusInv, NEW ps \in SUBSET Procs, Emptied(ps)
  PROVE  UNCHANGED Buried
<1> DEFINE kept == UNION {memory[p] : p \in Procs}
           lost == UNION {memory[p] : p \in ps}
<1>1. /\ gone' = gone \cup Letters \cup lost /\ dlq' = <<>>
      /\ memory' = [p \in Procs |-> IF p \in ps THEN {} ELSE memory[p]]
  BY DEF Emptied, Letters
<1>2. Letters' = {}
  BY <1>1 DEF Letters
<1>3. kept = kept' \cup lost
  BY <1>1
<1>4. Buried = Letters \cup gone \cup kept /\ Buried' = Letters' \cup gone' \cup kept'
  BY DEF Buried
<1> HIDE DEF kept, lost
<1> QED
  BY <1>1, <1>2, <1>3, <1>4

\* A letter that a replay writes over is in "gone"; the one it writes is a letter.
LEMMA BuriedByReplay ==
  ASSUME BusInv, Replayed
  PROVE  Buried' = Buried \cup {replay.msg}
<1> DEFINE kept == UNION {memory[p] : p \in Procs}
           m == replay.msg
           i == replay.index
<1>1. /\ UNCHANGED memory /\ dlq' = [dlq EXCEPT ![i] = m]
      /\ gone' = (gone \cup {dlq[i]}) \ {m}
  BY DEF Replayed
<1>2. dlq \in Seq(1..read) /\ i \in DOMAIN dlq
  BY DEF Replayed, BusInv, BusTypeOK
<1>3. /\ Letters' \subseteq Letters \cup {m} /\ m \in Letters'
      /\ Letters \subseteq Letters' \cup {dlq[i]}
  BY <1>1, <1>2, LettersAre
<1>4. dlq[i] \in Letters
  BY <1>2 DEF Letters
<1>5. kept' = kept
  BY <1>1
<1>6. Buried = Letters \cup gone \cup kept /\ Buried' = Letters' \cup gone' \cup kept'
  BY DEF Buried
<1> HIDE DEF kept, m, i
<1>7. Buried' = Buried \cup {m}
  BY <1>1, <1>3, <1>4, <1>5, <1>6
<1> QED
  BY <1>7 DEF m

\* What is buried stays so.
LEMMA BuriedStays ==
  ASSUME BusInv, [BusNext]_busVars
  PROVE  Buried \subseteq Buried'
<1> USE DEF redis, loop, history, letter, Fault
<1>q. ASSUME UNCHANGED <<dlq, memory, gone>> PROVE Buried \subseteq Buried'
  BY <1>q DEF Buried, Letters
<1>1. ASSUME NEW l \in Loops, Work(l), ~ Bury(l) PROVE Buried \subseteq Buried'
  BY <1>1, <1>q DEF Work, Poll, AutoClaim, Check, Proceed, Handle, HandleFails, Ack, Mark, Drop
<1>2. ASSUME NEW l \in Loops, LoopFault(l), ~ BuryFails(l) PROVE Buried \subseteq Buried'
  BY <1>2, <1>q DEF LoopFault, CheckFails, AckFails, MarkFails, DropFails
<1>3. ASSUME NEW l \in Loops, Bury(l) \/ BuryFails(l) PROVE Buried \subseteq Buried'
  BY <1>3, BuriedByLoop
<1>4. ASSUME NEW q \in Procs, Stop(q) \/ PurgeFails(q) PROVE Buried \subseteq Buried'
  BY <1>4, BuriedByStop
<1>7. ASSUME Expire \/ \E p \in Procs : Purge(p) PROVE Buried \subseteq Buried'
  BY <1>7, BuriedByEmptying DEF Expire, Purge
<1>5. CASE Replayed
  BY <1>5, BuriedByReplay
<1>6. ASSUME \/ Publish \/ ReplayFails \/ UNCHANGED busVars
             \/ \E m \in 1..read : Idle(m)
             \/ \E i \in 1..Len(dlq) : BeginReplay(i)
      PROVE  Buried \subseteq Buried'
  BY <1>6, <1>q DEF Publish, ReplayFails, busVars, Idle, BeginReplay
<1> QED
  BY <1>1, <1>2, <1>3, <1>4, <1>5, <1>6, <1>7 DEF BusNext

\* The message has an end that nothing takes back: it was handled or is, or was,
\* a dead letter.
Settled(m) == m \in handled \cup Buried

\* What is settled stays settled.
LEMMA SettledStays ==
  ASSUME BusInv, BusNext, NEW m \in 1..read, Settled(m)
  PROVE  Settled(m)'
<1>1. handled \subseteq handled'
  BY DEF BusNext, Publish, Idle, Stop, Expire, Purge, PurgeFails, Emptied, BeginReplay, Replayed,
         ReplayFails, Work, LoopFault, Poll, AutoClaim, Check, Proceed, Handle, HandleFails, Ack, Mark, Bury, Drop,
         CheckFails, AckFails, MarkFails, BuryFails, DropFails, redis, loop, history, letter
<1>2. Buried \subseteq Buried'
  BY BuriedStays
<1> QED
  BY <1>1, <1>2 DEF Settled

\* Why XACK loses nothing: whoever acknowledges a message has seen it handled or
\* has buried it, and so has whoever set its dedup key.
LossInv ==
    /\ marked \subseteq handled
    /\ \A l \in Loops :
          /\ at[l] \in {"ack", "mark"} => Current(l) \in handled
          /\ at[l] = "drop" => Settled(Current(l))
    /\ \A m \in 1..read : m \in pel \/ Settled(m)

\* A step of the loop l, seen from all loops.
LEMMA LossByLoop ==
  ASSUME BusInv, BusNext, LossInv, NEW l \in Loops,
         \A k \in Loops \ {l} : at'[k] = at[k] /\ batch'[k] = batch[k],
         handled \subseteq handled', marked' \subseteq handled',
         at'[l] \in {"ack", "mark"} => Current(l)' \in handled',
         at'[l] = "drop" => Settled(Current(l))',
         \A m \in 1..read' : m \in pel' \/ Settled(m)'
  PROVE  LossInv'
<1>t. BusTypeOK
  BY DEF BusInv
<1>1. ASSUME NEW k \in Loops, k # l
      PROVE  /\ at'[k] \in {"ack", "mark"} => Current(k)' \in handled'
             /\ at'[k] = "drop" => Settled(Current(k))'
  <2>1. Current(k)' = Current(k) /\ at'[k] = at[k]
    BY <1>1 DEF Current
  <2>2. CASE at[k] \in {"ack", "mark"}
    BY <2>1, <2>2 DEF LossInv
  <2>3. CASE at[k] = "drop"
    <3>1. Current(k) \in 1..read /\ Settled(Current(k))
      BY <1>t, <2>3, CurrentIs DEF LossInv
    <3>2. PICK m \in 1..read : m = Current(k) /\ Settled(m)
      BY <3>1
    <3>3. Settled(m)'
      BY <3>2, SettledStays
    <3>4. Settled(Current(k))'
      BY <2>1, <3>2, <3>3 DEF Settled
    <3> QED
      BY <2>1, <2>3, <3>4
  <2> QED
    BY <2>1, <2>2, <2>3
<1>2. Loops' = Loops
  BY DEF Loops
<1>3. ASSUME NEW k \in Loops
      PROVE  /\ at'[k] \in {"ack", "mark"} => Current(k)' \in handled'
             /\ at'[k] = "drop" => Settled(Current(k))'
  <2>1. CASE k = l
    BY <2>1 DEF Current, Settled
  <2> QED
    BY <1>1, <2>1
<1> QED
  BY <1>2, <1>3 DEF LossInv

\* Each step keeps what an acknowledgement rests on.
LEMMA LossStep == BusInv /\ LossInv /\ [BusNext]_busVars => LossInv'
<1> SUFFICES ASSUME BusInv, LossInv, [BusNext]_busVars PROVE LossInv'
  OBVIOUS
<1> USE BusBounds, Tunables DEF redis, loop, history, letter, Fault
<1>t. BusTypeOK /\ BusTypeOK'
  BY BusStep DEF BusInv
<1>0. CASE UNCHANGED busVars
  BY <1>0 DEF busVars, LossInv, Settled, Buried, Letters, Current, Loops
<1>s. ASSUME BusNext, NEW m \in 1..read, Settled(m) PROVE Settled(m)'
  BY <1>s, SettledStays
<1>h. ASSUME NEW m \in handled' PROVE Settled(m)'
  BY DEF Settled
<1>p. ASSUME BusNext, UNCHANGED read, NEW l \in Loops, at[l] # "idle",
             UNCHANGED pel \/ (pel' = pel \ {Current(l)} /\ Settled(Current(l)))
      PROVE  \A m \in 1..read' : m \in pel' \/ Settled(m)'
  <2>1. \A m \in 1..read : m \in pel \/ Settled(m)
    BY DEF LossInv
  <2> SUFFICES ASSUME NEW m \in 1..read PROVE m \in pel' \/ Settled(m)'
    BY <1>p
  <2>2. CASE m \in pel'
    BY <2>2
  <2>3. CASE m \notin pel'
    <3>1. Settled(m)
      BY <1>p, <2>1, <2>3
    <3> QED
      BY <1>p, <1>s, <3>1
  <2> QED
    BY <2>2, <2>3
\* The steps of no loop.
<1>1. ASSUME BusNext, UNCHANGED <<read, pel, marked, loop>>, handled \subseteq handled'
      PROVE  LossInv'
  <2>1. \A k \in Loops : at'[k] = at[k] /\ Current(k)' = Current(k)
    BY <1>1 DEF Current
  <2>2. ASSUME NEW k \in Loops, at[k] = "drop" PROVE Settled(Current(k))'
    <3>1. PICK m \in 1..read : m = Current(k) /\ Settled(m)
      BY <1>t, <2>2, CurrentIs DEF LossInv
    <3>2. Settled(m)'
      BY <1>1, <1>s, <3>1
    <3> QED
      BY <2>1, <3>1, <3>2 DEF Settled
  <2>3. ASSUME NEW m \in 1..read PROVE m \in pel' \/ Settled(m)'
    BY <1>1, <1>s DEF LossInv
  <2>4. marked' \subseteq handled'
    BY <1>1 DEF LossInv
  <2>5. \A k \in Loops' : /\ at'[k] \in {"ack", "mark"} => Current(k)' \in handled'
                          /\ at'[k] = "drop" => Settled(Current(k))'
    BY <1>1, <2>1, <2>2 DEF LossInv, Loops
  <2> QED
    BY <1>1, <2>3, <2>4, <2>5 DEF LossInv
<1>2. ASSUME Publish PROVE LossInv'
  BY <1>2, <1>1 DEF Publish, BusNext
<1>3. ASSUME NEW m \in 1..read, Idle(m) PROVE LossInv'
  BY <1>3, <1>1 DEF Idle, BusNext
<1>4. ASSUME NEW i \in 1..Len(dlq), BeginReplay(i) PROVE LossInv'
  BY <1>4, <1>1 DEF BeginReplay, BusNext
<1>5. ASSUME \/ Replayed \/ ReplayFails \/ Expire
             \/ \E p \in Procs : Purge(p) \/ PurgeFails(p)
      PROVE  LossInv'
  <2>1. UNCHANGED <<handled, read, pel, marked, loop>>
    BY <1>5 DEF Replayed, ReplayFails, Expire, Purge, PurgeFails, Emptied
  <2> QED
    BY <1>5, <2>1, <1>1 DEF BusNext
\* The steps of a loop, which are BusNext too.
<1>b. ASSUME NEW l \in Loops, Work(l) \/ LoopFault(l) PROVE BusNext
  BY <1>b DEF BusNext
<1>6. ASSUME NEW l \in Loops, Poll(l) PROVE LossInv'
  <2>1. /\ pel' = pel \cup ((read + 1)..read') /\ at' = [at EXCEPT ![l] = "check"]
        /\ batch' = [batch EXCEPT ![l] = (read + 1)..read']
    BY <1>6, <1>t, PollReads DEF BusTypeOK
  <2>2. BusNext
    BY <1>6, <1>b DEF Work
  <2>3. ASSUME NEW m \in 1..read' PROVE m \in pel' \/ Settled(m)'
    <3>1. CASE m \in 1..read
      BY <1>s, <2>1, <2>2, <3>1 DEF LossInv
    <3>2. CASE m \notin 1..read
      BY <1>t, <2>1, <3>2 DEF BusTypeOK
    <3> QED
      BY <3>1, <3>2
  <2>4. /\ at'[l] = "check"
        /\ \A k \in Loops \ {l} : at'[k] = at[k] /\ batch'[k] = batch[k]
    BY <1>t, <2>1 DEF BusTypeOK
  <2>5. handled \subseteq handled' /\ marked' \subseteq handled'
    BY <1>6 DEF Poll, LossInv
  <2> QED
    BY <2>2, <2>3, <2>4, <2>5, LossByLoop
<1>7. ASSUME NEW l \in Loops, AutoClaim(l) PROVE LossInv'
  <2>1. BusNext
    BY <1>7, <1>b DEF Work
  <2>2. ASSUME NEW m \in 1..read PROVE m \in pel' \/ Settled(m)'
    BY <1>7, <1>s, <2>1 DEF LossInv, AutoClaim
  <2> QED
    BY <1>7, <1>t, <2>1, <2>2, LossByLoop DEF AutoClaim, Take, LossInv, BusTypeOK
\* The loop l moves within its message to s.
<1>m. ASSUME NEW l \in Loops, Work(l) \/ LoopFault(l), at[l] # "idle",
             NEW s, at' = [at EXCEPT ![l] = s], UNCHANGED <<read, batch, marked>>,
             handled \subseteq handled',
             UNCHANGED pel \/ (pel' = pel \ {Current(l)} /\ Settled(Current(l))),
             s \in {"ack", "mark"} => Current(l) \in handled',
             s = "drop" => Settled(Current(l))'
      PROVE  LossInv'
  <2>1. BusNext
    BY <1>b, <1>m
  <2>2. Current(l)' = Current(l) /\ at'[l] = s
    BY <1>m, <1>t DEF Current, BusTypeOK
  <2>3. \A k \in Loops \ {l} : at'[k] = at[k] /\ batch'[k] = batch[k]
    BY <1>m, <1>t DEF BusTypeOK
  <2>4. \A m \in 1..read' : m \in pel' \/ Settled(m)'
    BY <1>m, <1>p, <2>1
  <2>5. marked' \subseteq handled'
    BY <1>m DEF LossInv
  <2>6. at'[l] = "drop" => Settled(Current(l))'
    BY <1>m, <2>2
  <2> QED
    BY <1>m, <2>1, <2>2, <2>3, <2>4, <2>5, <2>6, LossByLoop
\* It goes on with the next.
<1>a. ASSUME NEW l \in Loops, Work(l) \/ LoopFault(l), at[l] # "idle", Advance(l),
             UNCHANGED <<read, handled>>, marked' \subseteq handled,
             UNCHANGED pel \/ (pel' = pel \ {Current(l)} /\ Settled(Current(l)))
      PROVE  LossInv'
  <2>1. BusNext
    BY <1>b, <1>a
  <2>2. \A k \in Loops \ {l} : at'[k] = at[k] /\ batch'[k] = batch[k]
    BY <1>a, <1>t DEF Advance, BusTypeOK
  <2>3. at'[l] \in {"idle", "check"}
    BY <1>a, <1>t DEF Advance, BusTypeOK
  <2>4. \A m \in 1..read' : m \in pel' \/ Settled(m)'
    BY <1>a, <1>p, <2>1
  <2> QED
    BY <1>a, <2>1, <2>2, <2>3, <2>4, LossByLoop
<1>8. ASSUME NEW l \in Loops, Check(l) PROVE LossInv'
  <2>1. CASE Current(l) \in marked
    <3>1. Settled(Current(l))
      BY <2>1 DEF LossInv, Settled
    <3> QED
      BY <1>8, <1>a, <2>1, <3>1 DEF Check, Work, Acked, LossInv
  <2>2. CASE Current(l) \notin marked
    BY <1>8, <1>m, <2>2 DEF Check, Proceed, Work
  <2> QED
    BY <2>1, <2>2
<1>9. ASSUME NEW l \in Loops, CheckFails(l) PROVE LossInv'
  <2>1. UNCHANGED pel \/ (pel' = pel \ {Current(l)} /\ Settled(Current(l)))
    BY <1>9 DEF CheckFails, AckedOrNot, Acked, LossInv, Settled
  <2> QED
    BY <1>9, <1>m, <2>1 DEF CheckFails, LoopFault
<1>10. ASSUME NEW l \in Loops, Handle(l) PROVE LossInv'
  BY <1>10, <1>m DEF Handle, Work
<1>11. ASSUME NEW l \in Loops, at[l] \in {"handle", "ack"}, Attempt(l),
              Work(l) \/ LoopFault(l), UNCHANGED <<read, marked, handled>>,
              UNCHANGED pel \/ (pel' = pel \ {Current(l)} /\ Settled(Current(l)))
       PROVE  LossInv'
  <2> DEFINE s == IF tries[l] + 1 < MaxRetries THEN "handle" ELSE "bury"
  <2>1. s \notin {"ack", "mark", "drop"} /\ at' = [at EXCEPT ![l] = s] /\ UNCHANGED batch
    BY <1>11 DEF Attempt
  <2> HIDE DEF s
  <2> QED
    BY <1>11, <1>m, <2>1
<1>12. ASSUME NEW l \in Loops, HandleFails(l) \/ AckFails(l) PROVE LossInv'
  <2>1. CASE HandleFails(l)
    BY <2>1, <1>11 DEF HandleFails, Work
  <2>2. CASE AckFails(l)
    <3>1. UNCHANGED pel \/ (pel' = pel \ {Current(l)} /\ Settled(Current(l)))
      BY <2>2 DEF AckFails, AckedOrNot, Acked, LossInv, Settled
    <3> QED
      BY <2>2, <3>1, <1>11 DEF AckFails, LoopFault
  <2> QED
    BY <1>12, <2>1, <2>2
<1>13. ASSUME NEW l \in Loops, Ack(l) PROVE LossInv'
  <2>1. Current(l) \in handled /\ Settled(Current(l))
    BY <1>13 DEF Ack, LossInv, Settled
  <2> QED
    BY <1>13, <1>m, <2>1 DEF Ack, Acked, Work
<1>14. ASSUME NEW l \in Loops, Mark(l) PROVE LossInv'
  <2>1. marked' \subseteq handled
    BY <1>14 DEF Mark, LossInv
  <2> QED
    BY <1>14, <1>a, <2>1 DEF Mark, Work
<1>15. ASSUME NEW l \in Loops, MarkFails(l) PROVE LossInv'
  BY <1>15, <1>a DEF MarkFails, LoopFault, LossInv
<1>16. ASSUME NEW l \in Loops, Bury(l) PROVE LossInv'
  <2>1. Current(l)' = Current(l) /\ Current(l) \in Letters'
    <3>1. Current(l)' = Current(l) /\ Current(l) \in 1..read
      BY <1>16, <1>t, CurrentIs DEF Bury, Current
    <3>2. 1 \in DOMAIN dlq' /\ dlq'[1] = Current(l)
      <4>1. dlq \in Seq(1..read) /\ Pushed(Current(l))
        BY <1>16, <1>t DEF Bury, BusTypeOK
      <4> QED
        BY <3>1, <4>1 DEF Pushed
    <3> QED
      BY <3>1, <3>2 DEF Letters
  <2>2. Settled(Current(l))'
    BY <2>1 DEF Settled, Buried
  <2> QED
    BY <1>16, <1>m, <2>2 DEF Bury, Work
<1>17. ASSUME NEW l \in Loops, BuryFails(l) PROVE LossInv'
  <2>1. Current(l)' = Current(l) /\ l[1] \in Procs /\ Current(l) \in memory'[l[1]]
    BY <1>17, <1>t DEF BuryFails, Current, BusTypeOK, Loops
  <2>2. Settled(Current(l))'
    BY <2>1 DEF Settled, Buried
  <2> QED
    BY <1>17, <1>m, <2>2 DEF BuryFails, LoopFault
<1>18. ASSUME NEW l \in Loops, Drop(l) PROVE LossInv'
  <2>1. Settled(Current(l))
    BY <1>18 DEF Drop, LossInv
  <2> QED
    BY <1>18, <1>a, <2>1 DEF Drop, Acked, Work, LossInv
<1>19. ASSUME NEW l \in Loops, DropFails(l) PROVE LossInv'
  <2>1. BusNext
    BY <1>19, <1>b DEF LoopFault
  <2>2. \A m \in 1..read' : m \in pel' \/ Settled(m)'
    <3>1. UNCHANGED pel \/ (pel' = pel \ {Current(l)} /\ Settled(Current(l)))
      BY <1>19 DEF DropFails, AckedOrNot, Acked, LossInv
    <3> QED
      BY <1>19, <1>p, <2>1, <3>1 DEF DropFails
  <2>3. at'[l] = "idle" /\ \A k \in Loops \ {l} : at'[k] = at[k] /\ batch'[k] = batch[k]
    BY <1>19, <1>t DEF DropFails, BusTypeOK
  <2> QED
    BY <1>19, <2>1, <2>2, <2>3, LossByLoop DEF DropFails, LossInv
<1>20. ASSUME NEW q \in Procs, Stop(q) PROVE LossInv'
  <2>1. BusNext
    BY <1>20 DEF BusNext
  <2>2. ASSUME NEW k \in Loops, at'[k] # "idle"
        PROVE  at'[k] = at[k] /\ Current(k)' = Current(k)
    BY <1>20, <2>2 DEF Stop, Current
  <2>3. ASSUME NEW k \in Loops, at'[k] = "drop" PROVE Settled(Current(k))'
    <3>1. at[k] = "drop" /\ Current(k)' = Current(k)
      BY <2>2, <2>3
    <3>2. PICK m \in 1..read : m = Current(k) /\ Settled(m)
      BY <1>t, <3>1, CurrentIs DEF LossInv
    <3>3. Settled(m)'
      BY <2>1, <1>s, <3>2
    <3> QED
      BY <3>1, <3>2, <3>3 DEF Settled
  <2>4. ASSUME NEW m \in 1..read PROVE m \in pel' \/ Settled(m)'
    BY <1>20, <1>s, <2>1 DEF LossInv, Stop
  <2>5. ASSUME NEW k \in Loops, at'[k] \in {"ack", "mark"} PROVE Current(k)' \in handled'
    BY <1>20, <2>2, <2>5 DEF LossInv, Stop
  <2>6. marked' \subseteq handled' /\ read' = read /\ Loops' = Loops
    BY <1>20 DEF LossInv, Stop, Loops
  <2> QED
    BY <2>3, <2>4, <2>5, <2>6 DEF LossInv
<1> QED
  BY <1>0, <1>2, <1>3, <1>4, <1>5, <1>6, <1>7, <1>8, <1>9, <1>10, <1>12, <1>13,
     <1>14, <1>15, <1>16, <1>17, <1>18, <1>19, <1>20
  DEF BusNext, Work, LoopFault

\* At least once: what was delivered to the group is pending until a handler has
\* succeeded with it or it has become a dead letter.
THEOREM NothingIsLostHolds == BusSpec => []NothingIsLost
<1>1. BusInit => LossInv
  BY DEF BusInit, LossInv
<1>2. LossInv => NothingIsLost
  BY DEF LossInv, NothingIsLost, Settled
<1> QED
  BY BusInitInv, BusStep, LossStep, <1>1, <1>2, PTL DEF BusSpec

\* A step keeps all letters, but for one that empties the list and the write-back of
\* a replay whose list has changed: while it has not, the letter is in its place.
LEMMA LettersStay ==
  ASSUME BusInv, [BusNext]_busVars, NEW m \in Letters, m \notin Letters'
  PROVE  dlq' = <<>> \/ (replay # NoReplay /\ replay' = NoReplay /\ moved)
<1> USE DEF redis, letter
<1>t. dlq \in Seq(1..read) /\ ReplayFits
  BY DEF BusInv, BusTypeOK
<1>1. ~ UNCHANGED dlq /\ \A k : ~ Pushed(k)
  BY <1>t, LettersAre
<1>2. ASSUME NEW l \in Loops, Work(l) \/ LoopFault(l) PROVE FALSE
  BY <1>1, <1>2 DEF Work, LoopFault, Poll, AutoClaim, Check, Handle, HandleFails, Ack, Mark,
     Bury, Drop, CheckFails, AckFails, MarkFails, BuryFails, DropFails
<1>3. CASE Replayed
  <2>1. /\ replay # NoReplay /\ replay' = NoReplay /\ replay.index \in DOMAIN dlq
        /\ dlq' = [dlq EXCEPT ![replay.index] = replay.msg]
    BY <1>3 DEF Replayed
  <2>2. CASE ~ moved
    <3>1. dlq[replay.index] = replay.msg
      BY <1>t, <2>1, <2>2 DEF ReplayFits
    <3>2. UNCHANGED dlq
      BY <1>t, <2>1, <3>1
    <3> QED
      BY <1>1, <3>2
  <2> QED
    BY <2>1, <2>2
<1>4. CASE Expire \/ \E p \in Procs : Purge(p)
  BY <1>4 DEF Expire, Purge, Emptied
<1>5. ASSUME \/ Publish \/ ReplayFails \/ UNCHANGED busVars \/ \E k \in 1..read : Idle(k)
             \/ \E p \in Procs : Stop(p) \/ PurgeFails(p)
             \/ \E i \in 1..Len(dlq) : BeginReplay(i)
      PROVE  FALSE
  BY <1>1, <1>5 DEF Publish, ReplayFails, busVars, Idle, Stop, PurgeFails, BeginReplay
<1> QED
  BY <1>2, <1>3, <1>4, <1>5 DEF BusNext

\* No dead letter disappears from the list but with the whole list, or under the
\* write-back of a replay() that had looked before the list changed.
THEOREM LettersAreKeptAlways == BusSpec => LettersAreKept
<1> DEFINE A == \A m \in Letters :
          \/ m \in Letters'
          \/ dlq' = <<>>
          \/ replay # NoReplay /\ replay' = NoReplay /\ moved
<1>1. BusInv /\ [BusNext]_busVars => [A]_busVars
  BY LettersStay, Zenon
<1> HIDE DEF A
<1>2. BusSpec => [][A]_busVars
  BY BusInitInv, BusStep, <1>1, PTL DEF BusSpec
<1> QED
  BY <1>2 DEF A, LettersAreKept

-----------------------------------------------------------------------------
\* The letter whose handler replay() awaits is one that was buried.
ReplayLive == replay # NoReplay => replay.msg \in Buried

\* Each step keeps that: no letter stops being buried.
LEMMA ReplayStep == BusInv /\ ReplayLive /\ [BusNext]_busVars => ReplayLive'
<1> SUFFICES ASSUME BusInv, ReplayLive, [BusNext]_busVars PROVE ReplayLive'
  OBVIOUS
<1> USE DEF redis, loop, history, letter
<1>1. Buried \subseteq Buried'
  BY BuriedStays
<1>2. ASSUME NEW i \in 1..Len(dlq), BeginReplay(i) PROVE ReplayLive'
  <2>1. replay'.msg \in Letters
    BY <1>2 DEF BeginReplay, Letters
  <2> QED
    BY <1>1, <2>1 DEF ReplayLive, Buried
<1>3. CASE UNCHANGED replay
  BY <1>1, <1>3 DEF ReplayLive, NoReplay
<1>4. CASE Replayed \/ ReplayFails
  BY <1>4 DEF Replayed, ReplayFails, ReplayLive, NoReplay
<1>5. ASSUME NEW l \in Loops, Work(l) \/ LoopFault(l) PROVE UNCHANGED replay
  BY <1>5 DEF Work, LoopFault, Poll, AutoClaim, Check, Proceed, Handle, HandleFails, Ack, Mark,
     Bury, Drop, CheckFails, AckFails, MarkFails, BuryFails, DropFails
<1>6. CASE \/ Publish \/ Expire \/ UNCHANGED busVars \/ \E m \in 1..read : Idle(m)
           \/ \E p \in Procs : Stop(p) \/ Purge(p) \/ PurgeFails(p)
  BY <1>3, <1>6 DEF Publish, Expire, Purge, PurgeFails, Emptied, Idle, Stop, busVars
<1> QED
  BY <1>2, <1>3, <1>4, <1>5, <1>6 DEF BusNext

\* The bus delivers at least once, in the words of AtLeastOnce: Publish accepts a
\* message, Handle delivers it, Bury gives it up, whoever acknowledges it closes
\* it, and every other step stutters.
THEOREM BusImplementsAtLeastOnce == BusSpec => IsAtLeastOnce
<1> DEFINE open == ((read + 1)..sent) \cup pel
           Known == open \cup handled \cup Buried
           abstract == <<open, handled, Buried>>
<1> USE BusBounds DEF redis, loop, history, letter, Fault
<1>1. BusInit => Delivery!Init
  <2>1. BusInit => open = {} /\ Letters = {} /\ \A p \in Procs : memory[p] = {}
    BY DEF BusInit, Letters
  <2> QED
    BY <2>1 DEF BusInit, Delivery!Init, Buried
<1>2. BusInv /\ LossInv /\ ReplayLive /\ [BusNext]_busVars => [Delivery!Next]_abstract
  <2> SUFFICES ASSUME BusInv, LossInv, ReplayLive, [BusNext]_busVars
               PROVE  [Delivery!Next]_abstract
    OBVIOUS
  <2>t. /\ BusTypeOK /\ ReplayFits /\ read \in Nat /\ sent \in Nat /\ read <= sent
        /\ sent <= MaxSent /\ pel \subseteq 1..read
    BY DEF BusInv, BusTypeOK
  <2>m. 1..read \subseteq Messages /\ (sent < MaxSent => sent + 1 \in Messages)
    BY <2>t DEF Messages
  <2>k. 1..read \subseteq Known
    BY DEF LossInv, Settled
  <2>b. handled \subseteq 1..read /\ Buried \subseteq 1..read
    <3>1. /\ dlq \in Seq(1..read) /\ gone \subseteq 1..read /\ handled \subseteq 1..read
          /\ \A p \in Procs : memory[p] \subseteq 1..read
      BY <2>t DEF BusTypeOK
    <3>2. Letters \subseteq 1..read
      BY <3>1, LettersAre
    <3>3. (UNION {memory[p] : p \in Procs}) \subseteq 1..read
      BY <3>1
    <3> QED
      BY <3>1, <3>2, <3>3 DEF Buried
  <2>c. ASSUME NEW l \in Loops, at[l] # "idle" PROVE Current(l) \in 1..read
    BY <2>c, <2>t, CurrentIs
\* What a step may do to the abstract state.
  <2>1. ASSUME UNCHANGED <<open, handled, Buried>> PROVE [Delivery!Next]_abstract
    BY <2>1
  <2>2. ASSUME NEW m \in 1..read, handled' = handled \cup {m}, UNCHANGED <<open, Buried>>
        PROVE  Delivery!Next
    <3>1. Delivery!Deliver(m)
      BY <2>2, <2>k DEF Delivery!Deliver, Delivery!Known
    <3> QED
      BY <2>m, <3>1 DEF Delivery!Next
  <2>3. ASSUME NEW m \in 1..read, Buried' = Buried \cup {m}, UNCHANGED <<open, handled>>
        PROVE  Delivery!Next
    <3>1. Delivery!GiveUp(m)
      BY <2>3, <2>k DEF Delivery!GiveUp, Delivery!Known
    <3> QED
      BY <2>m, <3>1 DEF Delivery!Next
  <2>4. ASSUME NEW m \in 1..read, Settled(m), pel' = pel \ {m},
               UNCHANGED <<sent, read, handled, Buried>>
        PROVE  Delivery!Next
    <3> DEFINE S == pel \cap {m}
    <3>1. m \notin (read + 1)..sent
      BY <2>t
    <3>2. S \subseteq open \cap (handled \cup Buried) /\ open' = open \ S
      BY <2>4, <3>1 DEF Settled
    <3>3. Delivery!Close(S)
      BY <2>4, <3>2 DEF Delivery!Close
    <3>4. S \in SUBSET Messages
      BY <2>m
    <3> HIDE DEF S
    <3> QED
      BY <3>3, <3>4 DEF Delivery!Next
  <2>s. ASSUME NEW m \in handled PROVE Settled(m)
    BY DEF Settled
\* The steps.
  <2>5. ASSUME Publish PROVE Delivery!Next
    <3>1. sent + 1 \notin Known
      BY <2>t, <2>b
    <3>2. open' = open \cup {sent + 1} /\ UNCHANGED handled
      BY <2>5, <2>t DEF Publish
    <3>3. UNCHANGED Buried
      BY <2>5 DEF Publish, Buried, Letters
    <3>4. Delivery!Accept(sent + 1)
      BY <3>1, <3>2, <3>3 DEF Delivery!Accept, Delivery!Known
    <3> QED
      BY <2>5, <2>m, <3>4 DEF Delivery!Next, Publish
  <2>6. ASSUME NEW l \in Loops, Poll(l) PROVE UNCHANGED <<open, handled, Buried>>
    <3>1. read' \in (read + 1)..sent /\ pel' = pel \cup ((read + 1)..read')
      BY <2>6, <2>t, PollReads
    <3>2. UNCHANGED <<sent, handled, dlq, gone, memory>>
      BY <2>6 DEF Poll
    <3>3. UNCHANGED open
      BY <2>t, <3>1, <3>2
    <3> QED
      BY <3>2, <3>3 DEF Buried, Letters
  <2>q. ASSUME UNCHANGED <<sent, read, pel, handled, dlq, gone, memory>>
        PROVE  UNCHANGED <<open, handled, Buried>>
    BY <2>q DEF Buried, Letters
  <2>7. ASSUME NEW l \in Loops,
               \/ AutoClaim(l) \/ HandleFails(l) \/ Mark(l)
               \/ (Check(l) /\ Current(l) \notin marked)
               \/ MarkFails(l)
        PROVE  UNCHANGED <<sent, read, pel, handled, dlq, gone, memory>>
    BY <2>7 DEF AutoClaim, HandleFails, Mark, Check, Proceed, MarkFails
  <2>8. ASSUME NEW l \in Loops, \/ Check(l) /\ Current(l) \in marked
                                \/ Ack(l) \/ Drop(l) \/ CheckFails(l) \/ AckFails(l) \/ DropFails(l)
        PROVE  [Delivery!Next]_abstract
    <3>1. at[l] # "idle" /\ UNCHANGED <<sent, read, handled, dlq, gone, memory>>
      BY <2>8 DEF Check, Ack, Drop, CheckFails, AckFails, DropFails
    <3>2. UNCHANGED pel \/ (pel' = pel \ {Current(l)} /\ Settled(Current(l)))
      BY <2>8, <2>s DEF Check, Ack, Drop, CheckFails, AckFails, DropFails, AckedOrNot, Acked, LossInv
    <3>3. UNCHANGED Buried
      BY <3>1 DEF Buried, Letters
    <3>4. CASE UNCHANGED pel
      BY <2>1, <3>1, <3>3, <3>4
    <3>5. CASE pel' = pel \ {Current(l)} /\ Settled(Current(l))
      BY <2>4, <2>c, <3>1, <3>3, <3>5
    <3> QED
      BY <3>2, <3>4, <3>5
  <2>9. ASSUME NEW l \in Loops, Handle(l) PROVE Delivery!Next
    <3>1. /\ at[l] # "idle" /\ handled' = handled \cup {Current(l)}
          /\ UNCHANGED <<sent, read, pel, dlq, gone, memory>>
      BY <2>9 DEF Handle
    <3>2. UNCHANGED <<open, Buried>>
      BY <3>1 DEF Buried, Letters
    <3> QED
      BY <2>2, <2>c, <3>1, <3>2
  <2>10. ASSUME NEW l \in Loops, Bury(l) \/ BuryFails(l) PROVE Delivery!Next
    <3>1. at[l] # "idle" /\ UNCHANGED <<sent, read, pel, handled>>
      BY <2>10 DEF Bury, BuryFails
    <3>2. Buried' = Buried \cup {Current(l)}
      BY <2>10, BuriedByLoop
    <3> QED
      BY <2>3, <2>c, <3>1, <3>2
  <2>11. ASSUME \/ Expire \/ \E p \in Procs : Stop(p) \/ Purge(p) \/ PurgeFails(p)
         PROVE  UNCHANGED <<open, handled, Buried>>
    <3>1. UNCHANGED <<sent, read, pel, handled>>
      BY <2>11 DEF Stop, Expire, Purge, PurgeFails, Emptied
    <3>2. UNCHANGED Buried
      BY <2>11, BuriedByStop, BuriedByEmptying DEF Expire, Purge
    <3> QED
      BY <3>1, <3>2
  <2>12. ASSUME Replayed \/ ReplayFails PROVE UNCHANGED <<open, handled, Buried>>
    <3>1. UNCHANGED <<sent, read, pel, handled>>
      BY <2>12 DEF Replayed, ReplayFails
    <3>2. UNCHANGED Buried
      <4>1. CASE Replayed
        BY <4>1, BuriedByReplay DEF Replayed, ReplayLive
      <4>2. CASE ReplayFails
        BY <4>2 DEF ReplayFails, Buried, Letters
      <4> QED
        BY <2>12, <4>1, <4>2
    <3> QED
      BY <3>1, <3>2
  <2>13. ASSUME \/ UNCHANGED busVars \/ \E m \in 1..read : Idle(m)
                \/ \E i \in 1..Len(dlq) : BeginReplay(i)
         PROVE  UNCHANGED <<sent, read, pel, handled, dlq, gone, memory>>
    BY <2>13 DEF busVars, Idle, BeginReplay
  <2> HIDE DEF abstract, open
  <2> QED
    BY <2>1, <2>5, <2>6, <2>q, <2>7, <2>8, <2>9, <2>10, <2>11, <2>12, <2>13
    DEF BusNext, Work, LoopFault
<1>3. BusInit => LossInv /\ ReplayLive
  BY DEF BusInit, LossInv, ReplayLive
<1> QED
  BY BusInitInv, BusStep, LossStep, ReplayStep, <1>1, <1>2, <1>3, PTL
  DEF BusSpec, IsAtLeastOnce, Delivery!Spec

-----------------------------------------------------------------------------
\* The loops about to call the handler for a message, and those that have and
\* are yet to set its dedup key.
Handling(m) == {l \in Loops : at[l] = "handle" /\ Current(l) = m}
Marking(m) == {l \in Loops : at[l] \in {"ack", "mark"} /\ Current(l) = m}

\* Every loop about to call the handler has a success to account for it; until
\* the key is set, one success is left or is the work of a loop about to set it.
CreditInv ==
    \A m \in Messages :
        /\ credit[m] >= Cardinality(Handling(m))
        /\ m \notin marked => credit[m] + Cardinality(Marking(m)) >= 1

\* Both are finite, so they can be counted.
LEMMA CountsAre ==
  ASSUME NEW m
  PROVE  /\ IsFiniteSet(Handling(m)) /\ Cardinality(Handling(m)) \in Nat
         /\ IsFiniteSet(Marking(m)) /\ Cardinality(Marking(m)) \in Nat
<1>1. Handling(m) \in SUBSET Loops /\ Marking(m) \in SUBSET Loops
  BY DEF Handling, Marking
<1>2. IsFiniteSet(Handling(m)) /\ IsFiniteSet(Marking(m))
  BY <1>1, LoopsAreFinite, FS_Subset, Zenon
<1> QED
  BY <1>2, FS_CardinalityType

\* A finite set in which one member came or went.
LEMMA OneChanges ==
  ASSUME NEW S, NEW T, IsFiniteSet(S), IsFiniteSet(T), NEW x, S \ {x} = T \ {x}
  PROVE  Cardinality(T) = Cardinality(S) + (IF x \in T THEN 1 ELSE 0) - (IF x \in S THEN 1 ELSE 0)
<1>1. Cardinality(S \ {x}) = IF x \in S THEN Cardinality(S) - 1 ELSE Cardinality(S)
  BY FS_RemoveElement
<1>2. Cardinality(T \ {x}) = IF x \in T THEN Cardinality(T) - 1 ELSE Cardinality(T)
  BY FS_RemoveElement
<1>3. Cardinality(S) \in Nat /\ Cardinality(T) \in Nat
  BY FS_CardinalityType
<1> QED
  BY <1>1, <1>2, <1>3

\* The message of the loop l gains d, which may be negative.
Gain(l, d) == \A m \in Messages : credit'[m] = IF m = Current(l) THEN credit[m] + d ELSE credit[m]

\* The three ways in which the steps write credit.
LEMMA GainIs ==
  ASSUME BusTypeOK, NEW l \in Loops, at[l] # "idle"
  PROVE  /\ UNCHANGED credit => Gain(l, 0)
         /\ credit' = [credit EXCEPT ![Current(l)] = @ + 1] => Gain(l, 1)
         /\ credit' = [credit EXCEPT ![Current(l)] = @ - 1] => Gain(l, -1)
<1>1. Current(l) \in Messages /\ credit \in [Messages -> Int]
  BY CurrentIs DEF BusTypeOK
<1>2. \A m \in Messages : credit[m] \in Int
  BY <1>1
<1>3. UNCHANGED credit => Gain(l, 0)
  BY <1>2 DEF Gain
<1>4. credit' = [credit EXCEPT ![Current(l)] = @ + 1] => Gain(l, 1)
  BY <1>1, <1>2 DEF Gain
<1>5. credit' = [credit EXCEPT ![Current(l)] = @ - 1] => Gain(l, -1)
  BY <1>1, <1>2 DEF Gain
<1> QED
  BY <1>3, <1>4, <1>5

\* The loop l moves within its message.
Moves(l, s) == at' = [at EXCEPT ![l] = s] /\ UNCHANGED <<batch, marked>>

\* A step of the loop l that is at work: what the other loops are at stays.
LEMMA CreditByLoop ==
  ASSUME BusInv, BusInv', CreditInv, NEW l \in Loops, at[l] # "idle",
         \A k \in Loops \ {l} : at'[k] = at[k] /\ batch'[k] = batch[k],
         at'[l] \in {"handle", "ack", "mark"} => batch'[l] = batch[l],
         marked \subseteq marked', NEW d \in Int, Gain(l, d),
         d >= (IF at'[l] = "handle" THEN 1 ELSE 0) - (IF at[l] = "handle" THEN 1 ELSE 0),
         \/ Current(l) \in marked'
         \/ d >= (IF at[l] \in {"ack", "mark"} THEN 1 ELSE 0)
                 - (IF at'[l] \in {"ack", "mark"} THEN 1 ELSE 0)
  PROVE  CreditInv'
<1>t. BusTypeOK
  BY DEF BusInv
<1> SUFFICES ASSUME NEW m \in Messages
             PROVE  /\ credit'[m] >= Cardinality(Handling(m)')
                    /\ m \notin marked' => credit'[m] + Cardinality(Marking(m)') >= 1
  BY DEF CreditInv, Messages
<1>1. \A k \in Loops \ {l} : Current(k)' = Current(k)
  BY DEF Current
<1>2. at'[l] \in {"handle", "ack", "mark"} => Current(l)' = Current(l)
  BY DEF Current
<1>3. Loops' = Loops
  BY DEF Loops
<1>4. Handling(m) \ {l} = Handling(m)' \ {l} /\ Marking(m) \ {l} = Marking(m)' \ {l}
  BY <1>1, <1>3 DEF Handling, Marking
<1>5. /\ l \in Handling(m) <=> at[l] = "handle" /\ Current(l) = m
      /\ l \in Handling(m)' <=> at'[l] = "handle" /\ Current(l) = m
      /\ l \in Marking(m) <=> at[l] \in {"ack", "mark"} /\ Current(l) = m
      /\ l \in Marking(m)' <=> at'[l] \in {"ack", "mark"} /\ Current(l) = m
  BY <1>2, <1>3 DEF Handling, Marking
<1>6. /\ IsFiniteSet(Handling(m)) /\ Cardinality(Handling(m)) \in Nat
      /\ IsFiniteSet(Marking(m)) /\ Cardinality(Marking(m)) \in Nat
  BY CountsAre
<1>7. /\ IsFiniteSet(Handling(m)') /\ Cardinality(Handling(m)') \in Nat
      /\ IsFiniteSet(Marking(m)') /\ Cardinality(Marking(m)') \in Nat
  <2>1. Handling(m)' \in SUBSET Loops /\ Marking(m)' \in SUBSET Loops
    BY <1>3 DEF Handling, Marking
  <2>2. IsFiniteSet(Handling(m)') /\ IsFiniteSet(Marking(m)')
    BY <2>1, LoopsAreFinite, FS_Subset, Zenon
  <2> QED
    BY <2>2, FS_CardinalityType
<1>8. Cardinality(Handling(m)') = Cardinality(Handling(m))
          + (IF l \in Handling(m)' THEN 1 ELSE 0) - (IF l \in Handling(m) THEN 1 ELSE 0)
  BY <1>4, <1>6, <1>7, OneChanges
<1>9. Cardinality(Marking(m)') = Cardinality(Marking(m))
          + (IF l \in Marking(m)' THEN 1 ELSE 0) - (IF l \in Marking(m) THEN 1 ELSE 0)
  BY <1>4, <1>6, <1>7, OneChanges
<1>10. /\ credit[m] \in Int /\ credit[m] >= Cardinality(Handling(m))
       /\ m \notin marked' => credit[m] + Cardinality(Marking(m)) >= 1
  BY <1>t DEF CreditInv, BusTypeOK
<1>g. credit'[m] = IF m = Current(l) THEN credit[m] + d ELSE credit[m]
  BY DEF Gain
<1>11. CASE m = Current(l)
  BY <1>g, <1>5, <1>6, <1>8, <1>9, <1>10, <1>11
<1>12. CASE m # Current(l)
  BY <1>g, <1>5, <1>6, <1>8, <1>9, <1>10, <1>12
<1> QED
  BY <1>11, <1>12

\* A step that moves no loop to or from the two places that count.
LEMMA CreditElsewhere ==
  ASSUME CreditInv, UNCHANGED credit, marked \subseteq marked',
         \A k \in Loops : \/ at'[k] = at[k] /\ batch'[k] = batch[k]
                          \/ /\ at[k] \notin {"handle", "ack", "mark"}
                             /\ at'[k] \notin {"handle", "ack", "mark"}
  PROVE  CreditInv'
<1>1. Loops' = Loops
  BY DEF Loops
<1>2. ASSUME NEW m PROVE Handling(m)' = Handling(m) /\ Marking(m)' = Marking(m)
  BY <1>1 DEF Handling, Marking, Current
<1> QED
  BY <1>2 DEF CreditInv, Messages

\* Each step keeps the account.
LEMMA CreditStep == BusInv /\ CreditInv /\ [BusNext]_busVars => CreditInv'
<1> SUFFICES ASSUME BusInv, CreditInv, [BusNext]_busVars PROVE CreditInv'
  OBVIOUS
<1> USE BusBounds, Tunables DEF redis, loop, history, letter, Fault
<1>v. BusInv'
  BY BusStep
<1>t. BusTypeOK /\ BusTypeOK'
  BY <1>v DEF BusInv
<1>0. CASE UNCHANGED busVars
  BY <1>0, CreditElsewhere DEF busVars
<1>1. CASE Publish
  BY <1>1, CreditElsewhere DEF Publish
<1>2. ASSUME NEW m \in 1..read, Idle(m) PROVE CreditInv'
  BY <1>2, CreditElsewhere DEF Idle
<1>3. ASSUME NEW i \in 1..Len(dlq), BeginReplay(i) PROVE CreditInv'
  BY <1>3, CreditElsewhere DEF BeginReplay
<1>4. ASSUME \/ Replayed \/ ReplayFails \/ Expire
             \/ \E p \in Procs : Purge(p) \/ PurgeFails(p)
      PROVE  CreditInv'
  BY <1>4, CreditElsewhere DEF Replayed, ReplayFails, Expire, Purge, PurgeFails, Emptied
<1>5. ASSUME NEW l \in Loops, Poll(l) \/ AutoClaim(l) PROVE CreditInv'
  <2>1. PICK s : Take(l, s)
    BY <1>5 DEF Poll, AutoClaim
  <2>2. at[l] = "idle" /\ UNCHANGED <<credit, marked>>
    BY <1>5 DEF Poll, AutoClaim
  <2>3. at'[l] = "check" /\ \A k \in Loops \ {l} : at'[k] = at[k] /\ batch'[k] = batch[k]
    BY <1>t, <2>1 DEF Take, BusTypeOK
  <2> QED
    BY <2>2, <2>3, CreditElsewhere
<1>6. ASSUME NEW l \in Loops, Bury(l) \/ BuryFails(l) \/ Drop(l) \/ DropFails(l)
      PROVE  CreditInv'
  <2>1. /\ at[l] \in {"bury", "drop"} /\ UNCHANGED <<credit, marked>>
        /\ at'[l] \in {"drop", "check", "idle"}
        /\ \A k \in Loops \ {l} : at'[k] = at[k] /\ batch'[k] = batch[k]
    BY <1>6, <1>t DEF Bury, BuryFails, Drop, DropFails, Advance, BusTypeOK
  <2> QED
    BY <2>1, CreditElsewhere
<1>m. ASSUME NEW l \in Loops, at[l] # "idle", NEW s, Moves(l, s), NEW d \in Int, Gain(l, d),
             d >= (IF s = "handle" THEN 1 ELSE 0) - (IF at[l] = "handle" THEN 1 ELSE 0),
             d >= (IF at[l] \in {"ack", "mark"} THEN 1 ELSE 0) - (IF s \in {"ack", "mark"} THEN 1 ELSE 0)
      PROVE  CreditInv'
  <2>1. at'[l] = s /\ \A k \in Loops \ {l} : at'[k] = at[k] /\ batch'[k] = batch[k]
    BY <1>m, <1>t DEF Moves, BusTypeOK
  <2> QED
    BY <1>m, <1>v, <2>1, CreditByLoop DEF Moves
\* It goes on with the next.
<1>a. ASSUME NEW l \in Loops, at[l] # "idle", Advance(l), marked \subseteq marked',
             NEW d \in Nat, Gain(l, d),
             at[l] \in {"ack", "mark"} => Current(l) \in marked' \/ d = 1
      PROVE  CreditInv'
  <2>1. /\ at'[l] \in {"idle", "check"}
        /\ \A k \in Loops \ {l} : at'[k] = at[k] /\ batch'[k] = batch[k]
    BY <1>a, <1>t DEF Advance, BusTypeOK
  <2> QED
    BY <1>a, <1>v, <2>1, CreditByLoop
<1>7. ASSUME NEW l \in Loops, Check(l), Current(l) \in marked PROVE CreditInv'
  <2>1. Gain(l, 0)
    BY <1>7, <1>t, GainIs DEF Check
  <2> QED
    BY <1>7, <1>a, <2>1 DEF Check
<1>8. ASSUME NEW l \in Loops, Check(l), Current(l) \notin marked PROVE CreditInv'
  <2>1. at[l] = "check" /\ Proceed(l) /\ UNCHANGED marked
    BY <1>8 DEF Check
  <2>2. CASE Underway(Current(l), l)
    <3>1. Gain(l, 1)
      BY <1>t, <2>1, <2>2, GainIs DEF Proceed
    <3> QED
      <4>1. Moves(l, "handle")
        BY <2>1 DEF Proceed, Moves
      <4> QED
        BY <2>1, <3>1, <4>1, <1>m
  <2>3. CASE ~ Underway(Current(l), l)
    <3>0. PICK c \in Messages : c = Current(l)
      BY <1>t, <2>1, CurrentIs
    <3>1. Loops' = Loops /\ at'[l] = "handle" /\ \A k \in Loops : Current(k)' = Current(k)
      BY <1>t, <2>1 DEF Proceed, Loops, Current, BusTypeOK
    <3>2. \A k \in Loops \ {l} : at'[k] = at[k]
      BY <1>t, <2>1 DEF Proceed, BusTypeOK
    <3>3. UNCHANGED credit
      <4>1. credit' = [credit EXCEPT ![c] = credit[c]]
        BY <2>1, <2>3, <3>0 DEF Proceed
      <4> QED
        BY <1>t, <4>1 DEF BusTypeOK
    <3>4. Handling(c)' = {l} /\ Marking(c) = {}
      BY <2>1, <2>3, <3>0, <3>1, <3>2 DEF Handling, Marking, Underway
    <3>5. Cardinality(Handling(c)') = 1 /\ Cardinality(Marking(c)) = 0
      BY <3>4, FS_Singleton, FS_EmptySet
    <3>6. ASSUME NEW m \in Messages, m # c
          PROVE  Handling(m)' = Handling(m)
      BY <2>1, <3>0, <3>1, <3>2, <3>6 DEF Handling
    <3>7. ASSUME NEW m \in Messages PROVE Marking(m)' = Marking(m)
      BY <2>1, <3>1, <3>2 DEF Marking
    <3>8. c \in Messages /\ credit[c] \in Int /\ credit[c] >= 1
      <4>1. c \in Messages /\ credit[c] \in Int
        BY <1>t DEF BusTypeOK
      <4> QED
        BY <1>8, <3>0, <3>5, <4>1 DEF CreditInv
    <3>9. ASSUME NEW m \in Messages
          PROVE  /\ credit'[m] >= Cardinality(Handling(m)')
                 /\ m \notin marked' => credit'[m] + Cardinality(Marking(m)') >= 1
      <4>1. CASE m = c
        <5>1. credit'[m] = credit[m] /\ credit[m] >= 1 /\ credit[m] \in Int
          BY <3>3, <3>8, <4>1
        <5>2. Cardinality(Handling(m)') = 1 /\ Cardinality(Marking(m)') = 0
          BY <3>5, <3>7, <4>1
        <5> QED
          BY <5>1, <5>2
      <4>2. CASE m # c
        BY <2>1, <3>3, <3>6, <3>7, <4>2 DEF CreditInv
      <4> QED
        BY <4>1, <4>2
    <3> QED
      BY <3>9 DEF CreditInv, Messages
  <2> QED
    BY <2>2, <2>3
<1>9. ASSUME NEW l \in Loops, CheckFails(l) PROVE CreditInv'
  <2>1. Gain(l, 1)
    BY <1>9, <1>t, GainIs DEF CheckFails
  <2>2. Moves(l, "handle")
    BY <1>9 DEF CheckFails, Moves
  <2> QED
    BY <1>9, <1>m, <2>1, <2>2 DEF CheckFails
<1>10. ASSUME NEW l \in Loops, Handle(l) PROVE CreditInv'
  <2>1. Gain(l, -1)
    BY <1>10, <1>t, GainIs DEF Handle
  <2>2. Moves(l, "ack")
    BY <1>10 DEF Handle, Moves
  <2> QED
    BY <1>10, <1>m, <2>1, <2>2 DEF Handle
<1>11. ASSUME NEW l \in Loops, at[l] \in {"handle", "ack"}, Attempt(l), UNCHANGED marked,
              NEW d \in {0, 1}, Gain(l, d), at[l] = "ack" => d = 1
       PROVE  CreditInv'
  <2> DEFINE s == IF tries[l] + 1 < MaxRetries THEN "handle" ELSE "bury"
  <2>1. s \in {"handle", "bury"} /\ Moves(l, s)
    BY <1>11 DEF Attempt, Moves
  <2> HIDE DEF s
  <2> QED
    BY <1>11, <1>m, <2>1
<1>16. ASSUME NEW l \in Loops, HandleFails(l) PROVE CreditInv'
  <2>1. Gain(l, 0)
    BY <1>16, <1>t, GainIs DEF HandleFails
  <2> QED
    BY <1>16, <1>11, <2>1 DEF HandleFails
<1>17. ASSUME NEW l \in Loops, AckFails(l) PROVE CreditInv'
  <2>1. Gain(l, 1)
    BY <1>17, <1>t, GainIs DEF AckFails
  <2> QED
    BY <1>17, <1>11, <2>1 DEF AckFails
<1>12. ASSUME NEW l \in Loops, Ack(l) PROVE CreditInv'
  <2>1. Gain(l, 0)
    BY <1>12, <1>t, GainIs DEF Ack
  <2>2. Moves(l, "mark")
    BY <1>12 DEF Ack, Moves
  <2> QED
    BY <1>12, <1>m, <2>1, <2>2 DEF Ack
<1>13. ASSUME NEW l \in Loops, Mark(l) PROVE CreditInv'
  <2>1. Gain(l, 0)
    BY <1>13, <1>t, GainIs DEF Mark
  <2> QED
    BY <1>13, <1>a, <2>1 DEF Mark
<1>14. ASSUME NEW l \in Loops, MarkFails(l) PROVE CreditInv'
  <2>1. Gain(l, 1)
    BY <1>14, <1>t, GainIs DEF MarkFails
  <2> QED
    BY <1>14, <1>a, <2>1 DEF MarkFails
<1>15. ASSUME NEW p \in Procs, Stop(p) PROVE CreditInv'
  <2> SUFFICES ASSUME NEW m \in Messages
               PROVE  /\ credit'[m] >= Cardinality(Handling(m)')
                      /\ m \notin marked' => credit'[m] + Cardinality(Marking(m)') >= 1
    BY DEF CreditInv, Messages
  <2> DEFINE back == {l \in Loops : l[1] = p /\ at[l] \in {"ack", "mark"} /\ Current(l) = m}
  <2>1. credit'[m] = credit[m] + Cardinality(back) /\ UNCHANGED marked
    BY <1>15 DEF Stop
  <2>2. /\ \A l \in Loops : l[1] = p => at'[l] = "idle"
        /\ \A l \in Loops : l[1] # p => at'[l] = at[l] /\ Current(l)' = Current(l)
        /\ Loops' = Loops
    BY <1>15 DEF Stop, Current, Loops
  <2>3. Handling(m)' \in SUBSET Handling(m)
    BY <2>2 DEF Handling
  <2>4. back = Marking(m) \ Marking(m)' /\ Marking(m)' = Marking(m) \ back
        /\ back \in SUBSET Marking(m)
    BY <2>2 DEF Marking
  <2>5. /\ IsFiniteSet(Handling(m)) /\ Cardinality(Handling(m)) \in Nat
        /\ IsFiniteSet(Marking(m)) /\ Cardinality(Marking(m)) \in Nat
    BY CountsAre
  <2>6. /\ IsFiniteSet(Handling(m)') /\ Cardinality(Handling(m)') <= Cardinality(Handling(m))
        /\ IsFiniteSet(back)
    <3> HIDE DEF back
    <3> QED
      BY <2>3, <2>4, <2>5, FS_Subset
  <2>7. Cardinality(Handling(m)') \in Nat /\ Cardinality(back) \in Nat
    BY <2>6, FS_CardinalityType
  <2>8. Cardinality(Marking(m)') = Cardinality(Marking(m)) - Cardinality(back)
    <3> HIDE DEF back
    <3>1. Marking(m) \cap back = back
      BY <2>4
    <3>2. Cardinality(Marking(m) \ back) = Cardinality(Marking(m)) - Cardinality(Marking(m) \cap back)
      BY <2>5, FS_Difference
    <3> QED
      BY <2>4, <3>1, <3>2
  <2>9. credit[m] \in Int /\ credit[m] >= Cardinality(Handling(m))
        /\ (m \notin marked => credit[m] + Cardinality(Marking(m)) >= 1)
    BY <1>t DEF CreditInv, BusTypeOK
  <2> HIDE DEF back
  <2> QED
    BY <2>1, <2>5, <2>6, <2>7, <2>8, <2>9
<1> QED
  BY <1>0, <1>1, <1>2, <1>3, <1>4, <1>5, <1>6, <1>7, <1>8, <1>9, <1>10, <1>12,
     <1>13, <1>14, <1>15, <1>16, <1>17
  DEF BusNext, Work, LoopFault

\* A handler succeeds once with a message, and once more at most for every race,
\* failing call to Redis and stopped process that comes between.
THEOREM RepeatsHaveReasonsHolds == BusSpec => []RepeatsHaveReasons
<1>1. BusInit => CreditInv
  <2> SUFFICES ASSUME BusInit, NEW m \in Messages
               PROVE  /\ credit[m] >= Cardinality(Handling(m))
                      /\ m \notin marked => credit[m] + Cardinality(Marking(m)) >= 1
    BY DEF CreditInv
  <2>1. credit[m] = 1 /\ Handling(m) = {} /\ Marking(m) = {}
    BY DEF BusInit, Handling, Marking
  <2> QED
    BY <2>1, FS_EmptySet
<1>2. BusInv /\ CreditInv => RepeatsHaveReasons
  <2> SUFFICES ASSUME BusInv, CreditInv, NEW m \in Messages PROVE credit[m] >= 0
    BY DEF RepeatsHaveReasons
  <2>1. credit[m] \in Int /\ Cardinality(Handling(m)) \in Nat
    BY CountsAre DEF BusInv, BusTypeOK
  <2> QED
    BY <2>1 DEF CreditInv
<1> QED
  BY BusInitInv, BusStep, CreditStep, <1>1, <1>2, PTL DEF BusSpec
=============================================================================
