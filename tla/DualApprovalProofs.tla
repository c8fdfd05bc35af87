------------------------ MODULE DualApprovalProofs ------------------------
(***************************************************************************)
(* TLAPS proofs about DualApproval, for any sets of requests, concurrent   *)
(* calls and users.                                                        *)
(*                                                                         *)
(* The argument for the two-person rule: what a call read (read[c])        *)
(* stays a person who did approve even when the row is overwritten, because *)
(* firsts only grows; so the checks made at read time still hold of the    *)
(* people at the time of the purge.                                        *)
(***************************************************************************)
EXTENDS DualApproval, TLAPS

\* An unsubmitted request has no approver, no purge and no call.
Untouched ==
    \A r \in Requests : status[r] = "none" =>
        /\ first[r] = None /\ second[r] = None
        /\ firsts[r] = {}
        /\ purgedBy[r] = <<>>
        /\ \A c \in Calls : req[c] # r

\* The recorded first approver did approve, and is never the requester.
FirstsAreApprovers ==
    \A r \in Requests :
        /\ first[r] # None => first[r] \in firsts[r]
        /\ status[r] = "pending_second" => first[r] # None
        /\ requestedBy[r] \notin firsts[r]

\* What the SoD checks established of a call at read time still holds of it.
CallsPassedSoD ==
    \A c \in Calls :
        /\ at[c] \in Executing \cup {"first", "second"} => who[c] # requestedBy[req[c]]
        /\ at[c] \in Executing \cup {"second"} =>
              read[c] \in firsts[req[c]] /\ read[c] # who[c]

SoDInv == Untouched /\ FirstsAreApprovers /\ CallsPassedSoD

\* A call about to purge has its DUAL_APPROVAL_COMPLETED entry in the log.
CompletedIsLogged ==
    \A c \in Calls : at[c] = "purge" => Entry(c, "COMPLETED") \in audit

LEMMA InitType == Init => TypeOK
  BY DEF Init, TypeOK, MaybeUser, Statuses, Steps, Actions, Executing

LEMMA StepType == TypeOK /\ [Next]_vars => TypeOK'
<1> SUFFICES ASSUME TypeOK, [Next]_vars PROVE TypeOK'
  OBVIOUS
<1> USE DEF TypeOK, MaybeUser, Statuses, Steps, Executing, Begin, Goto, Finish, Log, Entry, Entries,
            queue, origin, calls, history, vars
<1>1. ASSUME NEW c \in Calls, NEW r \in Requests, NEW u \in Users, NEW a \in Actions,
             Submit(c, r, u, a)
      PROVE  TypeOK'
  BY <1>1 DEF Submit
<1>2. ASSUME NEW c \in Calls, NEW r \in Requests, NEW u \in Users, ReadExpired(c, r, u)
      PROVE  TypeOK'
  BY <1>2 DEF ReadExpired
<1>3. ASSUME NEW c \in Calls, NEW r \in Requests, NEW u \in Users, ReadForFirst(c, r, u)
      PROVE  TypeOK'
  BY <1>3 DEF ReadForFirst
<1>4. ASSUME NEW c \in Calls, NEW r \in Requests, NEW u \in Users, ReadForSecond(c, r, u)
      PROVE  TypeOK'
  BY <1>4 DEF ReadForSecond
<1>5. ASSUME NEW c \in Calls, SubmitAudit(c) PROVE TypeOK'
  BY <1>5 DEF SubmitAudit
<1>6. ASSUME NEW c \in Calls, MarkExpired(c) PROVE TypeOK'
  BY <1>6 DEF MarkExpired
<1>7. ASSUME NEW c \in Calls, FirstUpdate(c) PROVE TypeOK'
  BY <1>7 DEF FirstUpdate
<1>8. ASSUME NEW c \in Calls, FirstAudit(c) PROVE TypeOK'
  BY <1>8 DEF FirstAudit
<1>9. ASSUME NEW c \in Calls, SecondUpdate(c) PROVE TypeOK'
  BY <1>9 DEF SecondUpdate, Approve
<1>10. ASSUME NEW c \in Calls, SecondAudit(c) PROVE TypeOK'
  BY <1>10 DEF SecondAudit
<1>11. ASSUME NEW c \in Calls, PurgeUpdate(c) PROVE TypeOK'
  BY <1>11 DEF PurgeUpdate
<1>12. ASSUME NEW c \in Calls, PurgeAudit(c) PROVE TypeOK'
  BY <1>12 DEF PurgeAudit
<1>13. ASSUME NEW c \in Calls, PurgeFails(c) PROVE TypeOK'
  BY <1>13 DEF PurgeFails
<1>14. ASSUME NEW c \in Calls, MarkExecuted(c) PROVE TypeOK'
  BY <1>14 DEF MarkExecuted
<1>15. ASSUME NEW c \in Calls, Abort(c) PROVE TypeOK'
  BY <1>15 DEF Abort
<1>16. ASSUME NEW r \in Requests, Expire(r) PROVE TypeOK'
  BY <1>16 DEF Expire
<1>17. CASE UNCHANGED vars
  BY <1>17
<1> QED
  BY <1>1, <1>2, <1>3, <1>4, <1>5, <1>6, <1>7, <1>8, <1>9, <1>10, <1>11, <1>12, <1>13, <1>14,
     <1>15, <1>16, <1>17 DEF Next, Arrive, Continue

\* Type correctness of the queue, the calls and the log under every interleaving.
THEOREM TypeCorrect == Spec => []TypeOK
  BY InitType, StepType, PTL DEF Spec

-----------------------------------------------------------------------------
LEMMA InitSoD == Init => SoDInv
<1> SUFFICES ASSUME Init PROVE SoDInv
  OBVIOUS
<1>1. Untouched
  BY NoneIsNoRequest DEF Init, Untouched
<1>2. FirstsAreApprovers
  BY DEF Init, FirstsAreApprovers
<1>3. CallsPassedSoD
  BY DEF Init, CallsPassedSoD, Executing
<1> QED
  BY <1>1, <1>2, <1>3 DEF SoDInv

LEMMA StepUntouched == TypeOK /\ SoDInv /\ [Next]_vars => Untouched'
<1> SUFFICES ASSUME TypeOK, Untouched, CallsPassedSoD, [Next]_vars PROVE Untouched'
  BY DEF SoDInv
<1> USE NoneIsNoUser, NoneIsNoRequest
    DEF TypeOK, Untouched, CallsPassedSoD, MaybeUser, Executing, Begin, Goto, Finish,
        queue, origin, calls, history, vars
<1>1. ASSUME NEW c \in Calls, NEW r \in Requests, NEW u \in Users, NEW a \in Actions,
             Submit(c, r, u, a)
      PROVE  Untouched'
  BY <1>1 DEF Submit
<1>2. ASSUME NEW c \in Calls, NEW r \in Requests, NEW u \in Users, ReadExpired(c, r, u)
      PROVE  Untouched'
  BY <1>2 DEF ReadExpired
<1>3. ASSUME NEW c \in Calls, NEW r \in Requests, NEW u \in Users, ReadForFirst(c, r, u)
      PROVE  Untouched'
  BY <1>3 DEF ReadForFirst
<1>4. ASSUME NEW c \in Calls, NEW r \in Requests, NEW u \in Users, ReadForSecond(c, r, u)
      PROVE  Untouched'
  BY <1>4 DEF ReadForSecond
<1>5. ASSUME NEW c \in Calls, SubmitAudit(c) PROVE Untouched'
  BY <1>5 DEF SubmitAudit
<1>6. ASSUME NEW c \in Calls, MarkExpired(c) PROVE Untouched'
  BY <1>6 DEF MarkExpired
<1>7. ASSUME NEW c \in Calls, FirstUpdate(c) PROVE Untouched'
  BY <1>7 DEF FirstUpdate
<1>8. ASSUME NEW c \in Calls, FirstAudit(c) PROVE Untouched'
  BY <1>8 DEF FirstAudit
<1>9. ASSUME NEW c \in Calls, SecondUpdate(c) PROVE Untouched'
  BY <1>9 DEF SecondUpdate, Approve
<1>10. ASSUME NEW c \in Calls, SecondAudit(c) PROVE Untouched'
  BY <1>10 DEF SecondAudit
<1>11. ASSUME NEW c \in Calls, PurgeUpdate(c) PROVE Untouched'
  BY <1>11 DEF PurgeUpdate
<1>12. ASSUME NEW c \in Calls, PurgeAudit(c) PROVE Untouched'
  BY <1>12 DEF PurgeAudit
<1>13. ASSUME NEW c \in Calls, PurgeFails(c) PROVE Untouched'
  BY <1>13 DEF PurgeFails
<1>14. ASSUME NEW c \in Calls, MarkExecuted(c) PROVE Untouched'
  BY <1>14 DEF MarkExecuted
<1>15. ASSUME NEW c \in Calls, Abort(c) PROVE Untouched'
  BY <1>15 DEF Abort
<1>16. ASSUME NEW r \in Requests, Expire(r) PROVE Untouched'
  BY <1>16 DEF Expire
<1>17. CASE UNCHANGED vars
  BY <1>17
<1> QED
  BY <1>1, <1>2, <1>3, <1>4, <1>5, <1>6, <1>7, <1>8, <1>9, <1>10, <1>11, <1>12, <1>13, <1>14,
     <1>15, <1>16, <1>17 DEF Next, Arrive, Continue, vars, queue, origin, calls, history

LEMMA StepFirsts == TypeOK /\ SoDInv /\ [Next]_vars => FirstsAreApprovers'
<1> SUFFICES ASSUME TypeOK, Untouched, FirstsAreApprovers, CallsPassedSoD, [Next]_vars
             PROVE  FirstsAreApprovers'
  BY DEF SoDInv
<1> USE NoneIsNoUser
    DEF TypeOK, Untouched, FirstsAreApprovers, CallsPassedSoD, MaybeUser, Executing,
        Begin, Goto, Finish, queue, origin, calls, history, vars
<1>1. ASSUME NEW c \in Calls, NEW r \in Requests, NEW u \in Users, NEW a \in Actions,
             Submit(c, r, u, a)
      PROVE  FirstsAreApprovers'
  BY <1>1 DEF Submit
<1>2. ASSUME NEW c \in Calls, NEW r \in Requests, NEW u \in Users, ReadExpired(c, r, u)
      PROVE  FirstsAreApprovers'
  BY <1>2 DEF ReadExpired
<1>3. ASSUME NEW c \in Calls, NEW r \in Requests, NEW u \in Users, ReadForFirst(c, r, u)
      PROVE  FirstsAreApprovers'
  BY <1>3 DEF ReadForFirst
<1>4. ASSUME NEW c \in Calls, NEW r \in Requests, NEW u \in Users, ReadForSecond(c, r, u)
      PROVE  FirstsAreApprovers'
  BY <1>4 DEF ReadForSecond
<1>5. ASSUME NEW c \in Calls, SubmitAudit(c) PROVE FirstsAreApprovers'
  BY <1>5 DEF SubmitAudit
<1>6. ASSUME NEW c \in Calls, MarkExpired(c) PROVE FirstsAreApprovers'
  BY <1>6 DEF MarkExpired
<1>7. ASSUME NEW c \in Calls, FirstUpdate(c) PROVE FirstsAreApprovers'
  BY <1>7 DEF FirstUpdate
<1>8. ASSUME NEW c \in Calls, FirstAudit(c) PROVE FirstsAreApprovers'
  BY <1>8 DEF FirstAudit
<1>9. ASSUME NEW c \in Calls, SecondUpdate(c) PROVE FirstsAreApprovers'
  BY <1>9 DEF SecondUpdate, Approve
<1>10. ASSUME NEW c \in Calls, SecondAudit(c) PROVE FirstsAreApprovers'
  BY <1>10 DEF SecondAudit
<1>11. ASSUME NEW c \in Calls, PurgeUpdate(c) PROVE FirstsAreApprovers'
  BY <1>11 DEF PurgeUpdate
<1>12. ASSUME NEW c \in Calls, PurgeAudit(c) PROVE FirstsAreApprovers'
  BY <1>12 DEF PurgeAudit
<1>13. ASSUME NEW c \in Calls, PurgeFails(c) PROVE FirstsAreApprovers'
  BY <1>13 DEF PurgeFails
<1>14. ASSUME NEW c \in Calls, MarkExecuted(c) PROVE FirstsAreApprovers'
  BY <1>14 DEF MarkExecuted
<1>15. ASSUME NEW c \in Calls, Abort(c) PROVE FirstsAreApprovers'
  BY <1>15 DEF Abort
<1>16. ASSUME NEW r \in Requests, Expire(r) PROVE FirstsAreApprovers'
  BY <1>16 DEF Expire
<1>17. CASE UNCHANGED vars
  BY <1>17
<1> QED
  BY <1>1, <1>2, <1>3, <1>4, <1>5, <1>6, <1>7, <1>8, <1>9, <1>10, <1>11, <1>12, <1>13, <1>14,
     <1>15, <1>16, <1>17 DEF Next, Arrive, Continue, vars, queue, origin, calls, history

LEMMA StepCalls == TypeOK /\ SoDInv /\ [Next]_vars => CallsPassedSoD'
<1> SUFFICES ASSUME TypeOK, Untouched, FirstsAreApprovers, CallsPassedSoD, [Next]_vars
             PROVE  CallsPassedSoD'
  BY DEF SoDInv
<1> USE NoneIsNoUser
    DEF TypeOK, Untouched, FirstsAreApprovers, CallsPassedSoD, MaybeUser, Executing,
        Begin, Goto, Finish, queue, origin, calls, history, vars
<1>1. ASSUME NEW c \in Calls, NEW r \in Requests, NEW u \in Users, NEW a \in Actions,
             Submit(c, r, u, a)
      PROVE  CallsPassedSoD'
  BY <1>1 DEF Submit
<1>2. ASSUME NEW c \in Calls, NEW r \in Requests, NEW u \in Users, ReadExpired(c, r, u)
      PROVE  CallsPassedSoD'
  BY <1>2 DEF ReadExpired
<1>3. ASSUME NEW c \in Calls, NEW r \in Requests, NEW u \in Users, ReadForFirst(c, r, u)
      PROVE  CallsPassedSoD'
  BY <1>3 DEF ReadForFirst
<1>4. ASSUME NEW c \in Calls, NEW r \in Requests, NEW u \in Users, ReadForSecond(c, r, u)
      PROVE  CallsPassedSoD'
  BY <1>4 DEF ReadForSecond
<1>5. ASSUME NEW c \in Calls, SubmitAudit(c) PROVE CallsPassedSoD'
  BY <1>5 DEF SubmitAudit
<1>6. ASSUME NEW c \in Calls, MarkExpired(c) PROVE CallsPassedSoD'
  BY <1>6 DEF MarkExpired
<1>7. ASSUME NEW c \in Calls, FirstUpdate(c) PROVE CallsPassedSoD'
  BY <1>7 DEF FirstUpdate
<1>8. ASSUME NEW c \in Calls, FirstAudit(c) PROVE CallsPassedSoD'
  BY <1>8 DEF FirstAudit
<1>9. ASSUME NEW c \in Calls, SecondUpdate(c) PROVE CallsPassedSoD'
  BY <1>9 DEF SecondUpdate, Approve
<1>10. ASSUME NEW c \in Calls, SecondAudit(c) PROVE CallsPassedSoD'
  BY <1>10 DEF SecondAudit
<1>11. ASSUME NEW c \in Calls, PurgeUpdate(c) PROVE CallsPassedSoD'
  BY <1>11 DEF PurgeUpdate
<1>12. ASSUME NEW c \in Calls, PurgeAudit(c) PROVE CallsPassedSoD'
  BY <1>12 DEF PurgeAudit
<1>13. ASSUME NEW c \in Calls, PurgeFails(c) PROVE CallsPassedSoD'
  BY <1>13 DEF PurgeFails
<1>14. ASSUME NEW c \in Calls, MarkExecuted(c) PROVE CallsPassedSoD'
  BY <1>14 DEF MarkExecuted
<1>15. ASSUME NEW c \in Calls, Abort(c) PROVE CallsPassedSoD'
  BY <1>15 DEF Abort
<1>16. ASSUME NEW r \in Requests, Expire(r) PROVE CallsPassedSoD'
  BY <1>16 DEF Expire
<1>17. CASE UNCHANGED vars
  BY <1>17
<1> QED
  BY <1>1, <1>2, <1>3, <1>4, <1>5, <1>6, <1>7, <1>8, <1>9, <1>10, <1>11, <1>12, <1>13, <1>14,
     <1>15, <1>16, <1>17 DEF Next, Arrive, Continue, vars, queue, origin, calls, history

\* The separation-of-duties facts hold whatever overwrites the row.
LEMMA SoDHolds == Spec => []SoDInv
<1>1. TypeOK /\ SoDInv /\ [Next]_vars => SoDInv'
  BY StepUntouched, StepFirsts, StepCalls DEF SoDInv
<1> QED
  BY <1>1, InitSoD, TypeCorrect, PTL DEF Spec

-----------------------------------------------------------------------------
LEMMA StepTwoPerson ==
    TypeOK /\ SoDInv /\ TwoPersonRule /\ [Next]_vars => TwoPersonRule'
<1> SUFFICES ASSUME TypeOK, Untouched, FirstsAreApprovers, CallsPassedSoD, TwoPersonRule, [Next]_vars
             PROVE  TwoPersonRule'
  BY DEF SoDInv
<1> USE DEF TypeOK, Untouched, TwoPersonRule, Begin, Goto, Finish,
            queue, origin, calls, history, vars
<1>1. ASSUME NEW c \in Calls, NEW r \in Requests, NEW u \in Users, NEW a \in Actions,
             Submit(c, r, u, a)
      PROVE  TwoPersonRule'
  BY <1>1 DEF Submit
<1>2. ASSUME NEW c \in Calls, NEW r \in Requests, NEW u \in Users, ReadExpired(c, r, u)
      PROVE  TwoPersonRule'
  BY <1>2 DEF ReadExpired
<1>3. ASSUME NEW c \in Calls, NEW r \in Requests, NEW u \in Users, ReadForFirst(c, r, u)
      PROVE  TwoPersonRule'
  BY <1>3 DEF ReadForFirst
<1>4. ASSUME NEW c \in Calls, NEW r \in Requests, NEW u \in Users, ReadForSecond(c, r, u)
      PROVE  TwoPersonRule'
  BY <1>4 DEF ReadForSecond
<1>5. ASSUME NEW c \in Calls, SubmitAudit(c) PROVE TwoPersonRule'
  BY <1>5 DEF SubmitAudit
<1>6. ASSUME NEW c \in Calls, MarkExpired(c) PROVE TwoPersonRule'
  BY <1>6 DEF MarkExpired
<1>7. ASSUME NEW c \in Calls, FirstUpdate(c) PROVE TwoPersonRule'
  BY <1>7 DEF FirstUpdate
<1>8. ASSUME NEW c \in Calls, FirstAudit(c) PROVE TwoPersonRule'
  BY <1>8 DEF FirstAudit
<1>9. ASSUME NEW c \in Calls, SecondUpdate(c) PROVE TwoPersonRule'
  BY <1>9 DEF SecondUpdate, Approve
<1>10. ASSUME NEW c \in Calls, SecondAudit(c) PROVE TwoPersonRule'
  BY <1>10 DEF SecondAudit
<1>11. ASSUME NEW c \in Calls, PurgeUpdate(c) PROVE TwoPersonRule'
  <2> DEFINE q == req[c]
  <2>1. q \in Requests /\ who[c] \in Users
    BY <1>11 DEF PurgeUpdate
  <2>2. who[c] # requestedBy[q] /\ read[c] \in firsts[q] /\ read[c] \notin {who[c], requestedBy[q]}
    BY <1>11, <2>1 DEF PurgeUpdate, CallsPassedSoD, FirstsAreApprovers, Executing
  <2>3. /\ purgedBy' = [purgedBy EXCEPT ![q] = Append(@, who[c])]
        /\ UNCHANGED <<requestedBy, firsts>>
    BY <1>11 DEF PurgeUpdate
  <2> HIDE DEF q
  <2> SUFFICES ASSUME NEW r \in Requests, NEW i \in 1..Len(purgedBy'[r])
               PROVE  /\ purgedBy'[r][i] # requestedBy[r]
                      /\ \E v \in firsts[r] : v \notin {purgedBy'[r][i], requestedBy[r]}
    BY <2>3
  <2>4. CASE r = q /\ i = Len(purgedBy[q]) + 1
    BY <2>1, <2>2, <2>3, <2>4
  <2>5. CASE ~(r = q /\ i = Len(purgedBy[q]) + 1)
    <3>1. i \in 1..Len(purgedBy[r]) /\ purgedBy'[r][i] = purgedBy[r][i]
      BY <2>1, <2>3, <2>5
    <3> QED
      BY <3>1
  <2> QED
    BY <2>4, <2>5
<1>12. ASSUME NEW c \in Calls, PurgeAudit(c) PROVE TwoPersonRule'
  BY <1>12 DEF PurgeAudit
<1>13. ASSUME NEW c \in Calls, PurgeFails(c) PROVE TwoPersonRule'
  BY <1>13 DEF PurgeFails
<1>14. ASSUME NEW c \in Calls, MarkExecuted(c) PROVE TwoPersonRule'
  BY <1>14 DEF MarkExecuted
<1>15. ASSUME NEW c \in Calls, Abort(c) PROVE TwoPersonRule'
  BY <1>15 DEF Abort
<1>16. ASSUME NEW r \in Requests, Expire(r) PROVE TwoPersonRule'
  BY <1>16 DEF Expire
<1>17. CASE UNCHANGED vars
  BY <1>17
<1> QED
  BY <1>1, <1>2, <1>3, <1>4, <1>5, <1>6, <1>7, <1>8, <1>9, <1>10, <1>11, <1>12, <1>13, <1>14,
     <1>15, <1>16, <1>17 DEF Next, Arrive, Continue, vars, queue, origin, calls, history

\* No user gets a purge through alone, whatever the interleaving.
THEOREM TwoPersonRuleHolds == Spec => []TwoPersonRule
<1>1. Init => TwoPersonRule
  BY DEF Init, TwoPersonRule
<1> QED
  BY <1>1, StepTwoPerson, SoDHolds, TypeCorrect, PTL DEF Spec

-----------------------------------------------------------------------------
LEMMA StepLogged == TypeOK /\ CompletedIsLogged /\ [Next]_vars => CompletedIsLogged'
<1> SUFFICES ASSUME TypeOK, CompletedIsLogged, [Next]_vars PROVE CompletedIsLogged'
  OBVIOUS
<1> USE DEF TypeOK, CompletedIsLogged, Entry, Log, Begin, Goto, Finish,
            queue, origin, calls, history, vars
<1>1. ASSUME NEW c \in Calls, NEW r \in Requests, NEW u \in Users, NEW a \in Actions,
             Submit(c, r, u, a)
      PROVE  CompletedIsLogged'
  BY <1>1 DEF Submit
<1>2. ASSUME NEW c \in Calls, NEW r \in Requests, NEW u \in Users, ReadExpired(c, r, u)
      PROVE  CompletedIsLogged'
  BY <1>2 DEF ReadExpired
<1>3. ASSUME NEW c \in Calls, NEW r \in Requests, NEW u \in Users, ReadForFirst(c, r, u)
      PROVE  CompletedIsLogged'
  BY <1>3 DEF ReadForFirst
<1>4. ASSUME NEW c \in Calls, NEW r \in Requests, NEW u \in Users, ReadForSecond(c, r, u)
      PROVE  CompletedIsLogged'
  BY <1>4 DEF ReadForSecond
<1>5. ASSUME NEW c \in Calls, SubmitAudit(c) PROVE CompletedIsLogged'
  BY <1>5 DEF SubmitAudit
<1>6. ASSUME NEW c \in Calls, MarkExpired(c) PROVE CompletedIsLogged'
  BY <1>6 DEF MarkExpired
<1>7. ASSUME NEW c \in Calls, FirstUpdate(c) PROVE CompletedIsLogged'
  BY <1>7 DEF FirstUpdate
<1>8. ASSUME NEW c \in Calls, FirstAudit(c) PROVE CompletedIsLogged'
  BY <1>8 DEF FirstAudit
<1>9. ASSUME NEW c \in Calls, SecondUpdate(c) PROVE CompletedIsLogged'
  BY <1>9 DEF SecondUpdate, Approve
<1>10. ASSUME NEW c \in Calls, SecondAudit(c) PROVE CompletedIsLogged'
  BY <1>10 DEF SecondAudit
<1>11. ASSUME NEW c \in Calls, PurgeUpdate(c) PROVE CompletedIsLogged'
  BY <1>11 DEF PurgeUpdate
<1>12. ASSUME NEW c \in Calls, PurgeAudit(c) PROVE CompletedIsLogged'
  BY <1>12 DEF PurgeAudit
<1>13. ASSUME NEW c \in Calls, PurgeFails(c) PROVE CompletedIsLogged'
  BY <1>13 DEF PurgeFails
<1>14. ASSUME NEW c \in Calls, MarkExecuted(c) PROVE CompletedIsLogged'
  BY <1>14 DEF MarkExecuted
<1>15. ASSUME NEW c \in Calls, Abort(c) PROVE CompletedIsLogged'
  BY <1>15 DEF Abort
<1>16. ASSUME NEW r \in Requests, Expire(r) PROVE CompletedIsLogged'
  BY <1>16 DEF Expire
<1>17. CASE UNCHANGED vars
  BY <1>17
<1> QED
  BY <1>1, <1>2, <1>3, <1>4, <1>5, <1>6, <1>7, <1>8, <1>9, <1>10, <1>11, <1>12, <1>13, <1>14,
     <1>15, <1>16, <1>17 DEF Next, Arrive, Continue, vars, queue, origin, calls, history

LEMMA StepAudited ==
    TypeOK /\ SoDInv /\ CompletedIsLogged /\ PurgeIsAudited /\ [Next]_vars => PurgeIsAudited'
<1> SUFFICES ASSUME TypeOK, Untouched, FirstsAreApprovers, CallsPassedSoD, CompletedIsLogged,
                    PurgeIsAudited, [Next]_vars
             PROVE  PurgeIsAudited'
  BY DEF SoDInv
<1> USE DEF TypeOK, Untouched, PurgeIsAudited, Log, Begin, Goto, Finish,
            queue, origin, calls, history, vars
<1>1. ASSUME NEW c \in Calls, NEW r \in Requests, NEW u \in Users, NEW a \in Actions,
             Submit(c, r, u, a)
      PROVE  PurgeIsAudited'
  <2>1. /\ status[r] = "none" /\ UNCHANGED <<purgedBy, firsts, audit>>
        /\ \A q \in Requests : q # r => requestedBy'[q] = requestedBy[q]
    BY <1>1 DEF Submit
  <2>2. purgedBy[r] = <<>>
    BY <2>1
  <2> QED
    BY <2>1, <2>2
<1>2. ASSUME NEW c \in Calls, NEW r \in Requests, NEW u \in Users, ReadExpired(c, r, u)
      PROVE  PurgeIsAudited'
  BY <1>2 DEF ReadExpired
<1>3. ASSUME NEW c \in Calls, NEW r \in Requests, NEW u \in Users, ReadForFirst(c, r, u)
      PROVE  PurgeIsAudited'
  BY <1>3 DEF ReadForFirst
<1>4. ASSUME NEW c \in Calls, NEW r \in Requests, NEW u \in Users, ReadForSecond(c, r, u)
      PROVE  PurgeIsAudited'
  BY <1>4 DEF ReadForSecond
<1>5. ASSUME NEW c \in Calls, SubmitAudit(c) PROVE PurgeIsAudited'
  BY <1>5 DEF SubmitAudit
<1>6. ASSUME NEW c \in Calls, MarkExpired(c) PROVE PurgeIsAudited'
  BY <1>6 DEF MarkExpired
<1>7. ASSUME NEW c \in Calls, FirstUpdate(c) PROVE PurgeIsAudited'
  BY <1>7 DEF FirstUpdate
<1>8. ASSUME NEW c \in Calls, FirstAudit(c) PROVE PurgeIsAudited'
  BY <1>8 DEF FirstAudit
<1>9. ASSUME NEW c \in Calls, SecondUpdate(c) PROVE PurgeIsAudited'
  BY <1>9 DEF SecondUpdate, Approve
<1>10. ASSUME NEW c \in Calls, SecondAudit(c) PROVE PurgeIsAudited'
  BY <1>10 DEF SecondAudit
<1>11. ASSUME NEW c \in Calls, PurgeUpdate(c) PROVE PurgeIsAudited'
  <2> DEFINE q == req[c]
             InLog(r, u, v) == [kind |-> "COMPLETED", req |-> r, actor |-> u, first |-> v] \in audit
  <2>1. q \in Requests /\ who[c] \in Users
    BY <1>11 DEF PurgeUpdate
  <2>2. /\ read[c] \in firsts[q] /\ read[c] \notin {who[c], requestedBy[q]}
        /\ InLog(q, who[c], read[c])
    BY <1>11, <2>1 DEF PurgeUpdate, CallsPassedSoD, FirstsAreApprovers, Executing,
                       CompletedIsLogged, Entry
  <2>3. /\ purgedBy' = [purgedBy EXCEPT ![q] = Append(@, who[c])]
        /\ UNCHANGED <<requestedBy, firsts, audit>>
    BY <1>11 DEF PurgeUpdate
  <2> HIDE DEF q, InLog
  <2> SUFFICES ASSUME NEW r \in Requests, NEW i \in 1..Len(purgedBy'[r])
               PROVE  \E v \in firsts[r] : /\ v \notin {purgedBy'[r][i], requestedBy[r]}
                                          /\ InLog(r, purgedBy'[r][i], v)
    BY <2>3 DEF InLog
  <2>4. CASE r = q /\ i = Len(purgedBy[q]) + 1
    BY <2>1, <2>2, <2>3, <2>4
  <2>5. CASE ~(r = q /\ i = Len(purgedBy[q]) + 1)
    <3>1. i \in 1..Len(purgedBy[r]) /\ purgedBy'[r][i] = purgedBy[r][i]
      BY <2>1, <2>3, <2>5
    <3> QED
      BY <3>1 DEF InLog
  <2> QED
    BY <2>4, <2>5
<1>12. ASSUME NEW c \in Calls, PurgeAudit(c) PROVE PurgeIsAudited'
  BY <1>12 DEF PurgeAudit
<1>13. ASSUME NEW c \in Calls, PurgeFails(c) PROVE PurgeIsAudited'
  BY <1>13 DEF PurgeFails
<1>14. ASSUME NEW c \in Calls, MarkExecuted(c) PROVE PurgeIsAudited'
  BY <1>14 DEF MarkExecuted
<1>15. ASSUME NEW c \in Calls, Abort(c) PROVE PurgeIsAudited'
  BY <1>15 DEF Abort
<1>16. ASSUME NEW r \in Requests, Expire(r) PROVE PurgeIsAudited'
  BY <1>16 DEF Expire
<1>17. CASE UNCHANGED vars
  BY <1>17
<1> QED
  BY <1>1, <1>2, <1>3, <1>4, <1>5, <1>6, <1>7, <1>8, <1>9, <1>10, <1>11, <1>12, <1>13, <1>14,
     <1>15, <1>16, <1>17 DEF Next, Arrive, Continue, vars, queue, origin, calls, history

\* Every purge is covered by an audit entry that names two approvers.
THEOREM PurgeIsAuditedHolds == Spec => []PurgeIsAudited
<1>1. Init => CompletedIsLogged /\ PurgeIsAudited
  BY DEF Init, CompletedIsLogged, PurgeIsAudited
<1> QED
  BY <1>1, StepLogged, StepAudited, SoDHolds, TypeCorrect, PTL DEF Spec

-----------------------------------------------------------------------------
\* A call that starts takes an idle slot, so no executor disappears.
LEMMA BeginKeepsExecutors ==
    ASSUME TypeOK, ApprovedHasExecutor,
           NEW c \in Calls, NEW r \in Requests, NEW u, NEW step, Begin(c, r, u, step),
           aborted' = aborted,
           \A q \in Requests : status'[q] = "approved" => status[q] = "approved"
    PROVE  ApprovedHasExecutor'
<1>1. at[c] = "idle" /\ at' = [at EXCEPT ![c] = step] /\ req' = [req EXCEPT ![c] = r]
  BY DEF Begin
<1>2. \A d \in Calls : d # c => at'[d] = at[d] /\ req'[d] = req[d]
  BY <1>1 DEF TypeOK
<1> SUFFICES ASSUME NEW q \in Requests, status'[q] = "approved", ~aborted[q]
             PROVE  \E d \in Calls : req'[d] = q /\ at'[d] \in Executing
  BY DEF ApprovedHasExecutor
<1>3. PICK d \in Calls : req[d] = q /\ at[d] \in Executing
  BY DEF ApprovedHasExecutor
<1>4. d # c
  BY <1>1, <1>3 DEF Executing
<1> QED
  BY <1>2, <1>3, <1>4

LEMMA StepExecutor == TypeOK /\ ApprovedHasExecutor /\ [Next]_vars => ApprovedHasExecutor'
<1> SUFFICES ASSUME TypeOK, ApprovedHasExecutor, [Next]_vars PROVE ApprovedHasExecutor'
  OBVIOUS
<1> USE NoneIsNoRequest
    DEF TypeOK, ApprovedHasExecutor, Executing, Begin, Goto, Finish,
        queue, origin, calls, history, vars
<1>1. ASSUME NEW c \in Calls, NEW r \in Requests, NEW u \in Users, NEW a \in Actions,
             Submit(c, r, u, a)
      PROVE  ApprovedHasExecutor'
  <2>1. \A q \in Requests : status'[q] = "approved" => status[q] = "approved"
    BY <1>1 DEF Submit
  <2>2. Begin(c, r, u, "submit_audit") /\ aborted' = aborted
    BY <1>1 DEF Submit
  <2> QED
    BY <2>1, <2>2, BeginKeepsExecutors
<1>2. ASSUME NEW c \in Calls, NEW r \in Requests, NEW u \in Users, ReadExpired(c, r, u)
      PROVE  ApprovedHasExecutor'
  <2>1. Begin(c, r, u, "expire") /\ UNCHANGED <<status, aborted>>
    BY <1>2 DEF ReadExpired
  <2> QED
    BY <2>1, BeginKeepsExecutors
<1>3. ASSUME NEW c \in Calls, NEW r \in Requests, NEW u \in Users, ReadForFirst(c, r, u)
      PROVE  ApprovedHasExecutor'
  <2>1. Begin(c, r, u, "first") /\ UNCHANGED <<status, aborted>>
    BY <1>3 DEF ReadForFirst
  <2> QED
    BY <2>1, BeginKeepsExecutors
<1>4. ASSUME NEW c \in Calls, NEW r \in Requests, NEW u \in Users, ReadForSecond(c, r, u)
      PROVE  ApprovedHasExecutor'
  <2>1. Begin(c, r, u, "second") /\ UNCHANGED <<status, aborted>>
    BY <1>4 DEF ReadForSecond
  <2> QED
    BY <2>1, BeginKeepsExecutors
<1>5. ASSUME NEW c \in Calls, SubmitAudit(c) PROVE ApprovedHasExecutor'
  BY <1>5 DEF SubmitAudit
<1>6. ASSUME NEW c \in Calls, MarkExpired(c) PROVE ApprovedHasExecutor'
  BY <1>6 DEF MarkExpired
<1>7. ASSUME NEW c \in Calls, FirstUpdate(c) PROVE ApprovedHasExecutor'
  BY <1>7 DEF FirstUpdate
<1>8. ASSUME NEW c \in Calls, FirstAudit(c) PROVE ApprovedHasExecutor'
  BY <1>8 DEF FirstAudit
<1>9. ASSUME NEW c \in Calls, SecondUpdate(c) PROVE ApprovedHasExecutor'
  BY <1>9 DEF SecondUpdate, Approve
<1>10. ASSUME NEW c \in Calls, SecondAudit(c) PROVE ApprovedHasExecutor'
  BY <1>10 DEF SecondAudit
<1>11. ASSUME NEW c \in Calls, PurgeUpdate(c) PROVE ApprovedHasExecutor'
  BY <1>11 DEF PurgeUpdate
<1>12. ASSUME NEW c \in Calls, PurgeAudit(c) PROVE ApprovedHasExecutor'
  BY <1>12 DEF PurgeAudit
<1>13. ASSUME NEW c \in Calls, PurgeFails(c) PROVE ApprovedHasExecutor'
  BY <1>13 DEF PurgeFails
<1>14. ASSUME NEW c \in Calls, MarkExecuted(c) PROVE ApprovedHasExecutor'
  BY <1>14 DEF MarkExecuted
<1>15. ASSUME NEW c \in Calls, Abort(c) PROVE ApprovedHasExecutor'
  BY <1>15 DEF Abort
<1>16. ASSUME NEW r \in Requests, Expire(r) PROVE ApprovedHasExecutor'
  BY <1>16 DEF Expire
<1>17. CASE UNCHANGED vars
  BY <1>17
<1> QED
  BY <1>1, <1>2, <1>3, <1>4, <1>5, <1>6, <1>7, <1>8, <1>9, <1>10, <1>11, <1>12, <1>13, <1>14,
     <1>15, <1>16, <1>17 DEF Next, Arrive, Continue, vars, queue, origin, calls, history

\* Only a call that died can leave an approved request nobody executes.
THEOREM ApprovedHasExecutorHolds == Spec => []ApprovedHasExecutor
<1>1. Init => ApprovedHasExecutor
  BY DEF Init, ApprovedHasExecutor
<1> QED
  BY <1>1, StepExecutor, TypeCorrect, PTL DEF Spec

-----------------------------------------------------------------------------
\* While calls on a request do not overlap, the one in flight has read the
\* current row, and the purge has not run before its step.
SerialInv ==
    \A r \in Requests : ~raced[r] =>
        /\ \A c, d \in Calls : req[c] = r /\ req[d] = r => c = d
        /\ status[r] \in {"pending_first", "pending_second"} =>
              second[r] = None /\ purgedBy[r] = <<>>
        /\ \A c \in Calls : req[c] = r =>
              /\ at[c] = "first" => status[r] = "pending_first"
              /\ at[c] = "second" => status[r] = "pending_second" /\ read[c] = first[r]
              /\ at[c] \in {"second_audit", "purge"} =>
                    status[r] = "approved" /\ purgedBy[r] = <<>>
              /\ at[c] \in Executing => status[r] = "approved"

LEMMA StepSerial == TypeOK /\ SoDInv /\ SerialInv /\ [Next]_vars => SerialInv'
<1> SUFFICES ASSUME TypeOK, Untouched, SerialInv, [Next]_vars PROVE SerialInv'
  BY DEF SoDInv
<1> USE NoneIsNoRequest
    DEF TypeOK, Untouched, SerialInv, Executing, Begin, Goto, Finish,
        queue, origin, calls, history, vars
<1>1. ASSUME NEW c \in Calls, NEW r \in Requests, NEW u \in Users, NEW a \in Actions,
             Submit(c, r, u, a)
      PROVE  SerialInv'
  BY <1>1 DEF Submit
<1>2. ASSUME NEW c \in Calls, NEW r \in Requests, NEW u \in Users, ReadExpired(c, r, u)
      PROVE  SerialInv'
  BY <1>2 DEF ReadExpired
<1>3. ASSUME NEW c \in Calls, NEW r \in Requests, NEW u \in Users, ReadForFirst(c, r, u)
      PROVE  SerialInv'
  <2>1. /\ UNCHANGED <<status, first, second, purgedBy>>
        /\ raced' = [raced EXCEPT ![r] = @ \/ \E d \in Calls : req[d] = r]
    BY <1>3 DEF ReadForFirst
  <2>2. ASSUME NEW q \in Requests, ~raced'[q] PROVE ~raced[q] /\ (q = r => \A d \in Calls : req[d] # r)
    BY <2>1, <2>2
  <2>3. req' = [req EXCEPT ![c] = r] /\ at[c] = "idle"
    BY <1>3 DEF ReadForFirst
  <2>4. ASSUME NEW q \in Requests, q # r, ~raced'[q] PROVE \A d \in Calls : req'[d] = q => d # c /\ req[d] = q
    BY <2>3, <2>4
  <2> QED
    BY <1>3, <2>1, <2>2, <2>3, <2>4 DEF ReadForFirst
<1>4. ASSUME NEW c \in Calls, NEW r \in Requests, NEW u \in Users, ReadForSecond(c, r, u)
      PROVE  SerialInv'
  <2>1. /\ UNCHANGED <<status, first, second, purgedBy>>
        /\ raced' = [raced EXCEPT ![r] = @ \/ \E d \in Calls : req[d] = r]
    BY <1>4 DEF ReadForSecond
  <2>2. ASSUME NEW q \in Requests, ~raced'[q] PROVE ~raced[q] /\ (q = r => \A d \in Calls : req[d] # r)
    BY <2>1, <2>2
  <2>3. req' = [req EXCEPT ![c] = r] /\ at[c] = "idle"
    BY <1>4 DEF ReadForSecond
  <2>4. ASSUME NEW q \in Requests, q # r, ~raced'[q] PROVE \A d \in Calls : req'[d] = q => d # c /\ req[d] = q
    BY <2>3, <2>4
  <2> QED
    BY <1>4, <2>1, <2>2, <2>3, <2>4 DEF ReadForSecond
<1>5. ASSUME NEW c \in Calls, SubmitAudit(c) PROVE SerialInv'
  BY <1>5 DEF SubmitAudit
<1>6. ASSUME NEW c \in Calls, MarkExpired(c) PROVE SerialInv'
  BY <1>6 DEF MarkExpired
<1>7. ASSUME NEW c \in Calls, FirstUpdate(c) PROVE SerialInv'
  BY <1>7 DEF FirstUpdate
<1>8. ASSUME NEW c \in Calls, FirstAudit(c) PROVE SerialInv'
  BY <1>8 DEF FirstAudit
<1>9. ASSUME NEW c \in Calls, SecondUpdate(c) PROVE SerialInv'
  BY <1>9 DEF SecondUpdate, Approve
<1>10. ASSUME NEW c \in Calls, SecondAudit(c) PROVE SerialInv'
  BY <1>10 DEF SecondAudit
<1>11. ASSUME NEW c \in Calls, PurgeUpdate(c) PROVE SerialInv'
  BY <1>11 DEF PurgeUpdate
<1>12. ASSUME NEW c \in Calls, PurgeAudit(c) PROVE SerialInv'
  BY <1>12 DEF PurgeAudit
<1>13. ASSUME NEW c \in Calls, PurgeFails(c) PROVE SerialInv'
  BY <1>13 DEF PurgeFails
<1>14. ASSUME NEW c \in Calls, MarkExecuted(c) PROVE SerialInv'
  BY <1>14 DEF MarkExecuted
<1>15. ASSUME NEW c \in Calls, Abort(c) PROVE SerialInv'
  BY <1>15 DEF Abort
<1>16. ASSUME NEW r \in Requests, Expire(r) PROVE SerialInv'
  BY <1>16 DEF Expire
<1>17. CASE UNCHANGED vars
  BY <1>17
<1> QED
  BY <1>1, <1>2, <1>3, <1>4, <1>5, <1>6, <1>7, <1>8, <1>9, <1>10, <1>11, <1>12, <1>13, <1>14,
     <1>15, <1>16, <1>17 DEF Next, Arrive, Continue, vars, queue, origin, calls, history

LEMMA StepSafe ==
    TypeOK /\ SoDInv /\ SerialInv /\ SerialCallsAreSafe /\ [Next]_vars => SerialCallsAreSafe'
<1> SUFFICES ASSUME TypeOK, Untouched, FirstsAreApprovers, CallsPassedSoD, SerialInv,
                    SerialCallsAreSafe, [Next]_vars
             PROVE  SerialCallsAreSafe'
  BY DEF SoDInv
<1> USE NoneIsNoUser
    DEF TypeOK, Untouched, FirstsAreApprovers, CallsPassedSoD, SerialInv, SerialCallsAreSafe,
        Executing, Begin, Goto, Finish, queue, origin, calls, history, vars
<1>1. ASSUME NEW c \in Calls, NEW r \in Requests, NEW u \in Users, NEW a \in Actions,
             Submit(c, r, u, a)
      PROVE  SerialCallsAreSafe'
  BY <1>1 DEF Submit
<1>2. ASSUME NEW c \in Calls, NEW r \in Requests, NEW u \in Users, ReadExpired(c, r, u)
      PROVE  SerialCallsAreSafe'
  BY <1>2 DEF ReadExpired
<1>3. ASSUME NEW c \in Calls, NEW r \in Requests, NEW u \in Users, ReadForFirst(c, r, u)
      PROVE  SerialCallsAreSafe'
  BY <1>3 DEF ReadForFirst
<1>4. ASSUME NEW c \in Calls, NEW r \in Requests, NEW u \in Users, ReadForSecond(c, r, u)
      PROVE  SerialCallsAreSafe'
  BY <1>4 DEF ReadForSecond
<1>5. ASSUME NEW c \in Calls, SubmitAudit(c) PROVE SerialCallsAreSafe'
  BY <1>5 DEF SubmitAudit
<1>6. ASSUME NEW c \in Calls, MarkExpired(c) PROVE SerialCallsAreSafe'
  BY <1>6 DEF MarkExpired
<1>7. ASSUME NEW c \in Calls, FirstUpdate(c) PROVE SerialCallsAreSafe'
  BY <1>7 DEF FirstUpdate
<1>8. ASSUME NEW c \in Calls, FirstAudit(c) PROVE SerialCallsAreSafe'
  BY <1>8 DEF FirstAudit
<1>9. ASSUME NEW c \in Calls, SecondUpdate(c) PROVE SerialCallsAreSafe'
  BY <1>9 DEF SecondUpdate, Approve
<1>10. ASSUME NEW c \in Calls, SecondAudit(c) PROVE SerialCallsAreSafe'
  BY <1>10 DEF SecondAudit
<1>11. ASSUME NEW c \in Calls, PurgeUpdate(c) PROVE SerialCallsAreSafe'
  BY <1>11 DEF PurgeUpdate
<1>12. ASSUME NEW c \in Calls, PurgeAudit(c) PROVE SerialCallsAreSafe'
  BY <1>12 DEF PurgeAudit
<1>13. ASSUME NEW c \in Calls, PurgeFails(c) PROVE SerialCallsAreSafe'
  BY <1>13 DEF PurgeFails
<1>14. ASSUME NEW c \in Calls, MarkExecuted(c) PROVE SerialCallsAreSafe'
  BY <1>14 DEF MarkExecuted
<1>15. ASSUME NEW c \in Calls, Abort(c) PROVE SerialCallsAreSafe'
  BY <1>15 DEF Abort
<1>16. ASSUME NEW r \in Requests, Expire(r) PROVE SerialCallsAreSafe'
  BY <1>16 DEF Expire
<1>17. CASE UNCHANGED vars
  BY <1>17
<1> QED
  BY <1>1, <1>2, <1>3, <1>4, <1>5, <1>6, <1>7, <1>8, <1>9, <1>10, <1>11, <1>12, <1>13, <1>14,
     <1>15, <1>16, <1>17 DEF Next, Arrive, Continue, vars, queue, origin, calls, history

\* Without overlapping calls the row is truthful and the purge runs at most once.
THEOREM SerialCallsAreSafeHolds == Spec => []SerialCallsAreSafe
<1>1. Init => SerialInv /\ SerialCallsAreSafe
  BY NoneIsNoRequest DEF Init, SerialInv, SerialCallsAreSafe
<1> QED
  BY <1>1, StepSerial, StepSafe, SoDHolds, TypeCorrect, PTL DEF Spec

=============================================================================
