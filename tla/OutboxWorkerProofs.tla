------------------------- MODULE OutboxWorkerProofs -------------------------
(***************************************************************************)
(* What the row locks of the outbox give, for any numbers of workers,      *)
(* events and faults, and any batch size. The argument: a row is locked by *)
(* one transaction at a time and is not processed while it is locked       *)
(* (Apart); so an event is dispatched again only after the transaction of  *)
(* its last dispatch lost its mark, and that took a fault (Paid).          *)
(***************************************************************************)
EXTENDS OutboxWorker, TLAPS, FiniteSetTheorems

\* Types first.
LEMMA InitType == Init => TypeOK
  BY EventsFinite, MaxFaultsIsNat DEF Init, TypeOK

\* A poll takes rows that are committed, unprocessed and locked by nobody.
LEMMA PollTakes ==
  ASSUME NEW w \in Workers, Poll(w)
  PROVE  \E B \in SUBSET ((visible \ processed) \ Locked) :
            /\ held' = [held EXCEPT ![w] = B]
            /\ todo' = [todo EXCEPT ![w] = B]
  BY DEF Poll, OldestOf

LEMMA StepType == TypeOK /\ [Next]_vars => TypeOK'
<1> SUFFICES ASSUME TypeOK, [Next]_vars PROVE TypeOK'
  OBVIOUS
<1> USE EventsFinite, MaxFaultsIsNat DEF TypeOK, table, transaction, EndTransaction, Fault
<1>1. ASSUME NEW e \in Events, Insert(e) PROVE TypeOK'
  <2>1. {f \in Events : stamp[f] # 0} \in SUBSET Events
    OBVIOUS
  <2>2. Cardinality({f \in Events : stamp[f] # 0}) \in Nat
    BY <2>1, FS_Subset, FS_CardinalityType
  <2> QED BY <1>1, <2>2 DEF Insert
<1>2. ASSUME NEW e \in Events, Publish(e) PROVE TypeOK'
  BY <1>2 DEF Publish
<1>3. ASSUME NEW w \in Workers, Poll(w) PROVE TypeOK'
  <2>1. PICK B \in SUBSET ((visible \ processed) \ Locked) :
           held' = [held EXCEPT ![w] = B] /\ todo' = [todo EXCEPT ![w] = B]
    BY <1>3, PollTakes
  <2>2. B \subseteq visible
    OBVIOUS
  <2> QED BY <1>3, <2>1, <2>2 DEF Poll
<1>4. ASSUME NEW w \in Workers, NEW e \in Events, Handle(w, e) PROVE TypeOK'
  BY <1>4 DEF Handle, IsNext
<1>5. ASSUME NEW w \in Workers, NEW e \in Events, HandleFails(w, e) PROVE TypeOK'
  BY <1>5 DEF HandleFails
<1>6. ASSUME NEW w \in Workers, Mark(w) PROVE TypeOK'
  BY <1>6 DEF Mark
<1>7. ASSUME NEW w \in Workers, MarkFails(w) PROVE TypeOK'
  BY <1>7 DEF MarkFails
<1>8. ASSUME NEW w \in Workers, Commit(w) PROVE TypeOK'
  BY <1>8 DEF Commit
<1>9. ASSUME NEW w \in Workers, Rollback(w) PROVE TypeOK'
  BY <1>9 DEF Rollback
<1>10. CASE UNCHANGED vars
  BY <1>10 DEF vars
<1> QED BY <1>1, <1>2, <1>3, <1>4, <1>5, <1>6, <1>7, <1>8, <1>9, <1>10 DEF Next, Worker

\* Every variable keeps its type; transactions only hold committed rows.
THEOREM TypeCorrect == Spec => []TypeOK
  BY InitType, StepType, PTL DEF Spec

-----------------------------------------------------------------------------
\* A row is locked by one transaction, which has it ahead, in its hands or
\* behind; no locked row is processed, and only a transaction is aborted.
Apart ==
    /\ \A w \in Workers :
           /\ todo[w] \subseteq held[w]
           /\ marked[w] \subseteq held[w]
           /\ current[w] \in held[w] \cup {None}
           /\ todo[w] \cap marked[w] = {}
           /\ current[w] \notin todo[w]
           /\ held[w] \cap processed = {}
           /\ aborted[w] => held[w] # {}
    /\ \A v, w \in Workers : v # w => held[v] \cap held[w] = {}

LEMMA StepApart == TypeOK /\ Apart /\ [Next]_vars => Apart'
<1> SUFFICES ASSUME TypeOK, Apart, [Next]_vars PROVE Apart'
  OBVIOUS
<1> USE NoneIsNoEvent DEF TypeOK, Apart, table, transaction, EndTransaction
<1>1. ASSUME NEW e \in Events, Insert(e) PROVE Apart'
  BY <1>1 DEF Insert
<1>2. ASSUME NEW e \in Events, Publish(e) PROVE Apart'
  BY <1>2 DEF Publish
<1>3. ASSUME NEW w \in Workers, Poll(w) PROVE Apart'
  <2>1. PICK B \in SUBSET ((visible \ processed) \ Locked) :
           held' = [held EXCEPT ![w] = B] /\ todo' = [todo EXCEPT ![w] = B]
    BY <1>3, PollTakes
  <2>2. \A v \in Workers : held[v] \cap B = {}
    BY <2>1 DEF Locked
  <2>3. held[w] = {}
    BY <1>3 DEF Poll, Busy
  <2>4. marked[w] = {} /\ current[w] = None
    BY <2>3
  <2>5. UNCHANGED <<processed, current, marked, aborted>> /\ ~ aborted[w]
    BY <1>3, <2>3 DEF Poll
  <2>6. B \cap processed = {}
    OBVIOUS
  <2>7. held'[w] = B /\ todo'[w] = B
    BY <2>1
  <2>8. \A v \in Workers \ {w} : held'[v] = held[v] /\ todo'[v] = todo[v]
    BY <2>1
  <2>9. \A u, v \in Workers : u # v => held'[u] \cap held'[v] = {}
    BY <2>2, <2>7, <2>8
  <2> QED BY <2>4, <2>5, <2>6, <2>7, <2>8, <2>9
<1>4. ASSUME NEW w \in Workers, NEW e \in Events, Handle(w, e) PROVE Apart'
  BY <1>4 DEF Handle, IsNext
<1>5. ASSUME NEW w \in Workers, NEW e \in Events, HandleFails(w, e) PROVE Apart'
  BY <1>5 DEF HandleFails
<1>6. ASSUME NEW w \in Workers, Mark(w) PROVE Apart'
  BY <1>6 DEF Mark
<1>7. ASSUME NEW w \in Workers, MarkFails(w) PROVE Apart'
  BY <1>7 DEF MarkFails
<1>8. ASSUME NEW w \in Workers, Commit(w) PROVE Apart'
  <2>1. processed' \subseteq processed \cup held[w]
    BY <1>8 DEF Commit
  <2> QED BY <1>8, <2>1 DEF Commit
<1>9. ASSUME NEW w \in Workers, Rollback(w) PROVE Apart'
  BY <1>9 DEF Rollback
<1>10. CASE UNCHANGED vars
  BY <1>10 DEF vars
<1> QED BY <1>1, <1>2, <1>3, <1>4, <1>5, <1>6, <1>7, <1>8, <1>9, <1>10 DEF Next, Worker

LEMMA ApartAlways == Spec => [](TypeOK /\ Apart)
<1>1. Init => Apart
  BY DEF Init, Apart
<1> QED BY <1>1, InitType, StepType, StepApart, PTL DEF Spec

\* What FOR UPDATE SKIP LOCKED is for: two workers never have one event
\* between them, from its poll to the end of the transaction.
THEOREM OneWorkerPerEventHolds == Spec => []OneWorkerPerEvent
<1>1. TypeOK /\ Apart => OneWorkerPerEvent
  BY NoneIsNoEvent DEF TypeOK, Apart, OneWorkerPerEvent
<1> QED BY <1>1, ApartAlways, PTL

-----------------------------------------------------------------------------
\* NothingIsSkipped, and of the event in a worker's hands too; what is dispatched
\* was committed.
Dispatched ==
    /\ \A e \in Events : dispatched[e] > 0 => e \in visible
    /\ \A e \in processed : dispatched[e] > 0
    /\ \A w \in Workers : \A e \in marked[w] : dispatched[e] > 0
    /\ \A w \in Workers : current[w] # None => dispatched[current[w]] > 0

LEMMA StepDispatched == TypeOK /\ Dispatched /\ [Next]_vars => Dispatched'
<1> SUFFICES ASSUME TypeOK, Dispatched, [Next]_vars PROVE Dispatched'
  OBVIOUS
<1> USE NoneIsNoEvent DEF TypeOK, Dispatched, table, transaction, EndTransaction
<1>1. ASSUME NEW e \in Events, Insert(e) PROVE Dispatched'
  BY <1>1 DEF Insert
<1>2. ASSUME NEW e \in Events, Publish(e) PROVE Dispatched'
  BY <1>2 DEF Publish
<1>3. ASSUME NEW w \in Workers, Poll(w) PROVE Dispatched'
  BY <1>3 DEF Poll
<1>4. ASSUME NEW w \in Workers, NEW e \in Events, Handle(w, e) PROVE Dispatched'
  <2>1. \A f \in Events : dispatched'[f] \in Nat /\ dispatched'[f] >= dispatched[f]
    BY <1>4 DEF Handle
  <2>2. dispatched'[e] > 0
    BY <1>4 DEF Handle
  <2>3. e \in visible /\ \A f \in Events \ {e} : dispatched'[f] = dispatched[f]
    BY <1>4 DEF Handle, IsNext
  <2> QED BY <1>4, <2>1, <2>2, <2>3 DEF Handle
<1>5. ASSUME NEW w \in Workers, NEW e \in Events, HandleFails(w, e) PROVE Dispatched'
  BY <1>5 DEF HandleFails
<1>6. ASSUME NEW w \in Workers, Mark(w) PROVE Dispatched'
  BY <1>6 DEF Mark
<1>7. ASSUME NEW w \in Workers, MarkFails(w) PROVE Dispatched'
  BY <1>7 DEF MarkFails
<1>8. ASSUME NEW w \in Workers, Commit(w) PROVE Dispatched'
  BY <1>8 DEF Commit
<1>9. ASSUME NEW w \in Workers, Rollback(w) PROVE Dispatched'
  BY <1>9 DEF Rollback
<1>10. CASE UNCHANGED vars
  BY <1>10 DEF vars
<1> QED BY <1>1, <1>2, <1>3, <1>4, <1>5, <1>6, <1>7, <1>8, <1>9, <1>10 DEF Next, Worker

\* No row is marked, let alone processed, without its event's side effect.
THEOREM NothingIsSkippedHolds == Spec => []NothingIsSkipped
<1>1. Init => Dispatched
  BY DEF Init, Dispatched
<1>2. TypeOK /\ Dispatched => NothingIsSkipped
  BY DEF TypeOK, Dispatched, NothingIsSkipped
<1> QED BY <1>1, <1>2, InitType, StepType, StepDispatched, PTL DEF Spec

-----------------------------------------------------------------------------
\* The outbox delivers at least once, in the words of AtLeastOnce: Publish accepts
\* an event, Handle delivers it, Commit closes what was marked, and every other
\* step stutters.
THEOREM ImplementsAtLeastOnce == Spec => IsAtLeastOnce
<1> DEFINE open == visible \ processed
           done == {e \in Events : dispatched[e] > 0}
<1> USE NoneIsNoEvent DEF table, transaction, EndTransaction, Fault
<1>1. Init => Delivery!Init
  BY DEF Init, Delivery!Init
<1>2. TypeOK /\ Apart /\ Dispatched /\ [Next]_vars => [Delivery!Next]_<<open, done, {}>>
  <2> SUFFICES ASSUME TypeOK, Apart, Dispatched, [Next]_vars
               PROVE  [Delivery!Next]_<<open, done, {}>>
    OBVIOUS
  <2>0. ASSUME UNCHANGED <<visible, processed, dispatched>>
        PROVE  [Delivery!Next]_<<open, done, {}>>
    BY <2>0
  <2>1. ASSUME NEW e \in Events, Publish(e) PROVE Delivery!Next
    <3>1. e \notin processed /\ ~ dispatched[e] > 0
      BY <2>1 DEF Publish, TypeOK, Dispatched
    <3>2. Delivery!Accept(e)
      BY <2>1, <3>1 DEF Publish, Delivery!Accept, Delivery!Known
    <3> QED
      BY <3>2 DEF Delivery!Next
  <2>2. ASSUME NEW w \in Workers, NEW e \in Events, Handle(w, e) PROVE Delivery!Next
    <3>1. e \in open
      BY <2>2 DEF Handle, IsNext, TypeOK, Apart
    <3>2. done' = done \cup {e} /\ UNCHANGED open
      BY <2>2 DEF Handle, TypeOK
    <3>3. Delivery!Deliver(e)
      BY <3>1, <3>2 DEF Delivery!Deliver, Delivery!Known
    <3> QED
      BY <3>3 DEF Delivery!Next
  <2>3. ASSUME NEW w \in Workers, Commit(w), ~ aborted[w] PROVE Delivery!Next
    <3>1. marked[w] \subseteq open \cap done /\ marked[w] \in SUBSET Events
      BY DEF TypeOK, Apart, Dispatched
    <3>2. open' = open \ marked[w] /\ UNCHANGED done
      BY <2>3 DEF Commit
    <3>3. Delivery!Close(marked[w])
      BY <3>1, <3>2 DEF Delivery!Close
    <3> QED
      BY <3>1, <3>3 DEF Delivery!Next
  <2>4. ASSUME NEW e \in Events, Insert(e) PROVE UNCHANGED <<visible, processed, dispatched>>
    BY <2>4 DEF Insert
  <2>5. ASSUME NEW w \in Workers,
               \/ Poll(w) \/ Mark(w) \/ MarkFails(w) \/ Rollback(w)
               \/ \E e \in Events : HandleFails(w, e)
               \/ Commit(w) /\ aborted[w]
        PROVE  UNCHANGED <<visible, processed, dispatched>>
    BY <2>5 DEF Poll, Mark, MarkFails, Rollback, HandleFails, Commit
  <2>6. CASE UNCHANGED vars
    BY <2>0, <2>6 DEF vars
  <2> QED
    BY <2>0, <2>1, <2>2, <2>3, <2>4, <2>5, <2>6 DEF Next, Worker
<1>3. Init => Dispatched
  BY DEF Init, Dispatched
<1> QED
  BY <1>1, <1>2, <1>3, ApartAlways, InitType, StepType, StepApart, StepDispatched, PTL
  DEF Spec, IsAtLeastOnce, Delivery!Spec

-----------------------------------------------------------------------------
\* The last dispatch of e is, or can still be, recorded.
Recorded(e) ==
    \/ e \in processed
    \/ \E w \in Workers : ~ aborted[w] /\ (e \in marked[w] \/ e = current[w])

\* Every dispatch but the recorded one was paid for by a fault; and the fault
\* that aborted a transaction pays for the events it has not reached, too.
Paid ==
    /\ faults \in Nat
    /\ \A e \in Events : dispatched[e] <= faults + 1
    /\ \A e \in Events : ~ Recorded(e) => dispatched[e] <= faults
    /\ \A w \in Workers : aborted[w] => \A e \in todo[w] : dispatched[e] < faults

\* A step that dispatches nothing, and whose every loss of a record is a fault.
LEMMA StillPaid ==
  ASSUME TypeOK, Paid, UNCHANGED dispatched,
         faults' = faults \/ faults' = faults + 1,
         faults' = faults => \A e \in Events : Recorded(e) => Recorded(e)',
         \A w \in Workers : aborted'[w] => \A e \in todo'[w] : dispatched[e] < faults'
  PROVE  Paid'
<1>1. \A e \in Events : dispatched'[e] = dispatched[e] /\ dispatched[e] \in Nat
  BY DEF TypeOK
<1>2. CASE faults' = faults
  BY <1>1, <1>2 DEF Paid
<1>3. CASE faults' = faults + 1
  BY <1>1, <1>3 DEF Paid
<1> QED BY <1>2, <1>3

LEMMA StepPaid == TypeOK /\ Apart /\ Paid /\ [Next]_vars => Paid'
<1> SUFFICES ASSUME TypeOK, Apart, Paid, [Next]_vars PROVE Paid'
  OBVIOUS
<1> USE NoneIsNoEvent DEF TypeOK, table, transaction, EndTransaction, Fault
<1>1. ASSUME NEW e \in Events, Insert(e) PROVE Paid'
  BY <1>1, StillPaid DEF Insert, Recorded, Paid
<1>2. ASSUME NEW e \in Events, Publish(e) PROVE Paid'
  BY <1>2, StillPaid DEF Publish, Recorded, Paid
<1>3. ASSUME NEW w \in Workers, Poll(w) PROVE Paid'
  <2>1. ~ aborted[w]
    BY <1>3 DEF Poll, Busy, Apart
  <2>2. \A v \in Workers : v # w => todo'[v] = todo[v]
    BY <1>3 DEF Poll
  <2>3. \A v \in Workers : aborted'[v] => \A e \in todo'[v] : dispatched[e] < faults'
    BY <1>3, <2>1, <2>2 DEF Poll, Paid
  <2> QED BY <1>3, <2>3, StillPaid DEF Poll, Recorded
<1>4. ASSUME NEW w \in Workers, NEW e \in Events, Handle(w, e) PROVE Paid'
  <2>1. ~ Recorded(e)
    BY <1>4 DEF Handle, IsNext, Apart, Recorded
  <2>2. dispatched[e] <= faults /\ (aborted[w] => dispatched[e] < faults)
    BY <1>4, <2>1 DEF Paid, Handle, IsNext
  <2>3. dispatched'[e] = dispatched[e] + 1 /\ faults' = faults
    BY <1>4 DEF Handle
  <2>4. \A f \in Events \ {e} : dispatched'[f] = dispatched[f]
    BY <1>4 DEF Handle
  <2>5. \A f \in Events : Recorded(f) => Recorded(f)'
    BY <1>4 DEF Handle, IsNext, Recorded
  <2>6. ~ aborted[w] => Recorded(e)'
    BY <1>4 DEF Handle, Recorded
  <2>7. \A v \in Workers : todo'[v] \subseteq todo[v] \ {e}
    BY <1>4 DEF Handle, IsNext, Apart
  <2> QED BY <1>4, <2>2, <2>3, <2>4, <2>5, <2>6, <2>7 DEF Paid, Handle
<1>5. ASSUME NEW w \in Workers, NEW e \in Events, HandleFails(w, e) PROVE Paid'
  BY <1>5, StillPaid DEF HandleFails, Recorded, Paid
<1>6. ASSUME NEW w \in Workers, Mark(w) PROVE Paid'
  BY <1>6, StillPaid DEF Mark, Recorded, Paid
<1>7. ASSUME NEW w \in Workers, MarkFails(w) PROVE Paid'
  <2>1. \A e \in todo[w] : ~ Recorded(e)
    BY <1>7 DEF Apart, Recorded
  <2>2. \A e \in todo[w] : e \in Events /\ dispatched[e] <= faults
    BY <2>1 DEF Paid
  <2>3. faults' = faults + 1 /\ todo' = todo /\ dispatched' = dispatched
    BY <1>7 DEF MarkFails
  <2>4. \A v \in Workers : v # w => aborted'[v] = aborted[v]
    BY <1>7 DEF MarkFails
  <2>5. \A v \in Workers : aborted'[v] => \A e \in todo'[v] : dispatched[e] < faults'
    BY <2>2, <2>3, <2>4 DEF Paid
  <2> QED BY <2>3, <2>5, StillPaid
<1>8. ASSUME NEW w \in Workers, Commit(w) PROVE Paid'
  BY <1>8, StillPaid DEF Commit, Recorded, Paid
<1>9. ASSUME NEW w \in Workers, Rollback(w) PROVE Paid'
  BY <1>9, StillPaid DEF Rollback, Paid
<1>10. CASE UNCHANGED vars
  BY <1>10, StillPaid DEF vars, Recorded, Paid
<1> QED BY <1>1, <1>2, <1>3, <1>4, <1>5, <1>6, <1>7, <1>8, <1>9, <1>10 DEF Next, Worker

\* Only faults repeat a dispatch, each at most once per event.
THEOREM RepeatsAreFaultsHold == Spec => []RepeatsAreFaults
<1>1. Init => Paid
  BY DEF Init, Paid
<1>2. TypeOK /\ Paid => RepeatsAreFaults
  BY DEF TypeOK, Paid, RepeatsAreFaults
<1> QED BY <1>1, <1>2, ApartAlways, InitType, StepType, StepApart, StepPaid, PTL DEF Spec
=============================================================================
