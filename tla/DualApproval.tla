---------------------------- MODULE DualApproval ----------------------------
(***************************************************************************)
(* server/routes/dual-approval.js: irreversible actions that two people,   *)
(* neither of them the requester, have to approve.                         *)
(*                                                                         *)
(* Every db.get / db.run of the Express handlers is its own autocommitted  *)
(* statement, and the handler checks the row it READ, not the row it then  *)
(* UPDATEs (every UPDATE has only "WHERE id = ?"), so each statement is    *)
(* one action here and calls of several users interleave between them.     *)
(*                                                                         *)
(* A refused call (404, 403, 400) writes nothing: it is a stuttering step  *)
(* and has no action.                                                      *)
(***************************************************************************)
EXTENDS Naturals, Sequences

CONSTANTS
    Requests,   \* ids of dual_approval_queue
    Calls,      \* HTTP calls that can be in flight together; a slot is reused
    Users,      \* users with permission gdpr_masking:execute
    None        \* SQL NULL, and the fields of an idle slot

ASSUME NoneIsNoUser == None \notin Users
ASSUME NoneIsNoRequest == None \notin Requests

VARIABLES
    status, first, second,      \* columns of a row; first and second: the approvers
    requestedBy, action, late,  \* columns written once, and expires_at < now
    at, req, who, read,         \* a call's next statement, its :id, req.user, and the
                                \* first_approver its SELECT returned
    audit,                      \* audit_log, as the set of entries about these requests
    purgedBy,                   \* history: who ran executeGDPRPurge's UPDATE, in order
    firsts,                     \* history: users whose first approval was written
    raced,                      \* history: two calls on the request were in flight together
    aborted                     \* history: a call on the request died in the middle

queue == <<status, first, second>>
origin == <<requestedBy, action>>
calls == <<at, req, who, read>>
history == <<purgedBy, firsts, aborted>>
vars == <<queue, origin, late, calls, audit, raced, history>>

Actions == {"gdpr:purge", "constitutional:amend"}
Statuses == {"none", "pending_first", "pending_second", "approved", "executed", "expired"}
MaybeUser == Users \cup {None}

\* The statements between an accepted second approval and the end of the handler.
Executing == {"second_audit", "purge", "purge_audit", "mark"}
Steps == Executing \cup {"idle", "submit_audit", "expire", "first", "first_audit", "second"}

Entries ==
    [kind : {"REQUESTED", "FIRST", "COMPLETED", "PURGED"}, req : Requests,
     actor : Users, first : MaybeUser]

TypeOK ==
    /\ status \in [Requests -> Statuses]
    /\ first \in [Requests -> MaybeUser] /\ second \in [Requests -> MaybeUser]
    /\ requestedBy \in [Requests -> MaybeUser] /\ action \in [Requests -> Actions]
    /\ late \in [Requests -> BOOLEAN]
    /\ at \in [Calls -> Steps]
    /\ req \in [Calls -> Requests \cup {None}]
    /\ who \in [Calls -> MaybeUser] /\ read \in [Calls -> MaybeUser]
    /\ \A c \in Calls : at[c] # "idle" => req[c] \in Requests /\ who[c] \in Users
    /\ audit \subseteq Entries
    /\ purgedBy \in [Requests -> Seq(Users)]
    /\ firsts \in [Requests -> SUBSET Users]
    /\ raced \in [Requests -> BOOLEAN] /\ aborted \in [Requests -> BOOLEAN]

Init ==
    /\ status = [r \in Requests |-> "none"]
    /\ first = [r \in Requests |-> None] /\ second = [r \in Requests |-> None]
    /\ requestedBy = [r \in Requests |-> None]
    /\ action = [r \in Requests |-> "gdpr:purge"]
    /\ late = [r \in Requests |-> FALSE]
    /\ at = [c \in Calls |-> "idle"]
    /\ req = [c \in Calls |-> None]
    /\ who = [c \in Calls |-> None] /\ read = [c \in Calls |-> None]
    /\ audit = {}
    /\ purgedBy = [r \in Requests |-> <<>>]
    /\ firsts = [r \in Requests |-> {}]
    /\ raced = [r \in Requests |-> FALSE] /\ aborted = [r \in Requests |-> FALSE]

-----------------------------------------------------------------------------
\* A call on r starts and stops before its first UPDATE or audit entry.
Begin(c, r, u, step) ==
    /\ at[c] = "idle"
    /\ at' = [at EXCEPT ![c] = step]
    /\ req' = [req EXCEPT ![c] = r]
    /\ who' = [who EXCEPT ![c] = u]
    /\ read' = [read EXCEPT ![c] = first[r]]
    /\ raced' = [raced EXCEPT ![r] = @ \/ \E d \in Calls : req[d] = r]

Goto(c, step) ==
    /\ at' = [at EXCEPT ![c] = step]
    /\ UNCHANGED <<req, who, read, raced>>

Finish(c) ==
    /\ at' = [at EXCEPT ![c] = "idle"]
    /\ req' = [req EXCEPT ![c] = None]
    /\ who' = [who EXCEPT ![c] = None]
    /\ read' = [read EXCEPT ![c] = None]
    /\ UNCHANGED raced

Entry(c, kind) == [kind |-> kind, req |-> req[c], actor |-> who[c], first |-> read[c]]
Log(c, kind) == audit' = audit \cup {Entry(c, kind)}

\* POST /request: the INSERT; the audit entry is SubmitAudit.
Submit(c, r, u, a) ==
    /\ status[r] = "none"
    /\ Begin(c, r, u, "submit_audit")
    /\ status' = [status EXCEPT ![r] = "pending_first"]
    /\ requestedBy' = [requestedBy EXCEPT ![r] = u]
    /\ action' = [action EXCEPT ![r] = a]
    /\ UNCHANGED <<first, second, late, audit, history>>

SubmitAudit(c) ==
    /\ at[c] = "submit_audit"
    /\ Log(c, "REQUESTED")
    /\ Finish(c)
    /\ UNCHANGED <<queue, origin, late, history>>

\* expires_at is 72 hours after the INSERT.
Expire(r) ==
    /\ status[r] # "none"
    /\ late' = [late EXCEPT ![r] = TRUE]
    /\ UNCHANGED <<queue, origin, calls, audit, raced, history>>

-----------------------------------------------------------------------------
\* POST /:id/approve: the SELECT and the checks made on what it returned.
ReadExpired(c, r, u) ==
    /\ status[r] # "none"
    /\ late[r]
    /\ Begin(c, r, u, "expire")
    /\ UNCHANGED <<queue, origin, late, audit, history>>

ReadForFirst(c, r, u) ==
    /\ status[r] = "pending_first"
    /\ ~late[r]
    /\ requestedBy[r] # u
    /\ Begin(c, r, u, "first")
    /\ UNCHANGED <<queue, origin, late, audit, history>>

\* Mutant: the first approver may come back as the second.
ReadForSecondBySame(c, r, u) ==
    /\ status[r] = "pending_second" /\ ~late[r] /\ requestedBy[r] # u
    /\ Begin(c, r, u, "second")
    /\ UNCHANGED <<queue, origin, late, audit, history>>

\* Mutant: a row that a crash left 'approved' can be approved again.
ReadForSecondResume(c, r, u) ==
    /\ status[r] \in {"pending_second", "approved"} /\ ~late[r]
    /\ u \notin {requestedBy[r], first[r]}
    /\ Begin(c, r, u, "second")
    /\ UNCHANGED <<queue, origin, late, audit, history>>

ReadForSecond(c, r, u) ==
    /\ status[r] = "pending_second"
    /\ ~late[r]
    /\ requestedBy[r] # u
    /\ first[r] # u
    /\ Begin(c, r, u, "second")
    /\ UNCHANGED <<queue, origin, late, audit, history>>

MarkExpired(c) ==
    /\ at[c] = "expire"
    /\ status' = [status EXCEPT ![req[c]] = "expired"]
    /\ Finish(c)
    /\ UNCHANGED <<first, second, origin, late, audit, history>>

FirstUpdate(c) ==
    /\ at[c] = "first"
    /\ first' = [first EXCEPT ![req[c]] = who[c]]
    /\ status' = [status EXCEPT ![req[c]] = "pending_second"]
    /\ firsts' = [firsts EXCEPT ![req[c]] = @ \cup {who[c]}]
    /\ Goto(c, "first_audit")
    /\ UNCHANGED <<second, origin, late, audit, purgedBy, aborted>>

FirstAudit(c) ==
    /\ at[c] = "first_audit"
    /\ Log(c, "FIRST")
    /\ Finish(c)
    /\ UNCHANGED <<queue, origin, late, history>>

Approve(c) ==
    /\ at[c] = "second"
    /\ second' = [second EXCEPT ![req[c]] = who[c]]
    /\ status' = [status EXCEPT ![req[c]] = "approved"]
    /\ UNCHANGED <<first, origin, late, audit, history>>

\* Mutant: execute first, write the audit entry at the end.
SecondUpdateAuditLast(c) == Approve(c) /\ Goto(c, "purge")

\* Mutant: answer as soon as the second approval is stored.
SecondUpdateThenReply(c) == Approve(c) /\ Finish(c)

SecondUpdate(c) == Approve(c) /\ Goto(c, "second_audit")

\* Only gdpr:purge has an executor; the other action goes straight to the last UPDATE.
SecondAudit(c) ==
    /\ at[c] = "second_audit"
    /\ Log(c, "COMPLETED")
    /\ Goto(c, IF action[req[c]] = "gdpr:purge" THEN "purge" ELSE "mark")
    /\ UNCHANGED <<queue, origin, late, history>>

\* executeGDPRPurge: the UPDATE of users, then its audit entry. It catches its
\* own errors and returns success: false, which the caller does not look at.
PurgeUpdate(c) ==
    /\ at[c] = "purge"
    /\ purgedBy' = [purgedBy EXCEPT ![req[c]] = Append(@, who[c])]
    /\ Goto(c, "purge_audit")
    /\ UNCHANGED <<queue, origin, late, audit, firsts, aborted>>

PurgeAudit(c) ==
    /\ at[c] = "purge_audit"
    /\ Log(c, "PURGED")
    /\ Goto(c, "mark")
    /\ UNCHANGED <<queue, origin, late, history>>

PurgeFails(c) ==
    /\ at[c] \in {"purge", "purge_audit"}
    /\ Goto(c, "mark")
    /\ UNCHANGED <<queue, origin, late, audit, history>>

MarkExecuted(c) ==
    /\ at[c] = "mark"
    /\ status' = [status EXCEPT ![req[c]] = "executed"]
    /\ Finish(c)
    /\ UNCHANGED <<first, second, origin, late, audit, history>>

\* A rejected statement is answered with 500 and what was written stays; a
\* process that dies leaves the same behind.
Abort(c) ==
    /\ at[c] # "idle"
    /\ aborted' = [aborted EXCEPT ![req[c]] = TRUE]
    /\ Finish(c)
    /\ UNCHANGED <<queue, origin, late, audit, purgedBy, firsts>>

-----------------------------------------------------------------------------
Arrive(c, r, u) ==
    \/ \E a \in Actions : Submit(c, r, u, a)
    \/ ReadExpired(c, r, u)
    \/ ReadForFirst(c, r, u)
    \/ ReadForSecond(c, r, u)

Continue(c) ==
    \/ SubmitAudit(c)
    \/ MarkExpired(c)
    \/ FirstUpdate(c)
    \/ FirstAudit(c)
    \/ SecondUpdate(c)
    \/ SecondAudit(c)
    \/ PurgeUpdate(c)
    \/ PurgeAudit(c)
    \/ PurgeFails(c)
    \/ MarkExecuted(c)
    \/ Abort(c)

Next ==
    \/ \E c \in Calls, r \in Requests, u \in Users : Arrive(c, r, u)
    \/ \E c \in Calls : Continue(c)
    \/ \E r \in Requests : Expire(r)

Spec == Init /\ [][Next]_vars

-----------------------------------------------------------------------------
\* Whoever purged, somebody else had approved first, and neither of the two is
\* the requester: however calls interleave and rows are overwritten, no user
\* gets a purge through alone (the two SoD checks of POST /:id/approve).
TwoPersonRule ==
    \A r \in Requests : \A i \in 1..Len(purgedBy[r]) :
        /\ purgedBy[r][i] # requestedBy[r]
        /\ \E v \in firsts[r] : v \notin {purgedBy[r][i], requestedBy[r]}

\* A purge is never ahead of its audit entry, and the entry names two approvers
\* that differ from each other and from the requester. The row cannot be relied
\* on for that (see RowNamesTwoApprovers); the entry is made from the snapshot.
PurgeIsAudited ==
    \A r \in Requests : \A i \in 1..Len(purgedBy[r]) :
        \E v \in firsts[r] :
            /\ v \notin {purgedBy[r][i], requestedBy[r]}
            /\ [kind |-> "COMPLETED", req |-> r, actor |-> purgedBy[r][i], first |-> v] \in audit

\* A row in status 'approved' has a call on its way to execute it, unless a call
\* on it died: nothing else re-drives an approved row, so one left behind by a
\* crash is the only way to an approved action that never runs.
ApprovedHasExecutor ==
    \A r \in Requests :
        status[r] = "approved" =>
            aborted[r] \/ \E c \in Calls : req[c] = r /\ at[c] \in Executing

\* As long as the calls on a request come one after the other, the row keeps two
\* different approvers and the purge runs at most once, crashes and late
\* expiries included. Every way to lose this needs two calls in flight.
SerialCallsAreSafe ==
    \A r \in Requests :
        ~raced[r] =>
            /\ second[r] # None => first[r] \notin {None, second[r]}
            /\ Len(purgedBy[r]) <= 1

\* The header's "Second approver (# requester, # first)", read off the row.
RowNamesTwoApprovers ==
    \A r \in Requests : second[r] # None => second[r] # first[r]
=============================================================================
