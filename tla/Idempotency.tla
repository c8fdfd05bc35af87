---------------------------- MODULE Idempotency ----------------------------
(***************************************************************************)
(* server/middleware/idempotency.js: requests that carry one idempotency   *)
(* key (one organisation, one endpoint), the row they share in             *)
(* idempotency_keys, and the periodic cleanup.                             *)
(*                                                                         *)
(* Requests run in several server processes; every database call is an     *)
(* await, so the row may change between a request's SELECT, its DELETE of  *)
(* a stale claim, its INSERT and the UPDATE in the patched res.json. A     *)
(* retry is another request with the same key. A response is named by the  *)
(* request whose handler produced it. The row's created_at and expires_at  *)
(* are one age: "fresh", "stale" (over 5 minutes), "expired" (over 24 h).  *)
(* The response column is a JSONB column, which the replay of its value    *)
(* presupposes: no value read from it is the string '{}'.                  *)
(***************************************************************************)
EXTENDS Naturals, FiniteSets

CONSTANTS
    Requests,
    Payloads,           \* what hashPayload tells apart
    None

ASSUME NoneIsNoRequest == None \notin Requests
ASSUME RequestsFinite == IsFiniteSet(Requests)

VARIABLES
    owner,              \* the request that inserted the row, None: no row
    saved,              \* response column: whose response, None: NULL
    rowAge,             \* age of the row
    pc,                 \* pc[r]: where request r is
    hash,               \* hash[r]: hash of its body
    body,               \* body[r]: whose response r sent, None: none or an error
    effect,             \* effect[r]: r's handler took effect
    bare,               \* bare[r]: r's handler ran without a claim
    deletions           \* history: how many rows were deleted, a request inserts one at most

row == <<owner, saved, rowAge, deletions>>
request == <<pc, body, effect, bare>>
vars == <<row, request, hash>>

Ages == {"fresh", "stale", "expired"}
Places == {"new", "release", "claim", "run", "save", "drop", "bare", "done", "dead"}

TypeOK ==
    /\ owner \in Requests \cup {None}
    /\ saved \in Requests \cup {None}
    /\ rowAge \in Ages
    /\ pc \in [Requests -> Places]
    /\ hash \in [Requests -> Payloads]
    /\ body \in [Requests -> Requests \cup {None}]
    /\ effect \in [Requests -> BOOLEAN]
    /\ bare \in [Requests -> BOOLEAN]
    /\ deletions \in Nat
    /\ owner = None => saved = None /\ rowAge = "fresh"

Init ==
    /\ owner = None /\ saved = None /\ rowAge = "fresh"
    /\ pc = [r \in Requests |-> "new"]
    /\ hash \in [Requests -> Payloads]
    /\ body = [r \in Requests |-> None]
    /\ effect = [r \in Requests |-> FALSE]
    /\ bare = [r \in Requests |-> FALSE]
    /\ deletions = 0

-----------------------------------------------------------------------------
InProgress == owner # None /\ saved = None
Completed == owner # None /\ saved # None
Expired == rowAge = "expired"

Goto(r, place) == pc' = [pc EXCEPT ![r] = place]

DeleteRow ==
    /\ owner' = None /\ saved' = None /\ rowAge' = "fresh"
    /\ deletions' = IF owner = None THEN deletions ELSE deletions + 1

-----------------------------------------------------------------------------
\* The SELECT found no row, or one still in progress.
Lookup(r) ==
    /\ pc[r] = "new"
    /\ \/ owner = None /\ Goto(r, "claim")
       \/ InProgress /\ rowAge = "fresh" /\ Goto(r, "done")       \* 409
       \/ InProgress /\ rowAge # "fresh" /\ Goto(r, "release")
    /\ UNCHANGED <<row, body, effect, bare, hash>>

\* The SELECT found a response: 410, replay, or 422.
Replay(r) ==
    /\ pc[r] = "new" /\ Completed
    /\ Goto(r, "done")
    /\ body' = IF ~ Expired /\ hash[owner] = hash[r]
               THEN [body EXCEPT ![r] = saved] ELSE body
    /\ UNCHANGED <<row, effect, bare, hash>>

\* The DELETE of a claim read as stale; it takes whatever row is there now.
ReleaseStale(r) ==
    /\ pc[r] = "release"
    /\ DeleteRow
    /\ Goto(r, "claim")
    /\ UNCHANGED <<body, effect, bare, hash>>

InsertRow(r) ==
    /\ owner' = r /\ saved' = None /\ rowAge' = "fresh"
    /\ UNCHANGED deletions

\* Mutant: an INSERT that overwrites on conflict.
ClaimOverwriting(r) ==
    /\ pc[r] = "claim"
    /\ InsertRow(r) /\ Goto(r, "run")
    /\ UNCHANGED <<body, effect, bare, hash>>

\* Mutant: the request goes on although the INSERT returned no row.
ClaimUnchecked(r) ==
    /\ pc[r] = "claim"
    /\ Goto(r, "run")
    /\ \/ owner = None /\ InsertRow(r)
       \/ owner # None /\ UNCHANGED row
    /\ UNCHANGED <<body, effect, bare, hash>>

\* INSERT ... ON CONFLICT DO NOTHING RETURNING key.
Claim(r) ==
    /\ pc[r] = "claim"
    /\ \/ owner = None /\ InsertRow(r) /\ Goto(r, "run")
       \/ owner # None /\ Goto(r, "done") /\ UNCHANGED row         \* 409
    /\ UNCHANGED <<body, effect, bare, hash>>

\* One of the middleware's own queries throws: next() without a claim. A lost
\* answer to the INSERT leaves its row behind.
QueryFails(r) ==
    /\ pc[r] \in {"new", "release", "claim"}
    /\ Goto(r, "bare")
    /\ \/ UNCHANGED row
       \/ pc[r] = "release" /\ DeleteRow
       \/ pc[r] = "claim" /\ owner = None /\ InsertRow(r)
    /\ UNCHANGED <<body, effect, bare, hash>>

\* The route's handler, up to its call of the patched res.json. An error it
\* answers with is saved and replayed like any response.
Run(r) ==
    /\ pc[r] = "run"
    /\ \E works \in BOOLEAN : effect' = [effect EXCEPT ![r] = works]
    /\ Goto(r, "save")
    /\ UNCHANGED <<row, body, bare, hash>>

\* The same handler with res.json as it was.
RunBare(r) ==
    /\ pc[r] = "bare"
    /\ \E works \in BOOLEAN : effect' = [effect EXCEPT ![r] = works]
    /\ bare' = [bare EXCEPT ![r] = TRUE]
    /\ body' = [body EXCEPT ![r] = r]
    /\ Goto(r, "done")
    /\ UNCHANGED <<row, hash>>

Answer(r) ==
    /\ body' = [body EXCEPT ![r] = r]
    /\ Goto(r, "done")

\* The UPDATE by key alone, whoever the row belongs to by now.
Update(r) == saved' = IF owner = None THEN None ELSE r

Save(r) ==
    /\ pc[r] = "save"
    /\ Update(r)
    /\ Answer(r)
    /\ UNCHANGED <<owner, rowAge, deletions, effect, bare, hash>>

\* The UPDATE throws, before or after it took effect.
SaveFails(r) ==
    /\ pc[r] = "save"
    /\ Update(r) \/ UNCHANGED saved
    /\ Goto(r, "drop")
    /\ UNCHANGED <<owner, rowAge, deletions, body, effect, bare, hash>>

\* Mutant: the DELETE without "AND response IS NULL".
DropAnyRow(r) ==
    /\ pc[r] = "drop"
    /\ DeleteRow
    /\ Answer(r)
    /\ UNCHANGED <<effect, bare, hash>>

\* The DELETE ... AND response IS NULL after a failed UPDATE; it may fail too.
DropClaim(r) ==
    /\ pc[r] = "drop"
    /\ \/ InProgress /\ DeleteRow
       \/ UNCHANGED row
    /\ Answer(r)
    /\ UNCHANGED <<effect, bare, hash>>

-----------------------------------------------------------------------------
\* The process serving r stops.
Crash(r) ==
    /\ pc[r] \notin {"new", "done", "dead"}
    /\ Goto(r, "dead")
    /\ UNCHANGED <<row, body, effect, bare, hash>>

\* DELETE ... WHERE expires_at < NOW().
CleanupExpired ==
    /\ owner # None /\ Expired
    /\ DeleteRow
    /\ UNCHANGED <<request, hash>>

\* Mutant: claims are never cleaned up, only old responses.
CleanupStaleNever ==
    /\ Completed /\ rowAge = "expired"
    /\ DeleteRow
    /\ UNCHANGED <<request, hash>>

\* DELETE ... WHERE response IS NULL AND created_at < NOW() - 5 minutes.
CleanupStale ==
    /\ InProgress /\ rowAge # "fresh"
    /\ DeleteRow
    /\ UNCHANGED <<request, hash>>

\* Five minutes pass, or the rest of the day.
Tick ==
    /\ owner # None /\ rowAge # "expired"
    /\ rowAge' = IF rowAge = "fresh" THEN "stale" ELSE "expired"
    /\ UNCHANGED <<owner, saved, deletions, pc, body, effect, bare, hash>>

Middleware(r) ==
    \/ Lookup(r) \/ Replay(r) \/ ReleaseStale(r) \/ Claim(r) \/ QueryFails(r)
    \/ Save(r) \/ SaveFails(r) \/ DropClaim(r)

Handler(r) == Run(r) \/ RunBare(r)

Next ==
    \/ \E r \in Requests : Middleware(r) \/ Handler(r) \/ Crash(r)
    \/ CleanupExpired \/ CleanupStale \/ Tick

\* Time passes and the cleanup timer keeps firing; nothing makes a handler
\* return or a client retry.
Spec == Init /\ [][Next]_vars /\ WF_vars(Tick) /\ WF_vars(CleanupStale)

-----------------------------------------------------------------------------
\* "1 (org + endpoint + key) -> 1 effect + 1 response", and where it ends: as
\* long as no row was deleted and no request went on after a failed query, at
\* most one handler took effect, whatever crashed and however requests crossed,
\* and every response sent came from one handler, for one payload.
OneEffectOneResponse ==
    deletions = 0 /\ (\A r \in Requests : ~ bare[r]) =>
        \A r, s \in Requests :
            /\ effect[r] /\ effect[s] => r = s
            /\ body[r] # None /\ body[s] # None => body[r] = body[s] /\ hash[r] = hash[s]

\* Past the first deletion: requests that hold a claim take effect at most once
\* more than rows were deleted. A repeat has a deleted row for each, however stale
\* claims, late DELETEs of a claim that was replaced meanwhile and INSERTs cross.
EffectsHaveReasons ==
    Cardinality({r \in Requests : effect[r] /\ ~ bare[r]}) <= 1 + deletions

\* The two ways to lose a saved response within its 24 hours. A request that
\* read the claim when it was stale deletes the row late; and, once some row was
\* deleted, a request that still believes the row its own writes its response
\* over it. Until then cleanup, the deletion after a failed UPDATE and every
\* other request leave both the row's owner and its response as they are.
ReleasedLate(r) == pc[r] = "release" /\ pc'[r] # "release" /\ owner' = None

OverwrittenLate(r) ==
    deletions > 0 /\ pc[r] = "save" /\ pc'[r] # "save" /\ saved' = r /\ owner' = owner

ResponseIsKept ==
    [][Completed /\ ~ Expired =>
          \/ UNCHANGED <<owner, saved>>
          \/ \E r \in Requests : ReleasedLate(r) \/ OverwrittenLate(r)]_vars

\* "Prevents 24h retry block": whatever became of the request that made it, no
\* claim stays in progress for good.
ClaimIsReleased == InProgress ~> ~ InProgress
=============================================================================
