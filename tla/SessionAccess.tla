---------------------------- MODULE SessionAccess ----------------------------
(***************************************************************************)
(* Who gets which token: the creation of sessions with their join tokens,  *)
(* joining, and machine tokens (internal/session/repository.go), with the  *)
(* handlers in front of them (internal/server/sessions.go).                *)
(*                                                                         *)
(* Requests run side by side, in one process or in two during a restart.   *)
(* A transaction that writes holds SQLite's write lock from its first      *)
(* write on; one that has read before it writes fails when somebody else   *)
(* has written meanwhile.  Any statement can fail, and a client that goes  *)
(* away cancels what is left of its request.                               *)
(*                                                                         *)
(* The session that create request r inserts is named r, and its tokens    *)
(* <<r, role>>; ids, tokens and room domains are random and never collide. *)
(***************************************************************************)
EXTENDS Integers, FiniteSets

CONSTANTS
    Requests,   \* requests to create a session
    Slugs,
    Issuers,    \* callers of IssueMachineToken
    None,       \* no writer, no session
    MaxIssues,  \* bound on machine tokens
    MaxFaults   \* bound on failing statements and clients that go away

ASSUME NoneAssumption == None \notin Requests \cup Issuers
ASSUME BoundsAssumption == MaxIssues \in Nat /\ MaxFaults \in Nat

Roles == {"host", "guest"}

VARIABLES
    sessions,   \* committed rows of sessions
    slug,       \* the slug each request asks for
    tokens,     \* committed rows of session_access_tokens
    used,       \* those with a last_used_at
    timeline,   \* sessions with their session.created event
    machine,    \* machine_token_hash, as the number of the token; 0 is null
    instance,   \* sessions with an instance_id
    writer,     \* the holder of the write lock
    pc,         \* how far each request has come
    reply,      \* what its client was told
    told,       \* the tokens that clients were told
    target,     \* the session of each IssueMachineToken in progress
    fresh,      \* issuers that saw what is still the last commit
    issued,     \* the number of the last machine token
    faults

tableVars == <<sessions, tokens, used, timeline, machine, instance>>
requestVars == <<slug, pc, reply, told>>
issueVars == <<target, fresh, issued>>
vars == <<tableVars, writer, requestVars, issueVars, faults>>

TypeOK ==
    /\ sessions \in SUBSET Requests
    /\ slug \in [Requests -> Slugs]
    /\ tokens \in SUBSET (Requests \X Roles)
    /\ used \in SUBSET tokens
    /\ timeline \in SUBSET Requests
    /\ machine \in [Requests -> 0..MaxIssues]
    /\ instance \in SUBSET sessions
    /\ writer \in Requests \cup {None}
    /\ pc \in [Requests -> {"new", "check", "insert", "commit", "read", "load", "over"}]
    /\ reply \in [Requests -> {"none", "created", "conflict", "error", "lost"}]
    /\ told \in SUBSET (Requests \X Roles)
    /\ target \in [Issuers -> Requests \cup {None}]
    /\ fresh \in SUBSET Issuers
    /\ issued \in 0..MaxIssues
    /\ faults \in 0..MaxFaults
    /\ \A r \in Requests : writer = r <=> pc[r] = "commit"

Init ==
    /\ sessions = {} /\ tokens = {} /\ used = {} /\ timeline = {}
    /\ machine = [r \in Requests |-> 0]
    /\ instance = {}
    /\ writer = None
    /\ slug \in [Requests -> Slugs]
    /\ pc = [r \in Requests |-> "new"]
    /\ reply = [r \in Requests |-> "none"]
    /\ told = {}
    /\ target = [c \in Issuers |-> None]
    /\ fresh = {}
    /\ issued = 0
    /\ faults = 0

Fault == faults < MaxFaults /\ faults' = faults + 1

Goto(r, where) == pc' = [pc EXCEPT ![r] = where]

\* Request r is answered.
Answer(r, what) ==
    /\ Goto(r, "over")
    /\ reply' = [reply EXCEPT ![r] = what]

SlugExists(s) == \E r \in sessions : slug[r] = s

-----------------------------------------------------------------------------
(***************************************************************************)
(* POST /api/sessions: the checks, the transaction, and reading back twice.*)
(***************************************************************************)
Post(r) ==
    /\ pc[r] = "new"
    /\ Goto(r, "check")
    /\ UNCHANGED <<tableVars, writer, slug, reply, told, issueVars, faults>>

\* slugExists, before the transaction.
CheckSlug(r) ==
    /\ pc[r] = "check"
    /\ IF SlugExists(slug[r]) THEN Answer(r, "conflict")
       ELSE Goto(r, "insert") /\ UNCHANGED reply
    /\ UNCHANGED <<tableVars, writer, slug, told, issueVars, faults>>

\* Mutant: the slug is not unique in the table.
InsertUnchecked(r) ==
    /\ pc[r] = "insert" /\ writer = None
    /\ Goto(r, "commit")
    /\ writer' = r
    /\ UNCHANGED <<tableVars, slug, reply, told, issueVars, faults>>

\* The insert takes the write lock, and the unique column has the last word.
InsertSession(r) ==
    /\ pc[r] = "insert" /\ writer = None
    /\ IF SlugExists(slug[r]) THEN Answer(r, "conflict") /\ UNCHANGED writer
       ELSE Goto(r, "commit") /\ writer' = r /\ UNCHANGED reply
    /\ UNCHANGED <<tableVars, slug, told, issueVars, faults>>

\* The session, its two tokens and its event are committed together.
CommitSession(r) ==
    /\ pc[r] = "commit"
    /\ sessions' = sessions \cup {r}
    /\ tokens' = tokens \cup ({r} \X Roles)
    /\ timeline' = timeline \cup {r}
    /\ writer' = None
    /\ fresh' = {}
    /\ Goto(r, "read")
    /\ UNCHANGED <<used, machine, instance, slug, reply, told, target, issued, faults>>

\* Mutant: the reply carries the tokens before the commit.
AnswerEarly(r) ==
    /\ pc[r] \in {"commit", "read"}
    /\ Answer(r, "created")
    /\ told' = told \cup ({r} \X Roles)
    /\ writer' = IF writer = r THEN None ELSE writer
    /\ UNCHANGED <<tableVars, slug, issueVars, faults>>

\* GetSession in CreateSession and again in the handler, which then replies.
ReadBack(r) ==
    /\ pc[r] = "read"
    /\ Goto(r, "load")
    /\ UNCHANGED <<tableVars, writer, slug, reply, told, issueVars, faults>>

LoadCreated(r) ==
    /\ pc[r] = "load"
    /\ Answer(r, "created")
    /\ told' = told \cup ({r} \X Roles)
    /\ UNCHANGED <<tableVars, writer, slug, issueVars, faults>>

\* A statement or the commit fails, or the client goes away and cancels them: the
\* transaction, if there is one, is rolled back.  What was committed stays.
CreateFails(r) ==
    /\ pc[r] \in {"check", "insert", "commit", "read", "load"}
    /\ \E what \in {"error", "lost"} : Answer(r, what)
    /\ writer' = IF writer = r THEN None ELSE writer
    /\ Fault
    /\ UNCHANGED <<tableVars, slug, told, issueVars>>

\* The reply to a session that was created does not arrive.
ReplyLost(r) ==
    /\ pc[r] = "load"
    /\ Answer(r, "lost")
    /\ Fault
    /\ UNCHANGED <<tableVars, writer, slug, told, issueVars>>

-----------------------------------------------------------------------------
(***************************************************************************)
(* Joining, and what a session's server authenticates with.                *)
(***************************************************************************)
\* JoinSession with the slug s and a token that somebody was told.
JoinSession(s, t) ==
    /\ writer = None
    /\ t \in tokens /\ slug[t[1]] = s
    /\ used' = used \cup {t}
    /\ fresh' = {}
    /\ UNCHANGED <<sessions, tokens, timeline, machine, instance, writer, requestVars,
                   target, issued, faults>>

\* AssignInstance
AssignInstance(r) ==
    /\ writer = None
    /\ r \in sessions \ instance
    /\ instance' = instance \cup {r}
    /\ fresh' = {}
    /\ UNCHANGED <<sessions, tokens, used, timeline, machine, writer, requestVars, target,
                   issued, faults>>

\* IssueMachineToken reads the row, and refuses a session with an instance.
LoadForIssue(c, r) ==
    /\ target[c] = None
    /\ r \in sessions \ instance
    /\ target' = [target EXCEPT ![c] = r]
    /\ fresh' = fresh \cup {c}
    /\ UNCHANGED <<tableVars, writer, requestVars, issued, faults>>

\* The new hash is stored, over the one before it if there is one.
StoreMachineToken(c) ==
    /\ target[c] # None /\ c \in fresh
    /\ writer = None
    /\ issued < MaxIssues
    /\ issued' = issued + 1
    /\ machine' = [machine EXCEPT ![target[c]] = issued + 1]
    /\ target' = [target EXCEPT ![c] = None]
    /\ fresh' = {}
    /\ UNCHANGED <<sessions, tokens, used, timeline, instance, writer, requestVars, faults>>

\* What was read is stale, the lock is not to be had in time, or a statement fails.
IssueFails(c) ==
    /\ target[c] # None
    /\ target' = [target EXCEPT ![c] = None]
    /\ fresh' = fresh \ {c}
    /\ UNCHANGED <<tableVars, writer, requestVars, issued, faults>>

Creates(r) ==
    \/ Post(r) \/ CheckSlug(r) \/ InsertSession(r) \/ CommitSession(r)
    \/ ReadBack(r) \/ LoadCreated(r) \/ CreateFails(r) \/ ReplyLost(r)

Next ==
    \/ \E r \in Requests : Creates(r) \/ AssignInstance(r)
    \/ \E s \in Slugs, t \in told : JoinSession(s, t)
    \/ \E c \in Issuers : \/ \E r \in Requests : LoadForIssue(c, r)
                          \/ StoreMachineToken(c) \/ IssueFails(c)

Spec == Init /\ [][Next]_vars

-----------------------------------------------------------------------------

\* However many requests ask for it at the same time, a slug is one session's.
OneSessionPerSlug ==
    \A r, q \in sessions : slug[r] = slug[q] => r = q

\* A session is there with both its tokens and its first event, or not at all,
\* whichever statement failed.
CreatedWhole ==
    /\ tokens = sessions \X Roles
    /\ timeline = sessions

\* A client is told tokens only of a session that exists, and a conflict only
\* if another request has taken the slug.
RepliesAreTrue ==
    /\ told \subseteq tokens
    /\ \A r \in Requests : reply[r] = "conflict" =>
        \E q \in sessions \ {r} : slug[q] = slug[r]

\* From the assignment of an instance on, the machine token stays the same, so
\* that the callbacks of the instance go on being accepted.
MachineTokenKept ==
    [][\A r \in instance : machine'[r] = machine[r]]_vars

-----------------------------------------------------------------------------
Abstract == INSTANCE SessionRegistry WITH
    Clients <- Requests,
    Names <- Slugs,
    wish <- slug,
    owners <- sessions,
    heard <- reply,
    invited <- {t[1] : t \in told},
    joined <- {t[1] : t \in used},
    booted <- instance,
    key <- machine

\* What all this amounts to for clients and servers: a registry of sessions in
\* which each request takes effect at one moment.  A session whose creation was
\* answered with an error, because it could not be read back, is there and is never
\* joined.
Registry == Abstract!RegistrySpec
=============================================================================
