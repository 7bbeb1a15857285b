-------------------------- MODULE CloudProvisioning --------------------------
(***************************************************************************)
(* Cloud runners: StartCloudSession as the sequence of database and cloud  *)
(* calls it is, the cleanup worker, the registration of nodes, and billing *)
(* webhooks, all against a database without transactions.  Requests of one *)
(* user overlap (the app retries, a webhook provisions too), any call may  *)
(* fail, and the relay service may restart.                                *)
(*                                                                         *)
(* A request creates at most one server, so servers are named by requests. *)
(***************************************************************************)
EXTENDS Naturals, FiniteSets

CONSTANTS
  Users,
  Requests,   \* calls of StartCloudSession, and the servers they may create
  Nobody,     \* the user of a request that has not arrived; no server
  ListLimit,  \* servers one cleanup pass lists (25 in the code)
  MaxEvents   \* bound: webhooks, and restarts of the service

ASSUME ProvisioningAssumption ==
  /\ Nobody \notin Users /\ Nobody \notin Requests
  /\ ListLimit \in Nat \ {0} /\ MaxEvents \in Nat

VARIABLES
  pc, user,   \* the call each request is about to make; its user
  ent, over,  \* subscriptions.status; its trial_ends_at has passed
  row,        \* cloud_servers.status, "none" without a row
  old,        \* created more than 30 minutes ago
  droplet,    \* "none", "up" or "deleted" at DigitalOcean
  posting,    \* a registration of the node is under way
  todo, current, \* cleanupOnce: servers still to visit; the one being marked
  events,     \* webhooks and restarts so far
  overlapped, \* history: requests that were in progress together
  raced,      \* history: requests that a webhook of their user overtook
  failed      \* history: servers once marked failed

requests == <<pc, user>>
billing == <<ent, over>>
cleanup == <<todo, current>>
history == <<overlapped, raced, failed>>
vars == <<requests, billing, row, old, droplet, posting, cleanup, events, history>>

Statuses == {"none", "free", "trial", "pro", "past_due", "canceled"}
InProgress(r) == pc[r] \notin {"idle", "done"}
Goto(r, point) == pc' = [pc EXCEPT ![r] = point]

-----------------------------------------------------------------------------
(* StartCloudSession *)

Start(r, u) ==
  /\ pc[r] = "idle"
  /\ Goto(r, "find")
  /\ user' = [user EXCEPT ![r] = u]
  /\ overlapped' = overlapped \cup {{r, q} : q \in {q \in Requests : InProgress(q)}}
  /\ UNCHANGED <<billing, row, old, droplet, posting, cleanup, events, raced, failed>>

Active(s) == row[s] \in {"creating", "ready"}

\* Mutant of HasServer: a server that is being created is not found.
HasReadyServer(u) == \E s \in Requests : user[s] = u /\ row[s] = "ready"

HasServer(u) == \E s \in Requests : user[s] = u /\ Active(s)

FindActive(r) ==
  /\ pc[r] = "find"
  /\ Goto(r, IF HasServer(user[r]) THEN "done" ELSE "entitle")
  /\ UNCHANGED <<user, billing, row, old, droplet, posting, cleanup, events, history>>

Entitled(u) == ent[u] = "pro" \/ (ent[u] = "trial" /\ ~over[u])

\* Mutant of GetEntitlement: whoever is not refused is granted a trial.
GetEntitlementGrants(r) ==
  /\ pc[r] = "entitle"
  /\ Goto(r, IF ent[user[r]] \in {"none", "free", "pro"} THEN "grant"
             ELSE IF Entitled(user[r]) THEN "create" ELSE "done")
  /\ UNCHANGED <<user, billing, row, old, droplet, posting, cleanup, events, history>>

GetEntitlement(r) ==
  /\ pc[r] = "entitle"
  /\ Goto(r, IF ent[user[r]] \in {"none", "free"} THEN "grant"
             ELSE IF Entitled(user[r]) THEN "create" ELSE "done")
  /\ UNCHANGED <<user, billing, row, old, droplet, posting, cleanup, events, history>>

\* The upsert writes the trial over whatever the row holds by now.
GrantTrial(r) ==
  /\ pc[r] = "grant"
  /\ Goto(r, "create")
  /\ ent' = [ent EXCEPT ![user[r]] = "trial"]
  /\ over' = [over EXCEPT ![user[r]] = FALSE]
  /\ UNCHANGED <<user, row, old, droplet, posting, cleanup, events, history>>

CreateDroplet(r) ==
  /\ pc[r] = "create"
  /\ Goto(r, "insert")
  /\ droplet' = [droplet EXCEPT ![r] = "up"]
  /\ UNCHANGED <<user, billing, row, old, posting, cleanup, events, history>>

InsertServer(r) ==
  /\ pc[r] = "insert"
  /\ Goto(r, "done")
  /\ row' = [row EXCEPT ![r] = "creating"]
  /\ UNCHANGED <<user, billing, old, droplet, posting, cleanup, events, history>>

\* Any call fails, or the client of the request is gone: nothing is undone.
RequestFails(r) ==
  /\ InProgress(r)
  /\ Goto(r, "done")
  /\ UNCHANGED <<user, billing, row, old, droplet, posting, cleanup, events, history>>

-----------------------------------------------------------------------------
(* registerCloudNode *)

\* cloud-init or the daemon of a running droplet posts its registration ...
NodePosts(r) ==
  /\ droplet[r] = "up" /\ ~posting[r]
  /\ posting' = [posting EXCEPT ![r] = TRUE]
  /\ UNCHANGED <<requests, billing, row, old, droplet, cleanup, events, history>>

\* ... and the row, if there is one, becomes ready whatever it was.
RegisterNode(r) ==
  /\ posting[r]
  /\ posting' = [posting EXCEPT ![r] = FALSE]
  /\ row' = IF row[r] = "none" THEN row ELSE [row EXCEPT ![r] = "ready"]
  /\ UNCHANGED <<requests, billing, old, droplet, cleanup, events, history>>

-----------------------------------------------------------------------------
(* cleanupOnce *)

ThirtyMinutesPass(r) ==
  /\ row[r] # "none" /\ ~old[r]
  /\ old' = [old EXCEPT ![r] = TRUE]
  /\ UNCHANGED <<requests, billing, row, droplet, posting, cleanup, events, history>>

Stale(r) == row[r] = "creating" /\ old[r]

\* The list comes back in any order, so any ListLimit of the stale servers.
ListStale ==
  /\ todo = {} /\ current = Nobody
  /\ todo' \in SUBSET {r \in Requests : Stale(r)} \ {{}}
  /\ Cardinality(todo') <= ListLimit
  /\ Cardinality(todo') = ListLimit \/ todo' = {r \in Requests : Stale(r)}
  /\ UNCHANGED <<requests, billing, row, old, droplet, posting, current, events, history>>

DeleteDroplet(r) ==
  /\ current = Nobody /\ r \in todo
  /\ todo' = todo \ {r}
  /\ current' = r
  /\ droplet' = [droplet EXCEPT ![r] = "deleted"]
  /\ UNCHANGED <<requests, billing, row, old, posting, events, overlapped, raced, failed>>

\* Mutant of DeleteFails: the server is marked failed although its droplet runs.
DeleteFailsMarks(r) ==
  /\ current = Nobody /\ r \in todo
  /\ todo' = todo \ {r}
  /\ current' = r
  /\ UNCHANGED <<requests, billing, row, old, droplet, posting, events, history>>

\* DigitalOcean refuses: the next pass tries again.
DeleteFails(r) ==
  /\ current = Nobody /\ r \in todo
  /\ todo' = todo \ {r}
  /\ UNCHANGED <<requests, billing, row, old, droplet, posting, current, events, history>>

\* Mutant of MarkFailed: the row is not updated.
MarkNothing ==
  /\ current # Nobody
  /\ UNCHANGED row
  /\ failed' = failed \cup {current}
  /\ current' = Nobody
  /\ UNCHANGED <<requests, billing, old, droplet, posting, todo, events, overlapped, raced>>

MarkFailed ==
  /\ current # Nobody
  /\ row' = [row EXCEPT ![current] = "failed"]
  /\ failed' = failed \cup {current}
  /\ current' = Nobody
  /\ UNCHANGED <<requests, billing, old, droplet, posting, todo, events, overlapped, raced>>

\* The error of the update is ignored; the next pass lists the server again.
MarkFails ==
  /\ current # Nobody
  /\ current' = Nobody
  /\ UNCHANGED <<requests, billing, row, old, droplet, posting, todo, events, history>>

-----------------------------------------------------------------------------
(* Webhooks, time, the service *)

\* The subscription's status follows the webhooks in the order they arrive.
Webhook(u, status) ==
  /\ events < MaxEvents
  /\ events' = events + 1
  /\ ent' = [ent EXCEPT ![u] = status]
  /\ raced' = raced \cup {r \in Requests : user[r] = u /\ InProgress(r)}
  /\ UNCHANGED <<requests, over, row, old, droplet, posting, cleanup, overlapped, failed>>

TrialEnds(u) ==
  /\ ent[u] = "trial" /\ ~over[u]
  /\ over' = [over EXCEPT ![u] = TRUE]
  /\ UNCHANGED <<requests, ent, row, old, droplet, posting, cleanup, events, history>>

\* Requests in progress are lost, the cleanup starts anew.
Restart ==
  /\ events < MaxEvents
  /\ events' = events + 1
  /\ pc' = [r \in Requests |-> IF InProgress(r) THEN "done" ELSE pc[r]]
  /\ todo' = {} /\ current' = Nobody
  /\ UNCHANGED <<user, billing, row, old, droplet, posting, history>>

-----------------------------------------------------------------------------
Init ==
  /\ pc = [r \in Requests |-> "idle"]
  /\ user = [r \in Requests |-> Nobody]
  /\ ent \in [Users -> {"none", "pro"}]
  /\ over = [u \in Users |-> FALSE]
  /\ row = [r \in Requests |-> "none"]
  /\ old = [r \in Requests |-> FALSE]
  /\ droplet = [r \in Requests |-> "none"]
  /\ posting = [r \in Requests |-> FALSE]
  /\ todo = {} /\ current = Nobody
  /\ events = 0
  /\ overlapped = {} /\ raced = {}
  /\ failed = {}

Request(r) ==
  \/ FindActive(r) \/ GetEntitlement(r) \/ GrantTrial(r) \/ CreateDroplet(r)
  \/ InsertServer(r) \/ RequestFails(r)

Next ==
  \/ \E r \in Requests :
       \/ Request(r) \/ (\E u \in Users : Start(r, u))
       \/ NodePosts(r) \/ RegisterNode(r) \/ ThirtyMinutesPass(r)
       \/ DeleteDroplet(r) \/ DeleteFails(r)
  \/ ListStale \/ MarkFailed \/ MarkFails
  \/ (\E u \in Users : TrialEnds(u)
        \/ \E s \in {"free", "pro", "past_due", "canceled"} : Webhook(u, s))
  \/ Restart

Spec == Init /\ [][Next]_vars

\* The cleanup worker runs every five minutes, and a call to DigitalOcean or to
\* the database that is repeated for ever succeeds at some point.
Fairness ==
  /\ WF_vars(ListStale)
  /\ \A r \in Requests : SF_vars(DeleteDroplet(r)) /\ SF_vars(current = r /\ MarkFailed)
  /\ WF_vars(current # Nobody /\ (MarkFailed \/ MarkFails))
  /\ WF_vars(\E r \in Requests : DeleteDroplet(r) \/ DeleteFails(r))

FairSpec == Spec /\ Fairness

-----------------------------------------------------------------------------
(* Properties *)

\* Types; a row is written after its droplet exists, and cleanup visits rows only.
TypeOK ==
  /\ pc \in [Requests -> {"idle", "find", "entitle", "grant", "create", "insert", "done"}]
  /\ user \in [Requests -> Users \cup {Nobody}]
  /\ ent \in [Users -> Statuses] /\ over \in [Users -> BOOLEAN]
  /\ row \in [Requests -> {"none", "creating", "ready", "failed"}]
  /\ old \in [Requests -> BOOLEAN] /\ posting \in [Requests -> BOOLEAN]
  /\ droplet \in [Requests -> {"none", "up", "deleted"}]
  /\ todo \subseteq Requests /\ current \in Requests \cup {Nobody}
  /\ events \in 0..MaxEvents
  /\ \A r \in Requests :
       /\ InProgress(r) => user[r] \in Users
       /\ row[r] # "none" => droplet[r] # "none"
       /\ r \in todo \cup {current} => row[r] # "none"

\* A user has two active runners only if the requests overlapped, or one of them
\* had been given up by the cleanup: a request that starts after another one has
\* returned finds its server, whatever restarts, webhooks and nodes do between
\* (StartCloudSession: FindActiveCloudServer first, InsertCloudServer last).
TwoRunnersOnlyByOverlap ==
  \A r, q \in Requests :
    r # q /\ user[r] = user[q] /\ Active(r) /\ Active(q)
      => {r, q} \in overlapped \/ r \in failed \/ q \in failed

\* A server is marked failed only after its droplet is gone, so no droplet runs on
\* behind a failed row (cleanupOnce: continue when DeleteDroplet fails).
FailedHasNoDroplet == \A r \in Requests : row[r] = "failed" => droplet[r] = "deleted"

\* A trial is written over a paid subscription only by a request that the webhook
\* of the payment overtook (StartCloudSession: GetEntitlement, later the upsert).
TrialSparesPaid ==
  [][\A u \in Users : ent[u] = "pro" /\ ent'[u] = "trial"
       => \E r \in raced : user[r] = u /\ InProgress(r)]_vars

\* A server stuck in creating does not stay there: its node registers or the
\* cleanup gives it up, although calls fail, passes are cut short by ListLimit
\* and the service restarts (cleanupOnce; docs/backend.md:165).
StuckServersEnd ==
  \A r \in Requests : (row[r] = "creating" /\ old[r]) ~> (row[r] # "creating")
=============================================================================
