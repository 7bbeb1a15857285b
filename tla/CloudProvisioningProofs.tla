---------------------- MODULE CloudProvisioningProofs ----------------------
(***************************************************************************)
(* Theorems about CloudProvisioning, for any number of users and requests: *)
(* its types, that no droplet runs on behind a failed row, that one user   *)
(* gets two runners only by requests that overlap, and that a trial spares *)
(* a paid subscription unless the webhook overtook the request; and one    *)
(* about CloudNode, for any number of restarts and lost registrations:     *)
(* that a worker which is up has its pairing in the row.                   *)
(***************************************************************************)
EXTENDS CloudProvisioning, CloudNode, TLAPS

-----------------------------------------------------------------------------
(* Types, rows and droplets *)

\* A request works towards a server that is not there yet: first the droplet, then
\* the row; and the cleanup marks what it has deleted.
RowsFollowDroplets ==
  \A r \in Requests :
    /\ pc[r] \in {"idle", "find", "entitle", "grant", "create"} => row[r] = "none" /\ droplet[r] = "none"
    /\ pc[r] = "insert" => row[r] = "none" /\ droplet[r] # "none"
    /\ current = r => droplet[r] = "deleted"

\* FailedHasNoDroplet is not inductive: a request could create the droplet of a row
\* that has failed already.
ServerInv == TypeOK /\ RowsFollowDroplets /\ FailedHasNoDroplet

LEMMA ServersAtFirst == Init => ServerInv
  BY ProvisioningAssumption
  DEF Init, ServerInv, TypeOK, RowsFollowDroplets, FailedHasNoDroplet, InProgress, Statuses

LEMMA ServersKept == ServerInv /\ [Next]_vars => ServerInv'
<1> SUFFICES ASSUME ServerInv, [Next]_vars PROVE ServerInv'
  OBVIOUS
<1> USE ProvisioningAssumption DEF ServerInv, TypeOK, RowsFollowDroplets, FailedHasNoDroplet, InProgress
<1>1. ASSUME NEW r \in Requests, NEW u \in Users, Start(r, u) PROVE ServerInv'
  BY <1>1 DEF Start, Goto, billing, cleanup
<1>2. ASSUME NEW r \in Requests, FindActive(r) PROVE ServerInv'
  BY <1>2 DEF FindActive, Goto, billing, cleanup
<1>3. ASSUME NEW r \in Requests, GetEntitlement(r) PROVE ServerInv'
  BY <1>3 DEF GetEntitlement, Goto, billing, cleanup
<1>4. ASSUME NEW r \in Requests, GrantTrial(r) PROVE ServerInv'
  BY <1>4 DEF GrantTrial, Goto, cleanup, Statuses
<1>5. ASSUME NEW r \in Requests, CreateDroplet(r) PROVE ServerInv'
  BY <1>5 DEF CreateDroplet, Goto, billing, cleanup
<1>6. ASSUME NEW r \in Requests, InsertServer(r) PROVE ServerInv'
  BY <1>6 DEF InsertServer, Goto, billing, cleanup
<1>7. ASSUME NEW r \in Requests, RequestFails(r) PROVE ServerInv'
  BY <1>7 DEF RequestFails, Goto, billing, cleanup
<1>8. ASSUME NEW r \in Requests, NodePosts(r) PROVE ServerInv'
  BY <1>8 DEF NodePosts, requests, billing, cleanup
<1>9. ASSUME NEW r \in Requests, RegisterNode(r) PROVE ServerInv'
  BY <1>9 DEF RegisterNode, requests, billing, cleanup
<1>10. ASSUME NEW r \in Requests, ThirtyMinutesPass(r) PROVE ServerInv'
  BY <1>10 DEF ThirtyMinutesPass, requests, billing, cleanup
<1>11. CASE ListStale
  <2>1. todo' \subseteq {r \in Requests : Stale(r)}
    BY <1>11 DEF ListStale
  <2> QED BY <1>11, <2>1 DEF ListStale, Stale, requests, billing
<1>12. ASSUME NEW r \in Requests, DeleteDroplet(r) PROVE ServerInv'
  BY <1>12 DEF DeleteDroplet, requests, billing
<1>13. ASSUME NEW r \in Requests, DeleteFails(r) PROVE ServerInv'
  BY <1>13 DEF DeleteFails, requests, billing
<1>14. CASE MarkFailed
  BY <1>14 DEF MarkFailed, requests, billing
<1>15. CASE MarkFails
  BY <1>15 DEF MarkFails, requests, billing
<1>16. ASSUME NEW u \in Users, NEW s \in {"free", "pro", "past_due", "canceled"}, Webhook(u, s)
       PROVE ServerInv'
  BY <1>16 DEF Webhook, requests, cleanup, Statuses
<1>17. ASSUME NEW u \in Users, TrialEnds(u) PROVE ServerInv'
  BY <1>17 DEF TrialEnds, requests, cleanup
<1>18. CASE Restart
  BY <1>18 DEF Restart, billing
<1>19. CASE UNCHANGED vars
  BY <1>19 DEF vars, requests, billing, cleanup
<1> QED BY <1>1, <1>2, <1>3, <1>4, <1>5, <1>6, <1>7, <1>8, <1>9, <1>10, <1>11, <1>12, <1>13, <1>14,
           <1>15, <1>16, <1>17, <1>18, <1>19 DEF Next, Request

\* Types; a row is written after its droplet exists, and the cleanup visits rows only.
THEOREM ProvisioningTypeCorrect == Spec => []TypeOK
<1>1. ServerInv => TypeOK
  BY DEF ServerInv
<1> QED BY <1>1, ServersAtFirst, ServersKept, PTL DEF Spec

\* Whatever fails and however often, a row that says failed has no droplet
\* (FailedHasNoDroplet).
THEOREM FailedHasNoDropletAlways == Spec => []FailedHasNoDroplet
<1>1. ServerInv => FailedHasNoDroplet
  BY DEF ServerInv
<1> QED BY <1>1, ServersAtFirst, ServersKept, PTL DEF Spec

-----------------------------------------------------------------------------
(* Two runners of one user *)

Excused(r, q) == {r, q} \in overlapped \/ r \in failed \/ q \in failed

\* Past FindActiveCloudServer a request relies on what it did not find there.
Searched(r) == pc[r] \in {"entitle", "grant", "create", "insert"}

\* TwoRunnersOnlyByOverlap is not inductive: between the search of a request and its
\* insert another server of the user may appear.  Requests that are in progress
\* together are recorded, so such a server is excused when it appears.
RunnersInv ==
  /\ \A r, q \in Requests : r # q /\ InProgress(r) /\ InProgress(q) => {r, q} \in overlapped
  /\ \A r \in Requests : row[r] = "failed" => r \in failed
  /\ \A r, q \in Requests : r # q /\ user[r] = user[q] /\ Searched(r) /\ Active(q) => Excused(r, q)
  /\ TwoRunnersOnlyByOverlap

LEMMA RunnersAtFirst == Init => RunnersInv
  BY DEF Init, RunnersInv, InProgress, Searched, Active, TwoRunnersOnlyByOverlap

\* Steps that leave the requests alone and the excuses standing, and by which a server
\* becomes active only if it was, or had failed.
LEMMA RunnersFrame ==
  ASSUME ServerInv, RunnersInv, UNCHANGED <<user, overlapped>>, failed \subseteq failed',
         \A r \in Requests : (InProgress(r)' => InProgress(r)) /\ (Searched(r)' => Searched(r)),
         \A r \in Requests : (Active(r)' => Active(r) \/ r \in failed)
                             /\ (row'[r] = "failed" => r \in failed')
  PROVE  RunnersInv'
<1>1. \A r, q \in Requests : Excused(r, q) => Excused(r, q)'
  BY DEF Excused
<1>2. \A r, q \in Requests :
        r # q /\ user[r] = user[q] /\ Active(r) /\ Active(q) => Excused(r, q)
  BY DEF RunnersInv, TwoRunnersOnlyByOverlap, Excused
<1>3. \A r, q \in Requests : r \in failed => Excused(r, q) /\ Excused(q, r)
  BY DEF Excused
<1>4. \A r, q \in Requests :
        r # q /\ user'[r] = user'[q] /\ Active(r)' /\ Active(q)' => Excused(r, q)'
  BY <1>1, <1>2, <1>3
<1>5. TwoRunnersOnlyByOverlap'
  BY <1>4 DEF TwoRunnersOnlyByOverlap, Excused
<1>6. \A r, q \in Requests :
        r # q /\ user'[r] = user'[q] /\ Searched(r)' /\ Active(q)' => Excused(r, q)'
  BY <1>1, <1>3 DEF RunnersInv
<1>7. \A r, q \in Requests : r # q /\ InProgress(r)' /\ InProgress(q)' => {r, q} \in overlapped'
  BY DEF RunnersInv
<1> QED BY <1>5, <1>6, <1>7 DEF RunnersInv

LEMMA RunnersKept == ServerInv /\ RunnersInv /\ [Next]_vars => RunnersInv'
<1> SUFFICES ASSUME ServerInv, RunnersInv, [Next]_vars PROVE RunnersInv'
  OBVIOUS
<1>1. ASSUME NEW r \in Requests, NEW u \in Users, Start(r, u) PROVE RunnersInv'
  <2>1. row[r] = "none" /\ UNCHANGED <<row, failed>>
    BY <1>1 DEF Start, ServerInv, RowsFollowDroplets
  <2>2. \A q \in Requests \ {r} : pc'[q] = pc[q] /\ user'[q] = user[q]
    BY <1>1 DEF Start, Goto, ServerInv, TypeOK
  <2>3. pc'[r] = "find"
    BY <1>1 DEF Start, Goto, ServerInv, TypeOK
  <2>4. overlapped \subseteq overlapped'
        /\ \A q \in Requests : InProgress(q) => {r, q} \in overlapped' /\ {q, r} \in overlapped'
    <3>1. overlapped' = overlapped \cup {{r, q} : q \in {q \in Requests : InProgress(q)}}
      BY <1>1 DEF Start
    <3>2. ASSUME NEW q \in Requests PROVE {r, q} = {q, r}
      OBVIOUS
    <3> QED BY <3>1, <3>2
  <2>5. \A q, t \in Requests : q # t /\ InProgress(q)' /\ InProgress(t)' => {q, t} \in overlapped'
    BY <2>2, <2>4 DEF RunnersInv, InProgress
  <2>6. \A q \in Requests : (Active(q)' <=> Active(q)) /\ (Active(q) => q # r)
    BY <2>1 DEF Active
  <2>7. \A q \in Requests : Searched(q)' => q # r /\ Searched(q)
    BY <2>2, <2>3 DEF Searched
  <2>8. \A q, t \in Requests : Excused(q, t) => Excused(q, t)'
    BY <2>1, <2>4 DEF Excused
  <2>9. \A q, t \in Requests :
          q # t /\ user'[q] = user'[t] /\ Searched(q)' /\ Active(t)' => Excused(q, t)'
    BY <2>2, <2>6, <2>7, <2>8 DEF RunnersInv
  <2>10. TwoRunnersOnlyByOverlap'
    <3>1. \A q, t \in Requests :
            q # t /\ user'[q] = user'[t] /\ Active(q)' /\ Active(t)' => Excused(q, t)
      BY <2>2, <2>6 DEF RunnersInv, TwoRunnersOnlyByOverlap, Excused
    <3> QED BY <3>1, <2>8 DEF TwoRunnersOnlyByOverlap, Excused
  <2> QED BY <2>1, <2>5, <2>9, <2>10 DEF RunnersInv
<1>2. ASSUME NEW r \in Requests, FindActive(r) PROVE RunnersInv'
  <2>1. UNCHANGED <<user, row, overlapped, failed>>
    BY <1>2 DEF FindActive, history
  <2>2. \A q \in Requests \ {r} : pc'[q] = pc[q]
    BY <1>2 DEF FindActive, Goto, ServerInv, TypeOK
  <2>3. InProgress(r) /\ pc'[r] = (IF HasServer(user[r]) THEN "done" ELSE "entitle")
    BY <1>2 DEF FindActive, Goto, InProgress, ServerInv, TypeOK
  <2>4. \A q \in Requests : InProgress(q)' => InProgress(q)
    BY <2>2, <2>3 DEF InProgress
  <2>5. \A q \in Requests : Active(q)' <=> Active(q)
    BY <2>1 DEF Active
  <2>6. Searched(r)' => \A q \in Requests : user[q] = user[r] => ~Active(q)
    BY <2>3 DEF Searched, HasServer
  <2>7. \A q \in Requests \ {r} : Searched(q)' => Searched(q)
    BY <2>2 DEF Searched
  <2>8. \A q, t \in Requests : Excused(q, t)' <=> Excused(q, t)
    BY <2>1 DEF Excused
  <2>9. \A q, t \in Requests :
          q # t /\ user'[q] = user'[t] /\ Searched(q)' /\ Active(t)' => Excused(q, t)'
    BY <2>1, <2>5, <2>6, <2>7, <2>8 DEF RunnersInv
  <2>10. TwoRunnersOnlyByOverlap'
    BY <2>1, <2>5 DEF RunnersInv, TwoRunnersOnlyByOverlap
  <2> QED BY <2>1, <2>4, <2>9, <2>10 DEF RunnersInv
<1>3. ASSUME NEW r \in Requests, GetEntitlement(r) \/ GrantTrial(r) \/ CreateDroplet(r) PROVE RunnersInv'
  <2>1. UNCHANGED <<user, row, overlapped, failed>> /\ InProgress(r) /\ Searched(r)
    BY <1>3 DEF GetEntitlement, GrantTrial, CreateDroplet, history, InProgress, Searched
  <2>2. \A q \in Requests \ {r} : pc'[q] = pc[q]
    BY <1>3 DEF GetEntitlement, GrantTrial, CreateDroplet, Goto, ServerInv, TypeOK
  <2>3. \A q \in Requests : (InProgress(q)' => InProgress(q)) /\ (Searched(q)' => Searched(q))
    BY <2>1, <2>2 DEF InProgress, Searched
  <2> QED BY <2>1, <2>3, RunnersFrame DEF Active, RunnersInv
<1>4. ASSUME NEW r \in Requests, InsertServer(r) PROVE RunnersInv'
  <2>1. UNCHANGED <<user, overlapped, failed>> /\ InProgress(r) /\ Searched(r)
    BY <1>4 DEF InsertServer, history, InProgress, Searched
  <2>2. \A q \in Requests \ {r} : pc'[q] = pc[q] /\ row'[q] = row[q]
    BY <1>4 DEF InsertServer, Goto, ServerInv, TypeOK
  <2>3. pc'[r] = "done" /\ row'[r] = "creating"
    BY <1>4 DEF InsertServer, Goto, ServerInv, TypeOK
  <2>4. \A q \in Requests : InProgress(q)' => q # r /\ InProgress(q)
    BY <2>2, <2>3 DEF InProgress
  <2>5. \A q \in Requests : Searched(q)' => q # r /\ Searched(q) /\ InProgress(q)
    BY <2>2, <2>3 DEF Searched, InProgress
  <2>6. \A q \in Requests : Active(q)' => q = r \/ Active(q)
    BY <2>2 DEF Active
  <2>7. \A q, t \in Requests : (Excused(q, t)' <=> Excused(q, t)) /\ (Excused(q, t) => Excused(t, q))
    <3>1. ASSUME NEW q \in Requests, NEW t \in Requests PROVE {q, t} = {t, q}
      OBVIOUS
    <3> QED BY <2>1, <3>1 DEF Excused
  <2>8. \A q \in Requests \ {r} : InProgress(q) => Excused(q, r)
    BY <2>1 DEF RunnersInv, Excused
  <2>9. \A q, t \in Requests :
          q # t /\ user'[q] = user'[t] /\ Searched(q)' /\ Active(t)' => Excused(q, t)'
    BY <2>1, <2>5, <2>6, <2>7, <2>8 DEF RunnersInv
  <2>10. \A q \in Requests \ {r} : user[r] = user[q] /\ Active(q) => Excused(r, q)
    BY <2>1 DEF RunnersInv
  <2>11. \A q, t \in Requests :
           q # t /\ user'[q] = user'[t] /\ Active(q)' /\ Active(t)' => Excused(q, t)'
    <3>1. \A q, t \in Requests :
            q # t /\ user[q] = user[t] /\ Active(q) /\ Active(t) => Excused(q, t)
      BY DEF RunnersInv, TwoRunnersOnlyByOverlap, Excused
    <3> QED BY <2>1, <2>6, <2>7, <2>10, <3>1
  <2>12. TwoRunnersOnlyByOverlap'
    BY <2>11 DEF TwoRunnersOnlyByOverlap, Excused
  <2>13. \A q \in Requests : row'[q] = "failed" => q \in failed'
    BY <2>1, <2>2, <2>3 DEF RunnersInv
  <2>14. \A q, t \in Requests : q # t /\ InProgress(q)' /\ InProgress(t)' => {q, t} \in overlapped'
    BY <2>1, <2>4 DEF RunnersInv
  <2> QED BY <2>9, <2>12, <2>13, <2>14 DEF RunnersInv
<1>5. ASSUME NEW r \in Requests, RequestFails(r) PROVE RunnersInv'
  <2>1. UNCHANGED <<user, row, overlapped, failed>>
    BY <1>5 DEF RequestFails, history
  <2>2. \A q \in Requests : pc'[q] = pc[q] \/ pc'[q] = "done"
    BY <1>5 DEF RequestFails, Goto, ServerInv, TypeOK
  <2>3. \A q \in Requests : (InProgress(q)' => InProgress(q)) /\ (Searched(q)' => Searched(q))
    BY <2>2 DEF InProgress, Searched
  <2> QED BY <2>1, <2>3, RunnersFrame DEF Active, RunnersInv
<1>6. ASSUME NEW r \in Requests, NodePosts(r) \/ ThirtyMinutesPass(r) \/ DeleteDroplet(r) \/ DeleteFails(r)
      PROVE RunnersInv'
  <2>1. UNCHANGED <<pc, user, row, overlapped, failed>>
    BY <1>6 DEF NodePosts, ThirtyMinutesPass, DeleteDroplet, DeleteFails, requests, history
  <2> QED BY <2>1, RunnersFrame DEF Active, RunnersInv, InProgress, Searched
<1>7. ASSUME NEW r \in Requests, RegisterNode(r) PROVE RunnersInv'
  <2>1. UNCHANGED <<pc, user, overlapped, failed>>
    BY <1>7 DEF RegisterNode, requests, history
  <2>2. \A q \in Requests : row'[q] # row[q] => row'[q] = "ready" /\ row[q] # "none"
    BY <1>7 DEF RegisterNode, ServerInv, TypeOK
  <2>3. \A q \in Requests : row[q] \in {"none", "creating", "ready", "failed"}
    BY DEF ServerInv, TypeOK
  <2>4. \A q \in Requests : (Active(q)' => Active(q) \/ q \in failed) /\ (row'[q] = "failed" => q \in failed')
    BY <2>1, <2>2, <2>3 DEF Active, RunnersInv
  <2> QED BY <2>1, <2>4, RunnersFrame DEF InProgress, Searched
<1>8. CASE ListStale \/ MarkFails
  <2>1. UNCHANGED <<pc, user, row, overlapped, failed>>
    BY <1>8 DEF ListStale, MarkFails, requests, history
  <2> QED BY <2>1, RunnersFrame DEF Active, RunnersInv, InProgress, Searched
<1>9. CASE MarkFailed
  <2>1. UNCHANGED <<pc, user, overlapped>> /\ failed' = failed \cup {current}
    BY <1>9 DEF MarkFailed, requests
  <2>2. \A q \in Requests : row'[q] = (IF q = current THEN "failed" ELSE row[q])
    BY <1>9 DEF MarkFailed, ServerInv, TypeOK
  <2>3. \A q \in Requests : (Active(q)' => Active(q) \/ q \in failed) /\ (row'[q] = "failed" => q \in failed')
    BY <2>1, <2>2 DEF Active, RunnersInv
  <2> QED BY <2>1, <2>3, RunnersFrame DEF InProgress, Searched
<1>10. ASSUME NEW u \in Users, NEW s \in {"free", "pro", "past_due", "canceled"}, Webhook(u, s)
       PROVE RunnersInv'
  <2>1. UNCHANGED <<pc, user, row, overlapped, failed>>
    BY <1>10 DEF Webhook, requests
  <2> QED BY <2>1, RunnersFrame DEF Active, RunnersInv, InProgress, Searched
<1>11. CASE Restart
  <2>1. UNCHANGED <<user, row, overlapped, failed>>
    BY <1>11 DEF Restart, history
  <2>2. \A q \in Requests : pc'[q] = pc[q] \/ pc'[q] = "done"
    BY <1>11 DEF Restart
  <2>3. \A q \in Requests : (InProgress(q)' => InProgress(q)) /\ (Searched(q)' => Searched(q))
    BY <2>2 DEF InProgress, Searched
  <2> QED BY <2>1, <2>3, RunnersFrame DEF Active, RunnersInv
<1>12. CASE UNCHANGED vars
  <2>1. UNCHANGED <<pc, user, row, overlapped, failed>>
    BY <1>12 DEF vars, requests, history
  <2> QED BY <2>1, RunnersFrame DEF Active, RunnersInv, InProgress, Searched
<1>13. CASE \E u \in Users : TrialEnds(u)
  <2>1. UNCHANGED <<pc, user, row, overlapped, failed>>
    BY <1>13 DEF TrialEnds, requests, history
  <2> QED BY <2>1, RunnersFrame DEF Active, RunnersInv, InProgress, Searched
<1> QED BY <1>1, <1>2, <1>3, <1>4, <1>5, <1>6, <1>7, <1>8, <1>9, <1>10, <1>11, <1>12, <1>13
        DEF Next, Request

\* However many requests, webhooks and restarts there are, a user has two active runners
\* only if the requests overlapped or the cleanup had given one up.
THEOREM TwoRunnersOnlyByOverlapAlways == Spec => []TwoRunnersOnlyByOverlap
<1>1. RunnersInv => TwoRunnersOnlyByOverlap
  BY DEF RunnersInv
<1> QED BY <1>1, ServersAtFirst, ServersKept, RunnersAtFirst, RunnersKept, PTL DEF Spec

-----------------------------------------------------------------------------
(* Trials *)

\* A request that grants a trial has read that the user pays nothing; if the user pays
\* by now, the webhook was seen to overtake it.
TrialInv ==
  \A r \in Requests : pc[r] = "grant" /\ ent[user[r]] = "pro" => r \in raced

LEMMA TrialsAtFirst == Init => TrialInv
  BY DEF Init, TrialInv

LEMMA TrialsKept == ServerInv /\ TrialInv /\ [Next]_vars => TrialInv'
<1> SUFFICES ASSUME ServerInv, TrialInv, [Next]_vars PROVE TrialInv'
  OBVIOUS
<1> USE DEF ServerInv, TypeOK, TrialInv, InProgress
<1>1. ASSUME NEW r \in Requests, NEW u \in Users, Start(r, u) PROVE TrialInv'
  BY <1>1 DEF Start, Goto, billing
<1>2. ASSUME NEW r \in Requests, FindActive(r) \/ GetEntitlement(r) PROVE TrialInv'
  BY <1>2 DEF FindActive, GetEntitlement, Goto, billing, history
<1>3. ASSUME NEW r \in Requests, GrantTrial(r) PROVE TrialInv'
  BY <1>3 DEF GrantTrial, Goto, history
<1>4. ASSUME NEW r \in Requests, CreateDroplet(r) \/ InsertServer(r) \/ RequestFails(r) PROVE TrialInv'
  BY <1>4 DEF CreateDroplet, InsertServer, RequestFails, Goto, billing, history
<1>5. ASSUME NEW r \in Requests, \/ NodePosts(r) \/ RegisterNode(r) \/ ThirtyMinutesPass(r)
                                 \/ DeleteDroplet(r) \/ DeleteFails(r)
      PROVE TrialInv'
  BY <1>5 DEF NodePosts, RegisterNode, ThirtyMinutesPass, DeleteDroplet, DeleteFails,
              requests, billing, history
<1>6. CASE ListStale \/ MarkFailed \/ MarkFails
  BY <1>6 DEF ListStale, MarkFailed, MarkFails, requests, billing, history
<1>7. ASSUME NEW u \in Users, NEW s \in {"free", "pro", "past_due", "canceled"}, Webhook(u, s)
      PROVE TrialInv'
  BY <1>7 DEF Webhook, requests
<1>8. ASSUME NEW u \in Users, TrialEnds(u) PROVE TrialInv'
  BY <1>8 DEF TrialEnds, requests, history
<1>9. CASE Restart
  BY <1>9 DEF Restart, billing, history
<1>10. CASE UNCHANGED vars
  BY <1>10 DEF vars, requests, billing, history
<1> QED BY <1>1, <1>2, <1>3, <1>4, <1>5, <1>6, <1>7, <1>8, <1>9, <1>10 DEF Next, Request

\* Only the grant of a trial writes "trial".
LEMMA TrialStep ==
  ASSUME ServerInv, TrialInv, [Next]_vars, NEW u \in Users, ent[u] = "pro", ent'[u] = "trial"
  PROVE  \E r \in raced : user[r] = u /\ InProgress(r)
<1>1. ~UNCHANGED ent
  BY Zenon
<1>2. PICK r \in Requests : GrantTrial(r)
  <2>1. ASSUME NEW v \in Users, NEW s \in {"free", "pro", "past_due", "canceled"}, Webhook(v, s)
        PROVE FALSE
    BY <2>1 DEF Webhook, ServerInv, TypeOK
  <2> QED BY <1>1, <2>1
      DEF Next, Request, vars, billing, Start, FindActive, GetEntitlement, CreateDroplet, InsertServer,
          RequestFails, NodePosts, RegisterNode, ThirtyMinutesPass, DeleteDroplet, DeleteFails,
          ListStale, MarkFailed, MarkFails, TrialEnds, Restart
<1>3. pc[r] = "grant" /\ user[r] = u
  BY <1>2 DEF GrantTrial, ServerInv, TypeOK
<1>4. r \in raced
  BY <1>3 DEF TrialInv
<1> QED BY <1>3, <1>4 DEF InProgress

\* No trial is ever written over a paid subscription but by a request that the webhook
\* of the payment overtook (TrialSparesPaid).
THEOREM TrialSparesPaidAlways == Spec => TrialSparesPaid
<1>1. ServerInv /\ TrialInv /\ [Next]_vars
        => [\A u \in Users : ent[u] = "pro" /\ ent'[u] = "trial"
              => \E r \in raced : user[r] = u /\ InProgress(r)]_vars
  BY TrialStep
<1> QED BY <1>1, ServersAtFirst, ServersKept, TrialsAtFirst, TrialsKept, PTL DEF Spec, TrialSparesPaid
-----------------------------------------------------------------------------
(* The pairing of a cloud runner *)

\* A post speaks for a start of the worker that has been, or for cloud-init (0), and a
\* worker that posts has been started: its registration is not cloud-init's.
PostsAreOfStarts ==
  /\ generation \in Nat
  /\ posts \subseteq 0..generation
  /\ worker = "posting" => generation # 0

\* PairingCatchesUp is not inductive: a worker that was never started could be let
\* through by the post of cloud-init, which brings no pairing.
NodeInv == PostsAreOfStarts /\ PairingCatchesUp

LEMMA NodeAtFirst == NodeInit => NodeInv
  BY DEF NodeInit, NodeInv, PostsAreOfStarts, PairingCatchesUp

LEMMA NodeKept == NodeInv /\ [NodeNext]_nodeVars => NodeInv'
<1> SUFFICES ASSUME NodeInv, [NodeNext]_nodeVars PROVE NodeInv'
  OBVIOUS
<1> USE DEF NodeInv, PostsAreOfStarts, PairingCatchesUp
<1>1. CASE SessionStarted
  BY <1>1 DEF SessionStarted
<1>2. CASE CloudInitEnables
  BY <1>2 DEF CloudInitEnables, cloudServer
<1>3. CASE CloudInitPosts
  BY <1>3 DEF CloudInitPosts, cloudServer
<1>4. CASE WorkerStarts
  <2>1. generation' = generation + 1 /\ worker' = "posting" /\ posts' = posts \cup {generation + 1}
    BY <1>4 DEF WorkerStarts
  <2>2. generation' \in Nat /\ generation' # 0 /\ 0..generation \subseteq 0..generation'
    BY <2>1
  <2>3. posts' \subseteq 0..generation'
    BY <2>1, <2>2
  <2> QED BY <2>1, <2>2, <2>3
<1>11. CASE StartFails
  <2>1. /\ generation' = generation + 1
        /\ UNCHANGED <<worker, posts, pairing, late>> /\ worker = "down"
    BY <1>11 DEF StartFails, cloudServer
  <2>2. generation' \in Nat /\ posts' \subseteq 0..generation'
    BY <2>1
  <2> QED BY <2>1, <2>2
<1>5. CASE WorkerDies \/ PostTimesOut
  BY <1>5 DEF WorkerDies, PostTimesOut, Fault, cloudServer
<1>6. ASSUME NEW p \in posts, PostFails(p) PROVE NodeInv'
  BY <1>6 DEF PostFails, Fault, cloudServer
<1>7. ASSUME NEW p \in posts, RegisterCloudNode(p) PROVE NodeInv'
  <2>1. PostsAreOfStarts'
    BY <1>7 DEF RegisterCloudNode
  <2>2. CASE worker = "posting" /\ p = generation
    BY <1>7, <2>2 DEF RegisterCloudNode
  <2>3. CASE ~(worker = "posting" /\ p = generation)
    BY <1>7, <2>3 DEF RegisterCloudNode
  <2> QED BY <2>1, <2>2, <2>3
<1>8. CASE ListServer \/ DeleteNode \/ MarkServer
  BY <1>8 DEF ListServer, DeleteNode, MarkServer, cloudServer, node
<1>9. CASE PollOnce \/ PollAnswered
  BY <1>9 DEF PollOnce, PollAnswered, cloudServer, node
<1>10. CASE UNCHANGED nodeVars
  BY <1>10 DEF nodeVars, cloudServer, node
<1> QED BY <1>1, <1>2, <1>3, <1>4, <1>5, <1>6, <1>7, <1>8, <1>9, <1>10, <1>11 DEF NodeNext, Registers

\* A worker that is up has its own pairing in the row, unless a registration that a
\* former one had given up was written late (PairingCatchesUp).
THEOREM PairingCatchesUpAlways == NodeSpec => []PairingCatchesUp
<1>1. NodeInv => PairingCatchesUp
  BY DEF NodeInv
<1> QED BY <1>1, NodeAtFirst, NodeKept, PTL DEF NodeSpec
=============================================================================
