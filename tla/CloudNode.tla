------------------------------ MODULE CloudNode ------------------------------
(***************************************************************************)
(* How the pairing of one cloud runner reaches the phone: cloud-init and   *)
(* the cloud-worker of the droplet post registrations, registerCloudNode   *)
(* writes them to the row, the cleanup may give the runner up, and the     *)
(* phone polls the row.  CloudProvisioning has the rows of several         *)
(* requests; here it is one row, with its pairing and the worker's         *)
(* restarts.  The row is there before the droplet has booted.              *)
(*                                                                         *)
(* A post is named by the start of the worker it speaks for, cloud-init's  *)
(* by 0.                                                                   *)
(***************************************************************************)
EXTENDS Naturals

CONSTANT MaxFaults  \* bound: starts and posts that fail or time out, deaths of the worker

VARIABLES
  server,     \* cloud_servers.status, "none" without a row
  pairing,    \* pairing_payload: the start of the worker it is of, 0 is none
  install,    \* cloud-init: "off", "boot", "enabled" or "done"
  worker,     \* cloud-worker: "off", "down", "broken" (no start of it gets as far as
              \* its registration), "posting", "serving" or "gone"
  generation, \* how often it was started
  posts,      \* registrations on their way
  pass,       \* cleanupOnce: "idle", "listed" or "deleted"
  phone,      \* _pollOnce: "off", "polling", "asked", "connected" or "failed"
  seen,       \* the row in the answer to the phone
  faults,
  late        \* history: a registration was written after its worker gave it up

cloudServer == <<server, pairing>>
node == <<install, worker, generation>>
screen == <<phone, seen>>
nodeVars == <<cloudServer, node, posts, pass, screen, faults, late>>

-----------------------------------------------------------------------------
(* The droplet *)

\* The session has been started, the app polls.
SessionStarted ==
  /\ server = "none"
  /\ server' = "creating"
  /\ install' = "boot"
  /\ phone' = "polling"
  /\ UNCHANGED <<pairing, worker, generation, posts, pass, seen, faults, late>>

\* systemctl enable --now ...  Without a command that installs the agent's CLI, run
\* returns at resolver.Command each time systemd starts the worker.
CloudInitEnables ==
  /\ install = "boot" /\ worker # "gone"
  /\ install' = "enabled"
  /\ worker' \in {"down", "broken"}
  /\ UNCHANGED <<cloudServer, generation, posts, pass, screen, faults, late>>

\* ... and then curl, once.
CloudInitPosts ==
  /\ install = "enabled" /\ worker # "gone"
  /\ install' = "done"
  /\ posts' = posts \cup {0}
  /\ UNCHANGED <<cloudServer, worker, generation, pass, screen, faults, late>>

\* systemd starts the worker, which makes a new session and registers it.
WorkerStarts ==
  /\ worker = "down"
  /\ worker' = "posting"
  /\ generation' = generation + 1
  /\ posts' = posts \cup {generation + 1}
  /\ UNCHANGED <<cloudServer, install, pass, screen, faults, late>>

Fault == faults < MaxFaults /\ faults' = faults + 1

\* run returns before registerCloudSession, for once.
StartFails ==
  /\ Fault
  /\ worker = "down"
  /\ generation' = generation + 1
  /\ UNCHANGED <<cloudServer, install, worker, posts, pass, screen, late>>

\* The agent exits or the relay is lost: run returns, and systemd starts it again.
WorkerDies ==
  /\ Fault
  /\ worker = "serving"
  /\ worker' = "down"
  /\ UNCHANGED <<cloudServer, install, generation, posts, pass, screen, late>>

\* registerCloudSession gives up after 15 seconds; the request may still be served.
PostTimesOut ==
  /\ Fault
  /\ worker = "posting"
  /\ worker' = "down"
  /\ UNCHANGED <<cloudServer, install, generation, posts, pass, screen, late>>

\* Mutant of PostFails: the worker goes on without its registration.
PostFailsIgnored(p) ==
  /\ Fault
  /\ p \in posts
  /\ posts' = posts \ {p}
  /\ worker' = IF worker = "posting" /\ p = generation THEN "serving" ELSE worker
  /\ UNCHANGED <<cloudServer, install, generation, pass, screen, late>>

\* Refused by the limiter, lost, or the database is away: cloud-init does not care,
\* the worker returns because it requires its relay.
PostFails(p) ==
  /\ Fault
  /\ p \in posts
  /\ posts' = posts \ {p}
  /\ worker' = IF worker = "posting" /\ p = generation THEN "down" ELSE worker
  /\ UNCHANGED <<cloudServer, install, generation, pass, screen, late>>

-----------------------------------------------------------------------------
(* The relay service *)

\* Mutant of RegisterCloudNode: a pairing that is there stays.
RegisterKeepsPairing(p) ==
  /\ p \in posts
  /\ posts' = posts \ {p}
  /\ server' = "ready"
  /\ pairing' = IF p # 0 /\ pairing = 0 THEN p ELSE pairing
  /\ LET awaited == worker = "posting" /\ p = generation
     IN /\ worker' = IF awaited THEN "serving" ELSE worker
        /\ late' = (late \/ (p # 0 /\ ~awaited))
  /\ UNCHANGED <<install, generation, pass, screen, faults>>

\* The row is written whatever it says; only what the post brings is replaced.
RegisterCloudNode(p) ==
  /\ p \in posts
  /\ posts' = posts \ {p}
  /\ server' = "ready"
  /\ pairing' = IF p # 0 THEN p ELSE pairing
  /\ LET awaited == worker = "posting" /\ p = generation
     IN /\ worker' = IF awaited THEN "serving" ELSE worker
        /\ late' = (late \/ (p # 0 /\ ~awaited))
  /\ UNCHANGED <<install, generation, pass, screen, faults>>

\* The cleanup lists a server in creating, deletes its droplet and marks its row,
\* without another look at it.
ListServer ==
  /\ pass = "idle" /\ server = "creating"
  /\ pass' = "listed"
  /\ UNCHANGED <<cloudServer, node, posts, screen, faults, late>>

DeleteNode ==
  /\ pass = "listed"
  /\ pass' = "deleted"
  /\ worker' = "gone"
  /\ UNCHANGED <<cloudServer, install, generation, posts, screen, faults, late>>

MarkServer ==
  /\ pass = "deleted"
  /\ pass' = "idle"
  /\ server' = "failed"
  /\ UNCHANGED <<pairing, node, posts, screen, faults, late>>

-----------------------------------------------------------------------------
(* The phone *)

\* getCloudSession answers with the row of the moment.
PollOnce ==
  /\ phone = "polling"
  /\ phone' = "asked"
  /\ seen' = cloudServer
  /\ UNCHANGED <<cloudServer, node, posts, pass, faults, late>>

\* The phone connects with what it saw, gives up, or asks again in three seconds.
PollAnswered ==
  /\ phone = "asked"
  /\ phone' = CASE seen[1] = "failed"                -> "failed"
                [] seen[1] = "ready" /\ seen[2] # 0  -> "connected"
                [] OTHER                             -> "polling"
  /\ seen' = <<"creating", 0>>
  /\ UNCHANGED <<cloudServer, node, posts, pass, faults, late>>

-----------------------------------------------------------------------------
NodeInit ==
  /\ server = "none" /\ pairing = 0
  /\ install = "off" /\ worker = "off" /\ generation = 0
  /\ posts = {} /\ pass = "idle"
  /\ phone = "off" /\ seen = <<"creating", 0>>
  /\ faults = 0 /\ late = FALSE

Registers == \E p \in posts : RegisterCloudNode(p)

NodeNext ==
  \/ SessionStarted \/ CloudInitEnables \/ CloudInitPosts
  \/ WorkerStarts \/ StartFails \/ WorkerDies \/ PostTimesOut
  \/ (\E p \in posts : PostFails(p)) \/ Registers
  \/ ListServer \/ DeleteNode \/ MarkServer
  \/ PollOnce \/ PollAnswered

NodeSpec == NodeInit /\ [][NodeNext]_nodeVars

\* systemd, the service and the phone's timer run.  Droplets that never boot stay with
\* the cleanup, so cloud-init is not fair; the cleanup is.
NodeRuns ==
  /\ WF_nodeVars(WorkerStarts) /\ WF_nodeVars(Registers)
  /\ WF_nodeVars(ListServer \/ DeleteNode \/ MarkServer)
  /\ WF_nodeVars(PollOnce \/ PollAnswered)

-----------------------------------------------------------------------------
(* Properties *)

\* A worker that is up has its own pairing in the row, however often it was
\* restarted and its registrations failed, unless one that a former worker had given
\* up was written late (registerCloudSession, registerCloudNode).
PairingCatchesUp == worker = "serving" => pairing = generation \/ late

\* No droplet is left that could register: it was deleted, or its worker never gets
\* there.  Nobody looks at a row again that cloud-init's post has made ready by then.
ReadyForNothing == server = "ready" /\ pairing = 0 /\ worker \in {"gone", "broken"}

\* The phone connects or is told that the runner failed, whatever is lost, late or
\* restarted and even if the cleanup comes between, unless cloud-init's post has made
\* the row of a runner ready for good that will not register: then it polls for ever
\* (_pollOnce, cleanupOnce).
PollingEnds ==
  []<>~ReadyForNothing => (phone = "polling" ~> phone \in {"connected", "failed"})
=============================================================================
