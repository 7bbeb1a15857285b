# CodexNomad: specification and verification

This directory holds the TLA+ specification of CodexNomad, the model-checking
instances for TLC and the proofs checked by TLAPS. It is meant to be read next
to the source: `PROJECT.json` names, for every definition that models code, the
file and the lines it was translated from ("map"), and lists the components, the
hazards, the runs and the theorems.

Contents: 1 the system, 2 the modules, 3 what is checked, 4 bounds, 5 fairness,
6 what is proved, 7 what was found, 8 what is not modelled, 9 plan, 10 how to run.

## 1. The system

CodexNomad lets a phone drive a coding agent (`codex` or `claude`) that runs on
a laptop or on a cloud server. A **daemon** starts the agent in a pseudo
terminal and connects to a **relay**; the **phone** scans a QR code with the
daemon's public key and the relay's address and joins the same relay session.
Everything after the hello is sealed end to end. The relay service also sells
and creates **cloud runners**.

```
 agent <-- PTY --> daemon session <-- channels --> relay client
                      |                                 |
              authorized-devices.json              websocket
                      |                                 |
              other sessions, `devices revoke`      relay hub  <-- websocket --> phone
                                                        |
        Polar/Razorpay webhooks --> provisioning <-- registerCloudNode, cleanup
                                        |
                            Supabase, DigitalOcean, Tailscale
```

| Component | Source | State it keeps | Operations | Interacts with |
|---|---|---|---|---|
| Daemon session | `daemon/internal/session/session.go` | the `secureSender` (peer, send counter, receive window, pairing buffer of 128), outbound and inbound channels (256), pairing deadline | `mobile_hello`, `ciphertext` commands, `Send` by the terminal callback, the file poller and `run` | relay client (channels), device registry (file), agent (PTY) |
| Session lifecycle | `session.go` `run`, `relay/relay.go`, `terminal/process_*.go` | context, process, relay goroutine | start, wait, cancel, bounded shutdown | everything in the daemon |
| Device registry | `session/devices.go` | `authorized-devices.json` | `IsAuthorized`, `Authorize`, `Touch`, `Revoke` | every session of the machine, the `devices` command |
| Permission flow | `session/detector.go`, `handleCiphertext`, Flutter inbox | detector window and last id, prompts, inbox | `Observe`, `approve`, `reject`, `interrupt` | agent, phone |
| End-to-end encryption | `e2ee/e2ee.go`, `crypto_service.dart` | keys, counters | `Seal`, `Open` | session, phone |
| Phone link | `relay_service.dart`, `crypto_service.dart`, `local_device_key_store.dart`, `app_providers.dart` | socket, crypto with its counter, stored counter, status, reconnect timer | connect, reconnect, send, end | relay hub, secure storage |
| Relay hub | `services/relay/internal/ws/hub.go` | sessions map, one bounded queue per socket | register, forward, unregister | daemons, phones |
| Rate limit, relay tickets | `ratelimit/`, `auth/`, `httpapi/server.go` | window and counts per address | `Allow`, `Sign`, `Verify` | every HTTP request |
| Cloud provisioning | `provisioning/`, `httpapi/`, `supabase/` | subscriptions, cloud_servers, droplets | `StartCloudSession`, `RunCleanupWorker`, `registerCloudNode` | DigitalOcean, Tailscale, Supabase |
| Cloud node | `cloudinit.go`, `register.go`, `cloud_session_screen.dart` | the row's pairing, the worker systemd restarts, the phone's poll | boot, register, poll | provisioning, cleanup, phone |
| Billing webhooks | `webhook/handler.go` | subscriptions | `Polar`, `Razorpay` | provisioning |
| Workspace files | `session.go`, `files/files.go`, `app_providers.dart`, `editor_pane.dart`, `file_browser_pane.dart` | the working tree; the phone's 8 tabs, active file, spinner and editor text | read, save, create, rename, delete, switch, close | agent's working tree, phone |
| Workspace tools | `session.go`, `files/files.go`, `app_providers.dart` | fingerprint of the last snapshot; the phone's list, diff and busy git card | poller, tools, git actions, file list | git, agent's working tree, phone |
| Preview proxy | `session.go` | log of 40 requests | `handle`, `recordRequest` | a development server, `workspaceTools` |
| Command line and service | `app/`, `config/`, `service/`, `cliwrap/` | `machine-id`, `daemon.pid`, `daemon.status`, the supervisor's unit | start, stop, install, doctor, sessions | one another (files), relay |

**What is hard here.**
The daemon has about ten goroutines around two bounded channels; `queue` drops
when its channel is full while `readLoop` blocks on the other. `SetPeer` flushes
the pairing buffer while producers go on sending. The registry file is edited by
several processes without a lock and written by truncate-then-write. The detector
recognises prompts in terminal output, and a decision travels back as a line of
terminal input. The hub's readers share a read lock and push into bounded queues.
Provisioning is a chain of remote calls against a database without transactions.
The phone's `connect` suspends up to four times and any tap or timer may run
meanwhile. Every `codexnomad` process mints or reads the machine id and may be the
service, kill it or install it, through files that nobody locks, while a supervisor
restarts what was killed. git is asked several times for one answer while the agent
changes the tree. A file the user edits exists four times - on disk, in a tab, as the
active file and in the editor widget - and answers arrive while the user switches
and the agent writes.

**What makes each component correct.**
- *Daemon session*: events are sealed only for an authorised phone, in order, with
  numbers that never repeat; commands run once and in order; a revocation stops
  them; nothing makes the handler wait for ever but a command that waits for the agent
  or for git.
- *Lifecycle*: no frame is lost silently between socket and handler; when the agent
  exits, `run` returns, every goroutine ends and no handle is left; a required relay's
  loss ends the session, whenever it happens.
- *Registry*: an edit concerns one device; a finished revocation stays; a crash
  leaves the old content, the new content or a file that is refused.
- *Permission flow*: a new prompt has a card until enough newer items push it out; a
  decision resolves its card or its failure is shown.
- *Hub*: the map holds exactly the live sockets; sessions are isolated; frames of
  one sender stay in order; a slow peer holds up nobody.
- *Provisioning*: at most one runner unless requests overlap; no droplet is left
  behind a failed row; a payment is not overwritten by a trial; stuck servers end.
- *Cloud node*: the row ends with the pairing of the worker that runs, and the phone
  stops polling - which fails for a row that cloud-init has made ready and no worker
  registers for (section 7).
- *Phone link*: command numbers rise across reconnects and restarts; one socket at
  a time; a lost link is taken up again or given up, unless the user looks at a stored
  chat, which shows the same status and is not dialled.
- *Workspace files*: a tab holds content of its file; the text labelled as saved is
  the file's; unsaved edits are not taken by an answer; a spinner has an answer to wait
  for, unless that failed or was lost.
- *Workspace tools*: the phone's list catches up with the tree, a busy git card has an
  action to wait for and becomes free again, unless something was lost; the preview's log
  is exact.
- *Command line and service*: a machine has one id; the files of the service tell the
  truth; `stop` kills the service and nothing else; an installed service comes back;
  no address exceeds its quota.

## 2. The modules

| Module | Models | Correspondence |
|---|---|---|
| `DaemonSession` | `secureSender`, `handleInbound`, `handleCiphertext`, `queue`, pairing window | the handler goroutine is cut at every mutex region, queue push and registry call (`pc`: authorize, touch, setpeer, flush, ready, open, run, reply); in `run` a command is in `proc.Write` or in git, which nothing makes return (`CommandReturns` gets no fairness); `Produce` is `Send`; `WriteLoop` and `ReadLoop` are the relay client's ends of the channels; other processes change the registry and the clock closes the pairing window |
| `DeviceRegistry` | `devices.go` | each process loads, truncates and writes in separate steps and may be killed between them; `Torn` is a file that does not parse |
| `AtomicRegistry` | what `DaemonSession` assumes of the registry | one step per operation; `DeviceRegistry` implements it (`IsAtomic`) under the refinement mapping `content <- Settled` as long as operations do not overlap |
| `SessionLifecycle` | `run`, `relay.Client`, the process on Unix and on Windows, the poller | one variable per goroutine with the point it waits at; channels are counters or short sequences; `os` is the build, and `open` the handles that `terminal.Start` has opened, call by call on Windows |
| `PermissionFlow` | `detector.go`, decisions, the phone's inbox | a prompt is the line the detector extracts; the PTY is the sequence `input`; the inbox takes cards, `diff_ready` items and items with ids of their own (`OtherItem`); a decision is taken by the handler, written, refused or blocked, and then resolved |
| `RelayHub` | `hub.go` | each reader is cut at the lock and at every push, so pushes of different readers interleave; writers take from the queue and may stop at any time |
| `CloudProvisioning` | `provisioner.go`, `cleanup.go`, `registerCloudNode`, webhooks | one step per remote call, each of which may fail; the database and DigitalOcean are variables |
| `CloudNode` | cloud-init, the restarts of `cloud-worker` and its registrations, the row's pairing, the phone's `_pollOnce` | one row; a post is named by the start of the worker it speaks for; `run` may return before its registration once (`StartFails`) or each time (`broken`); the cleanup lists, deletes and marks in three steps |
| `PhoneLink` | `relay_service.dart`, `crypto_service.dart`, the sequence store, the reconnection part of `SessionController` | a method is cut only where it awaits the platform (socket close, storage, HTTP); events and ciphers are microtasks of the step that starts them; `OpenHistory` shows a stored chat and leaves socket and timer alone |
| `WorkspaceFiles` | `files.go` commands, `switchOpenFile`, `closeOpenFile`, the file events, `_syncController` | each tap, command and answer is one step; contents are model values, shown through `Decode` (utf8.decode with `allowMalformed`); `Fold` is what `strings.EqualFold` compares; the link is up, down (commands are dropped in silence) or closed (they throw); every change of the controller rebuilds the editor, as `ref.watch` does |
| `WorkspaceTools` | `files.Poll`, `ProjectSnapshot`, `GitDiff`, `git_action`, `workspace_tools`, the phone's list, diff and git card | HEAD, index and working tree are functions from paths to versions; each call of git is one step, so an answer mixes moments of the tree; a git action starts and, perhaps, ends; errors, lost sockets, ends and new sessions come at any moment |
| `PreviewProxy` | `previewProxy.handle`, `recordRequest` | a request is forwarded, logged by the error handler, served, refused or broken off |
| `Filtering` | `where` and the collection `if` of the controller's lists | lists from which elements are taken, by a recursive function that the proofs can reason about; `PermissionFlow` and `WorkspaceFiles` use it |
| `RelayGate` | `ratelimit.Limiter`, `securityHeaders` | the stamp is taken before the lock, so calls are counted in any order |
| `LocalHost` | `config.Load`, `service.go`, `app.Run`, `doctor.go`, `cliwrap.ResolveExecutable` | a process is its pid; every file is truncated and written in two steps; EXTENDS `RelayGate`, which `doctor` and the sessions call |
| `*Proofs` | theorems about the module of that name | `CloudProvisioningProofs` is about `CloudNode` too, and `LiveSessionProofs` about what the phone's live screen shows: `PermissionFlow`, `WorkspaceFiles`, `WorkspaceTools` and `PreviewProxy` |
| `MC*` | instances for TLC | |

`DaemonSession` reads and writes the registry in one step. What that leaves out is
`DeviceRegistry`, which opens the operations up; `AtomicRegistry` is the interface
between the two. In the same way `SessionLifecycle` keeps of the handler only where
it can wait, and `PermissionFlow` assumes of the link the order and the absence of
losses that `DaemonSession` and `RelayHub` state exactly. `CloudNode` opens up what
`CloudProvisioning` takes for one registration, and `WorkspaceTools` what
`DaemonSession` takes for the reply of a command. `MCCloudProvisioning` and
`MCWorkspaceTools` check two modules each that share no variable: each moves only
while the other has not, since no property speaks of both.

Sealed content is abstracted: a frame carries the key that sealed it and its number,
and opens exactly with that key. Wording, formats, logging and user-interface text
are left out.

## 3. What is checked

Every property has, in `PROJECT.json` ("mutants"), a plausible bug of the code - an
operator placed just before the definition it alters - under which TLC finds the
property violated.

| Run | Instance | Question and result |
|---|---|---|
| `daemon_session` | `MCDaemonSessionSafety.cfg` | Whatever the relay, the producers, other processes and the clock do: `SealedInOrder`, `EventsInOrder` (through the pairing buffer, its flush and a queue that drops), `BufferHoldsNewest`, `SealedForKnownDevice`, `RevokeStopsCommands` (at most the command that had passed the check). All hold. |
| `daemon_handler` | `MCDaemonSessionHandler.cfg` | The handler always comes back to its receive and never stops `readLoop` for ever, with queue and link in the worst state and a command of three replies, unless a command waits for the agent or for git (`HandlerProgress`); `CommandsOnceInOrder` within one epoch of the peer key, with two numbers that are repeated and reordered and hellos between them. Hold. |
| `registry_shared` | `MCDeviceRegistryShared.cfg` | Two sessions and two `devices` commands share the file and may be killed: `RevokeIsFinal` for revocations no stale copy overlapped, and `IsAtomic` for operations that do not overlap. Hold. |
| `hub` | `MCRelayHub.cfg` | `MapIsExact`, `SessionsAreIsolated`, `FifoPerSender`, `HubProgress` while sockets bind themselves, come and go and stop reading. Hold. |
| `lifecycle` | `MCSessionLifecycle.cfg` | `HandlesReleased`, `FramesAreKept`, `GoroutinesEnd`, `RelayLossEndsSession` on Unix and Windows, for both values of `RequireRelay` and failures at every call of the set-up. Hold. |
| `permission` | `MCPermissionFlow.cfg` | `PromptHasCard`, `DecisionsResolveCards` with stale cards, keyboard answers, decisions that fail or wait for the agent, and an inbox that other items overflow. Hold, with the exceptions the properties name. |
| `provision` | `MCCloudProvisioning.cfg` | `TwoRunnersOnlyByOverlap`, `FailedHasNoDroplet`, `TrialSparesPaid`, `StuckServersEnd` with failing calls, webhooks and restarts; `PairingCatchesUp`, `PollingEnds` with late and lost registrations and a worker that is restarted, fails to start or never registers. Hold, with the exceptions the properties name. |
| `phone_link` | `MCPhoneLink.cfg` | `CommandsFresh`, `LinkIsExact`, `ReconnectHappens` with taps, timers, ends, stored chats and kills at every await. Hold, as long as no `connect` overlaps another one or an `end` where the property says so (`overlapped`), and no stored chat is shown (`browsed`). |
| `workspace_files` | `MCWorkspaceFiles.cfg` | `EditorIsConsistent`, `TabsAreHonest`, `EventsSpareEdits` with taps, commands, answers, the agent, lost links, ends, reconnections and stored chats in any order. Hold, with the exceptions the properties name. |
| `tools` | `MCWorkspaceTools.cfg` | `ListCatchesUp`, `GitCardIsFreed` and `GitCardIsExact` (a busy card has its action, and only one until it is freed early) with a queue that overflows, commands that are dropped, a git that need not end, errors, lost sockets and new sessions, and a tree that changes between two calls of git; `LogHoldsNewest` with requests that end in any order and way. Hold. |
| `host` | `MCLocalHost.cfg` | `MachineIdAgrees`, `HostFilesAreTrue`, `StopHitsService`, `QuotaHolds`, `ServiceComesBack` with commands, kills and restarts between any two accesses of a file. Hold. |
| `workspace_saved` | `MCWorkspaceFilesSaved.cfg` | The text labelled "Saved" is the text of the file (`SavedMeansSaved`). **Violated.** |

Several properties are conditional on a history variable (`overlapped`, `raced`,
`late`, `fresh`, `interrupted`, `newer`, `failed`, `final`, `browsed`, `mixed`, `collided`,
`misnamed`, `missed`, `stale`, `lost`, `freed`, `doubt`, `setBack`). The condition is the
result: the property fails without it, and it says exactly which overlap, failure or loss
the code does not survive.

## 4. Bounds

Bounds are constants that guard the actions; none is a state constraint. The
real capacities (256 frames, 128 events, 8 tabs, 6000 bytes) are replaced by 1 to 3,
since what can go wrong at a limit goes wrong at any limit; the theorems of section 6
hold for every capacity.

| Run | Bounds | Why they are enough |
|---|---|---|
| `daemon_session` | 1 device with 2 keys, buffer 2, queue 1, inbound 1, 3 events, 3 frames, numbers to 2 | three events overflow the buffer of two and the queue of one; two keys make a phone that pairs again, with the old frames still repeated; three frames are a hello, a command and a repetition |
| `daemon_handler` | 4 frames, numbers to 2, 1 event, buffer, queue and inbound 1, the command with most replies | a hello, two commands in either order and a repetition of any of them; the handler meets a full queue between two replies, with one frame waiting and one being read |
| `registry_shared` | 2 devices with 2 keys, 2 sessions and 2 tools, kills at every step | a lost update needs two processes, a torn file a third that reads it; the fourth revokes meanwhile |
| `hub` | 2 sockets, 2 sessions, queue 2, 2 frames each | a reader pushes while the other registers, leaves and comes back under another session; two frames show order and overflow |
| `lifecycle` | channels of 1, 4 frames, 2 events | one frame with the handler, one in the full channel, one held by `readLoop`, one more in the socket; two events fill the other channel |
| `permission` | 2 prompts, window and inbox of 2, 3 lines, 2 decisions, 1 other item | a third line pushes the oldest out of the window, the other item and a second card the oldest card out of the inbox; two decisions are a fresh and a stale one, by tap or keyboard, and either may fail or wait |
| `provision` | 1 user, 2 requests, passes of 1 server, 2 events of webhooks or restarts; 1 row with 3 faults of its worker and its posts | the races are between two requests, or one request and the worker, of the same user; a pass of one server is cut short by the other; three faults are a start that fails, a registration given up, its late arrival and the death of the next worker, in any three of these |
| `phone_link` | 3 calls of `connect`, 3 numbers, 2 attempts of the timer | the call that lost its link, the one that replaces it and one after a kill; the attempt table of the code has more rows of the same kind. The numbers on the wire are followed until calls overlap, when `CommandsFresh` says nothing any more |
| `workspace_files` | 3 files, of which 2 have names that differ in case only, 3 contents, of which 1 is not UTF-8, 2 tabs, 2 edits, up to 3 commands and 2 faults (changes of the agent, lost links, ends, new sessions, stored chats), 3 of these together | three reads overflow the tabs; two open files and a save, or a rename, are the cases in which answers meet the wrong file; a fault fits between any two commands or around one |
| `tools` | 1 tracked and 1 new file, queue of 2, 2 changes of the tree, 2 commands, 2 breaks (errors, lost sockets, ends, new sessions, stored chats), 3 of these together; 3 requests, log of 2 | two changes fall before and after a fingerprint, or between the two calls of a snapshot; two actions with a break between them let a result free the wrong card; the answers of one git action overflow the queue beside the poller's list and diff; the third request pushes one out of the log |
| `host` | 3 pids, 2 commands, 1 kill or signal, 1 address with a limit of 1, minutes to 2 | two first runs, two services, a stop or a kill and the supervisor's restart, with a pid left for it; two calls exceed the limit, and one of the former minute sets the window back |
| `workspace_saved` | 1 file, 2 commands, 1 edit, no fault | open, edit, save |

Symmetry is used where the run has no liveness property (`daemon_session`,
`registry_shared`, `workspace_files`): devices, keys, processes or files are
interchangeable there. `CHECK_DEADLOCK FALSE` is set where the system may really stop: the bounds
are used up, the session has ended, or nobody acts.

## 5. Fairness

| Specification | Fairness | Why the code justifies it |
|---|---|---|
| `DaemonSession` | WF of the handler | the Go scheduler runs a goroutine that can run; producers, writers and the network get no fairness, so `HandlerProgress` does not rest on the link; nor does the return of a command from the agent's terminal or from git |
| `RelayHub` | WF of each socket's reader | the same; a waiting `Lock` of `sync.RWMutex` stops new readers, so registration is not overtaken for ever; the writers get none, so a stuck peer is included |
| `SessionLifecycle` | WF of every goroutine; a dial fails once the context is cancelled | `DialContext` returns on cancellation; the agent, its input and the network get none |
| `PermissionFlow` | WF of the handler and of the phone's event loop | both take what has arrived; neither the agent nor the user is assumed to act, and the agent need not read, so a decision may stay in its write |
| `CloudProvisioning` | WF that the worker lists and that a pass goes on, SF of each deletion and of marking failed | the worker runs on a ticker for the life of the service; strong fairness says that a remote call repeated for ever succeeds at some point - without it no property of the cleanup could hold |
| `CloudNode` | WF of the worker's start (which may fail as often as the bound allows), of the pending registrations, of the cleanup and of the poll | systemd has `Restart=always`, the service serves what arrives, the cleanup and the phone have tickers; cloud-init gets none, so droplets that never boot are included |
| `WorkspaceTools` | WF of the poller, of the handler and of delivery | two goroutines, and events that reach the phone or, without its socket, nobody; neither the agent nor the user is assumed to act, git need not end (`GitEnds`) and a lost socket need not come back, which is `PhoneLink`'s subject |
| `LocalHost` | WF of every process and of the supervisor | the processes run and `Restart=always` or `KeepAlive` does its work; nobody types, kills or signals fairly, and no session has to end |
| `PhoneLink` | WF of the timer | `Timer` fires; the network, the storage, the daemon and the user get none |

The other runs check safety and assume no fairness.

`HandlerProgress`, `DecisionsResolveCards` and `GitCardIsFreed` have a premise of the form
`[]<>`: the handler does not stay for ever in one wait for the agent or for git. It is
there because nothing in the code bounds these waits. A single wait that ends excuses
nothing. `PollingEnds` has one for the row of `ReadyForNothing`.

## 6. What is proved

TLAPS checks the `*Proofs` modules. The only assumptions are the named `ASSUME`s of
the modules (types of the constants, capacities positive where the code's are,
model values outside the sets they mark), which TLC evaluates in every run.

| Theorem | Statement | Argument |
|---|---|---|
| `TypeCorrect` (`DaemonSessionProofs`) | `Spec => []TypeOK` | `TypeOK` is inductive, once it says at which points of the handler which local values are set; it is proved by parts (`SenderType`, `ChannelsType`, `HandlerType`, `RegistryType`, `RestType`), one step per action |
| `SealedInOrderAlways` | `Spec => []SealedInOrder` | inductive together with `TypeOK`: every sealed frame in the queue has a number not above the sender's counter and above what was written, and numbers rise along the queue; `Send` appends the counter plus one, `WriteLoop` takes the head, control frames carry no number |
| `SealedForKnownDeviceAlways` | `Spec => []SealedForKnownDevice` | `KnownInv` adds `PairsAreKnown`: what the handler is about to make the peer has been in the registry |
| `CommandsOnceInOrderAlways` | `Spec => []CommandsOnceInOrder` | `CommandsInv` adds `WindowCovers`: the window has accepted every number that was executed for the current peer |
| `RevokeStopsCommandsAlways` | `Spec => []RevokeStopsCommands` | `RevokeInv` adds `CheckedIsFresh`: when the handler holds a checked command, its key is still registered or none has run since the revocation |
| `BufferHoldsNewestAlways`, `EventsInOrderAlways` | `Spec => []BufferHoldsNewest`, `Spec => []EventsInOrder` | the buffer keeps the newest entries of a sequence that grows by one (`NewestElements`); `EventsInv` adds `BufferIsFlushed`: a peer outside the flush has an empty buffer |
| `RegistryTypeCorrect` (`DeviceRegistryProofs`) | `Spec => []TypeOK` | `TypeOK` contains the relation between what a process read and its edited copy |
| `RevokeIsFinalAlways` | `Spec => []RevokeIsFinal` | `RevokeIsFinal` is not inductive: a copy loaded earlier could restore the device. `FinalInv` adds `NoCopyRestores`: while a revocation is final no copy in flight holds the device. A save then keeps the property, and a load takes its copy from a file that has it |
| `IsAtomicAlways` | `Spec => IsAtomic` | the refinement: initial states map to initial states, and a step of operations that do not overlap to a step of `AtomicRegistry` or a stutter. `AtomicInv` says who overlaps, that a process which is alone finds the file as it left it, and that what it will write is what it read with its edit |
| `HubTypeCorrect` (`RelayHubProofs`) | `Spec => []TypeOK` | per action |
| `MapIsExactAlways` | `Spec => []MapIsExact` | inductive with `TypeOK`: registration and removal change the map and the point of the reader in one step under the lock |
| `SessionsAreIsolatedAlways` | `Spec => []SessionsAreIsolated` | needs to know what a forwarding reader holds: `IsolationInv` adds `MapIsExact` and `ReaderHolds` (the targets still to be served are registered under the reader's session, and nobody leaves while it holds the read lock) |
| `FifoPerSenderAlways` | `Spec => []FifoPerSender` | `FifoInv` adds `FramesAreFresh` (what a sender has still to forward is newer than what its receivers hold) and that no queue holds a ping |
| `LifecycleTypeCorrect`, `FramesAreKeptAlways` (`SessionLifecycleProofs`) | `Spec => []TypeOK`, `Spec => []FramesAreKept` | one induction: `FramesInv` adds `LoopsStartLinked`, since a reader that is started twice would forget the frame it holds; the count of frames gives `taken` its bound |
| `HandlesReleasedAlways` | `Spec => []HandlesReleased` | `HandlesInv` says what is open at each point of `run`: while it sets up, a prefix of what the calls of `Start` open; while it waits, only what `Wait` undoes |
| `ProvisioningTypeCorrect`, `FailedHasNoDropletAlways` (`CloudProvisioningProofs`) | `Spec => []TypeOK`, `Spec => []FailedHasNoDroplet` | `ServerInv` adds `RowsFollowDroplets`: a request works towards a server that is not there yet, and the cleanup marks only what it has deleted |
| `TwoRunnersOnlyByOverlapAlways` | `Spec => []TwoRunnersOnlyByOverlap` | `RunnersInv` adds that requests in progress together have overlapped, and that a request which has searched and found nothing is excused from every server that is active by now |
| `TrialSparesPaidAlways` | `Spec => TrialSparesPaid` | the action property follows from `TrialInv`: a request about to grant a trial to a paying user was overtaken by the webhook |
| `LinkTypeCorrect`, `LinkIsExactAlways` (`PhoneLinkProofs`) | `Spec => []TypeOK`, `Spec => []LinkIsExact` | `LinkInv` says, unless calls have overlapped, what a suspended `connect` will find when it resumes: it is the only one, no socket is open meanwhile, the keys it needs are there, and each pending read is its own |
| `CommandsFreshAlways` | `Spec => []CommandsFresh` | `FreshInv`, unless calls have overlapped: what waits to be stored rises, is above what was sent and at most the counter, and no save waits behind a read |
| `HostTypeCorrect`, `QuotaHoldsAlways` (`LocalHostProofs`) | `Spec => []TypeOK`, `Spec => []QuotaHolds` | `QuotaInv`: nobody was let through in a minute to come, and in the minute of the window no more than the counts say |
| `MachineIdAgreesAlways` | `Spec => []MachineIdAgrees` | `IdInv`: without a race one process mints at a time, and the file is blank while it does |
| `PidFileNamesServiceAlways`, `StatusIsTrueAlways`, `HostFilesAreTrueAlways`, `StopHitsServiceAlways` | the four properties of the service's files | `ServiceInv`: without an overlap one process is the service, and what the files and the pending stops name is that one unless marked stale or in doubt |
| `PairingCatchesUpAlways` (`CloudProvisioningProofs`) | `NodeSpec => []PairingCatchesUp` | `NodeInv` adds `PostsAreOfStarts`: every post speaks for a start that has been, and a worker that posts has been started, so that cloud-init's post, which brings no pairing, never lets it through |
| `UsesAtomicRegistry` (`DaemonSessionProofs`) | `Spec => Registry!Spec` | the other side of `IsAtomicAlways`: every step of the session, the command line and other sessions is a step of `AtomicRegistry` or a stutter, by `TypeOK` (a hello about to be written has passed its checks) |
| `PromptHasCardAlways` (`LiveSessionProofs`) | `FlowSpec => []PromptHasCard` | `FlowTypeOK` says that nothing under way names a card whose prompt has not been on the screen; so a new prompt's card cannot be resolved early. `CardOnItsWay` follows it: in the inbox, with no more items above it than came after it (`newer`), or among the events with nothing behind it that removes it |
| `FilesTypeCorrect` | `Spec => []TypeOK` (`WorkspaceFiles`) | per action; the tabs keep their limit |
| `EditorIsConsistentAlways` | `Spec => []EditorIsConsistent` | inductive with `TypeOK`: what `where` leaves of the tabs (`WithoutTabs`) keeps every other tab, and a command leaves the queue only when its answer enters the other, or when it is lost or answered by an error, which `missed` records |
| `TabsAreHonestAlways` | `Spec => []TabsAreHonest` | the tabs alone are not inductive, since answers under way may be older than the disk. `HonestInv` says that there is an account `h` of what the files had contained when each answer was given: `h[k]` is what the first `k` answers under way will have told (`Told`), and a tab may show their decoded form (`Showable`; any text once the path was `misnamed`). A loss shortens the queue, and the account of the shorter one is among those there were. Handling an answer moves the account on by one, and the daemon's answer extends it with what the disk has contained so far |
| `EventsSpareEditsAlways` | `Spec => EventsSpareEdits` | the action property needs `StateNeedsPane`: the widget has a text only while its pane is shown, so an event always meets `Synced` |
| `ToolsTypeCorrect`, `GitCardIsExactAlways` | `ToolsSpec => []ToolsTypeOK`, `ToolsSpec => []GitCardIsExact` | `CardInv` says it of the two channels and the handler: exactly one action is asked, running or answered (`One`), or none is (`Quiet`), until something else than a result frees the card (`freed`). A step keeps that shape (`SameShape`), moves the action on (`ShapeMoves`) or ends it (`ShapeFreed`); `AtAppend` and `AtTail` follow its place |
| `ListAtRestAlways` | `ToolsSpec => []ListAtRest` | the safety half of `ListCatchesUp`: with no list on its way and a tree in which the poller sees no change, the phone lists the changes as they are. `ListOfLast`: the poller's last list can be read off its fingerprint. `NewestIsPolled`: unless `stale`, the newest list, which is the last one on its way or else the one shown, is the poller's last |
| `NobodyIsLeftAlways` (`SessionLifecycleProofs`) | `Spec => []NobodyIsLeft` | when no goroutine of a session can go on after the exit of the agent, all have ended. `EndsInv`: whatever ends `run` has cancelled the context, what runs beside the agent was started with it, and on Windows an interrupt has ended the agent. `AllWait` spells out that no step of these goroutines is enabled |
| `FrameComesToAnEndAlways` (`DaemonSessionProofs`) | `Spec => FrameComesToAnEnd` | `StepsLeft` counts the steps to the end of a frame, at most `BufferCap + 6`; a step of the handler lowers the count (`HandlerStepsDown`), one of anybody else adds none (`OthersAddNoStep`): the producers cannot refill the buffer under the flush |
| `DisconnectedHasTimerAlways` (`PhoneLinkProofs`) | `Spec => []DisconnectedHasTimer` | a disconnected phone has its timer, unless ended, out of attempts, without a pairing or showing a stored chat (`browsed`): every step that clears the timer, `ended` or `browsed` shows another status |
| `ServiceIsKeptAlways` (`LocalHostProofs`) | `Spec => []ServiceIsKept` | `SupervisorInv`: what the supervisor launched has not ended, it launches one at a time, and a pid is left for it |
| `LogHoldsNewestAlways` | `PreviewSpec => []LogHoldsNewest` | the log is the ring of everything that ended; `RingOfRing` shows that cutting after each entry gives the same as cutting once |

`Excluding`, the operator that takes elements out of a list, is a recursive function.
What it returns for every list (`ExcludingEmbeds`: the other elements in their order, each
once) is proved by induction in the form of a least counterexample: the set of lengths at
which the claim fails would have a least member (`LeastNat`, from the well-foundedness of
`<` on the natural numbers), and the defining equation carries the claim over that step.

Each property was checked by TLC on its small instance first; the theorems say the
same for every number of devices, processes, sockets and sessions and every capacity.

The type invariants of the modules with proofs are not repeated in the runs.

Every safety property of the runs, state invariant or action property, is proved, but for
the one that the code violates. Model-checked only is liveness (`HandlerProgress`,
`HubProgress`, `GoroutinesEnd`, `RelayLossEndsSession`, `DecisionsResolveCards`,
`StuckServersEnd`, `PollingEnds`, `ReconnectHappens`, `ListCatchesUp`, `GitCardIsFreed`,
`ServiceComesBack`), which rests on fairness and `ENABLED` and is out of the prover's reach.
What is safety in it is proved where it says most: that nobody waits for ever
(`NobodyIsLeft`), that a frame is a bounded number of steps (`FrameComesToAnEnd`), that the
timer and the supervisor are always set for what they are to bring back
(`DisconnectedHasTimer`, `ServiceIsKept`), and that the phone's list is right whenever the
poller has nothing to report (`ListAtRest`). TLC's runs add that the scheduler and the clock then do it.

## 7. What was found

One run ends in a violation of what the repository says of itself: in
`workspace_saved`, pressing Save sends the text and then puts the old text back into the
editor, labelled "Saved". `openFile` is never updated by a save, so the rebuild takes the
old content for a change of the file. An edit that starts from there overwrites the saved
one.

Behaviours that the models show and that no run is made for:

- A revocation can be undone by a session that had loaded the registry before and saves
  it after (`Touch` or `Authorize`), because the file is read, edited and written without
  a lock; docs/local-v1.md:160 states the revocation without that condition.
- A decision types its answer into the terminal whatever prompt is on the screen by then,
  so a card tapped late answers another prompt (docs/product-vision.md:159).
- `file_saved` copies the content of the file active at that moment into the tab of
  the saved file (`mixed` in `WorkspaceFiles`: `TabsAreHonest` fails without it).
- A command without an open socket is dropped in silence (relay_service.dart:144). A read
  that is dropped, lost with the link or answered by an error leaves the editor's spinner
  (`missed`), since neither `error` nor `disconnect` clears it.
- Renaming an open file onto another open one leaves two tabs of one path (`collided`). A
  rename to the same name in another case is answered `file_renamed` without being done
  (files.go:217), so the tab has a name the file has not (`misnamed`).
- The content is decoded with `allowMalformed`: a tab of a file that is not UTF-8 shows
  replacement characters, and saving writes them to the file.
- `openHistory` shows a stored chat as disconnected or ended while the socket of the
  current session stays open, and with no timer (`browsed`).
- A worker that never gets as far as its registration (no agent CLI, session.go:143) still
  becomes a ready row, through cloud-init's post. The cleanup lists creating rows only, so
  a phone polls it for ever (`broken`, `ReadyForNothing`).
- docs/backend.md:165 says that a server stuck in `creating` is marked failed, with a
  token or not. Without one `DeleteDroplet` returns an error (digitalocean.go:94) and the
  cleanup goes to the next row (cleanup.go:31), so a row with a droplet stays creating.
- A decision whose write or interrupt fails is answered by an `error` and leaves its card
  (`failed`); the card's second tap types into whatever prompt there is. Disconnects, exits
  and errors are inbox items too and push a waiting prompt's card out (`newer`).
- Overlapping requests of one user create two runners (`overlapped` in
  `CloudProvisioning`; docs/product-vision.md:219 allows one).
- A lost link is not dialled again while the agent runs, unless the relay is required,
  in which case the session ends: `SessionLifecycle` has no action that dials twice, as
  `run` has none (docs/production-readiness.md:45 speaks of a reconnection).
- An `end` during a `connect` leaves its socket and its hello, and the status may go
  back to ready; a command whose socket closes while it waits for the sequence store
  is dropped, yet its message is marked as sent (`PhoneLink`).
- The poller's snapshot, which lists changed files only, replaces the project's list in
  the phone's browser, since both come as `file_snapshot` (docs/flutter-app.md:106); an
  older answer to `file_list` can overtake it; a file created between the two git calls
  of `ProjectSnapshot` is listed as tracked; and in a folder without git and without
  files the list is `null`, which the phone ignores.
- When the tree becomes clean, or only untracked files are left, no `diff_ready` is sent
  and the old diff stays on the phone. A pull or a checkout of clean paths changes neither
  a status nor the fingerprint, so the poller sends nothing.
- A git command that no socket carries, or a result that is lost or finds the queue full,
  leaves the git card busy (`lost`), and so does a push, pull or hook that waits for ever:
  `runGitCommand` has no time limit, and the handler reads no command meanwhile.
- An error, a disconnect, an exit or another session frees the git card while its action
  still runs. The result then frees the card of a later action (`freed`).
- A list that the handler read before the poller's last one and queued after it stays on
  the phone (`stale`), since the poller reports only what has changed since its own.
- A preview response that breaks off after its headers is never logged.
- On Windows `Interrupt` is `TerminateProcess`: the agent cannot clean up. The goroutine
  that waits for the context calls it with a handle that `Wait` has closed.
- A registration that the relay service completes after the worker has given it up
  leaves the pairing of a dead worker in the row (`late`); a worker that restarts after
  the phone has connected is not announced to it.
- cloud-init's single post can make the row of a deleted droplet ready again:
  `FindActiveCloudServer` then returns it, and a phone that polls it goes on for ever.
- Two first runs at once give one machine two ids (`raced`; docs/build-status.md speaks of
  a stable local machine identity). A second service's exit removes the pid file of the
  first (`overlapped`).
- `stop` is a kill the service cannot handle, so the pid file and the status "running"
  stay behind (`stale`), and a later `stop` kills whatever has the pid by then. Under
  systemd and launchd the service comes back after `codexnomad stop`; the Windows
  logon task does not restart it.
- `doctor` says ready with one of the two agents, while `pair` starts codex unless told
  otherwise.
- A call stamped before a minute and counted after it sets the limiter's window back and
  clears the counts (`setBack`).

## 8. What is not modelled, and why

- Cryptography: a frame opens exactly with the key that sealed it. NaCl box,
  XChaCha20-Poly1305 and the encoding of keys are outside.
- Text: parsing of terminal output beyond which line is the prompt, of git output, of
  JSON; wording, logs, layout.
- Folders, file sizes and permissions: a path is a name, and a write may fail. The walk
  that stands in for git in a folder without it.
- Listening ports, preview addresses and branch names: values the phone only shows.
- `status`, `logs`, `devices list`, QR codes, the arguments of the agents, logging: they
  read or format and change no state that another part reads.
- Relay tickets, shared tokens and webhook signatures: checks without state.
- The relay's configuration, the text of cloud-init, regions and Tailscale keys: no state.
- The smoke client: it tests a running daemon and states nothing of its own.
- Screens other than the editor, the file browser and the poll of the cloud screen:
  widgets over the controller's state. Stored pairings and chat history: plain storage.

Assumptions of the environment: a handle that is closed while another goroutine reads it
lets the read return; the row of a cloud server is there before its droplet has booted;
pids are written at equal width, so an overlapping write leaves a whole pid; `launchctl
unload` ends the service like a signal; `systemctl` and `launchctl` do what they are
told, although `Install` ignores their failure (service.go:131-132), and the start of a
service that the supervisor launches succeeds in the end. The goroutine that copies
the computer's own keyboard to the agent (process_unix.go:48, process_windows.go:139) is
outside: it waits for a key, outlives the session and ends with the process of the daemon.

## 9. Plan

Modelled are the parts in which several actors meet. What is left, in this order:

1. Pairing from QR scan to first hello with its expiry on both sides, the stored
   pairings and the launch prompt; composed with `PhoneLink`.
2. An abstract channel "commands arrive once and in order, events are a subsequence"
   implemented by `DaemonSession`, `RelayHub` and `PhoneLink` together.
3. `parseStatus`, `parseGitStatusHeader`, `dedupePorts` and `safePath` as operators
   against reference definitions.
4. Proofs: the composition of 2; the safety halves of `HubProgress` (the steps left to a
   reader fall, whoever joins) and of `StuckServersEnd` (a creating server that has aged
   and a pass that goes through it do not miss one another).

## 10. How to run

```
tlc -workers 2 -config MCRelayHub.cfg MCRelayHub        # one run, see the table of section 3
tlapm RelayHubProofs.tla                                # one module of proofs
```

A run takes from a second to about three minutes, a module of proofs up to two.
`workspace_saved` is expected to end with a counterexample. The community modules
(`SequencesExt`, `FiniteSetsExt`) must be on the library path.
