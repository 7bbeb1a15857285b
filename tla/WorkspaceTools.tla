--------------------------- MODULE WorkspaceTools ---------------------------
(***************************************************************************)
(* What the phone sees of the working tree: the change poller of the       *)
(* daemon (files.Poll), its answers to file_list, workspace_tools and      *)
(* git_action (handleCiphertext), and the phone's file list, diff card and *)
(* busy git card (SessionController).                                      *)
(*                                                                         *)
(* The agent and the user change files and run git while the daemon reads  *)
(* the tree with several git calls, each of which sees another moment.  A  *)
(* version stands for the contents and the modification time of a file.    *)
(* Events share one queue that drops when it is full, as do those of the   *)
(* relay after it; they arrive in order.  A command without an open socket *)
(* is dropped in silence, one without keys fails.                          *)
(***************************************************************************)
EXTENDS Integers, Sequences, SequencesExt

CONSTANTS
  Committed,  \* paths that are committed at first
  New,        \* paths that are not there at first
  OutCap,     \* capacity of the outbound queue (256 in the code)
  MaxChanges, \* bound: changes by the agent and the user
  MaxAsked,   \* bound: commands of the phone
  MaxBreaks,  \* bound: errors, losses, ends and replacements of the session
  MaxInAll    \* bound: all of these

ASSUME ToolsAssumption ==
  /\ OutCap \in Nat \ {0}
  /\ MaxChanges \in Nat /\ MaxAsked \in Nat /\ MaxBreaks \in Nat /\ MaxInAll \in Nat

Tree == Committed \cup New
GitActions == {"stage_all", "unstage_all", "commit", "push", "pull", "checkout"}

VARIABLES
  head, index, work, \* the versions of each path: HEAD, index, file; 0 is none
  last,      \* Poll's last fingerprint, of no files at first
  poller,    \* Poll: "tick", or the callback's "diff" and "cached"
  patch,     \* what the first call of GitDiff returned
  toHandler, \* commands on their way to the handler
  handler,   \* "idle", the git action that runs, "tools", "status" or "ls"
  statuses,  \* the statuses ProjectSnapshot has read
  outbound,  \* events on their way to the phone
  list, diff,\* the phone's files and the patch of its card
  busy,      \* gitActionInFlight
  socket,    \* the phone's: "up"; "down"; "closed": it has no keys either
  changes, sent, breaks, \* steps so far, for the bounds
  polled,    \* history: the changes of the poller's last list, sent or lost
  stale,     \* history: the newest list on its way or shown is not the poller's last
  lost,      \* history: the card is busy for an action that has left no trace
  freed      \* history: the card was freed by something else than a result while an
             \* action was under way, and there has been one ever since

git == <<head, index, work>>
poll == <<last, poller, patch, polled>>
command == <<toHandler, handler, statuses, sent>>
card == <<busy, lost, freed>>
counts == <<changes, breaks>>
tools == <<git, poll, command, list, diff, card, outbound, socket, counts, stale>>

-----------------------------------------------------------------------------
(* git, as the daemon reads and writes it *)

\* git status of a path; of a path deleted in the index and there again parseStatus
\* keeps the later line, which is the untracked one.
Status(p) ==
  CASE index[p] = 0 /\ work[p] # 0                     -> "untracked"
    [] index[p] # work[p] /\ index[p] # 0 /\ head[p] # index[p] -> "both"
    [] index[p] # work[p] /\ index[p] # 0 /\ head[p] = index[p] -> "modified"
    [] index[p] = work[p] /\ head[p] # index[p]        -> "staged"
    [] OTHER                                           -> "none"

\* GitSnapshot: the paths that changed.
GitSnapshot == [p \in Tree |-> Status(p)]

\* ls-files -co names what is in the index or untracked; ProjectSnapshot calls the
\* paths that `git status` did not name tracked.
ProjectSnapshot(read) ==
  [p \in Tree |-> IF read[p] = "none" /\ (index[p] # 0 \/ work[p] # 0)
                     THEN "tracked" ELSE read[p]]

\* Mutant of Fingerprint: paths and times, without the status.
FingerprintOfTimes(snap) == [p \in Tree |-> IF snap[p] = "none" THEN <<>> ELSE <<work[p]>>]

\* Status, path and modification time of the changed files.
Fingerprint(snap) == [p \in Tree |-> IF snap[p] = "none" THEN <<>> ELSE <<snap[p], work[p]>>]

\* The two halves of GitDiff.
Unstaged == {p \in Tree : index[p] # 0 /\ index[p] # work[p]} \X {"unstaged"}
Staged == {p \in Tree : head[p] # index[p]} \X {"staged"}

\* One git action.  Each may fail instead, and changes nothing then; a pull or another
\* branch changes files that have no changes of their own.
RunGit(action) ==
  \/ action = "stage_all" /\ index' = work /\ UNCHANGED <<head, work>>
  \/ action = "unstage_all" /\ index' = head /\ UNCHANGED <<head, work>>
  \/ action = "commit" /\ head # index /\ head' = index /\ UNCHANGED <<index, work>>
  \/ action = "push" /\ UNCHANGED git
  \/ /\ action \in {"pull", "checkout"}
     /\ \E p \in Committed :
          /\ Status(p) = "none"
          /\ head' = [head EXCEPT ![p] = changes + 2]
          /\ index' = [index EXCEPT ![p] = changes + 2]
          /\ work' = [work EXCEPT ![p] = changes + 2]

-----------------------------------------------------------------------------
(* The daemon's queue *)

Report(kind, data) == [kind |-> kind, data |-> data]

HasRoom == Len(outbound) < OutCap

\* queue(): a full channel loses the event.
Queue(e) == outbound' = IF HasRoom THEN Append(outbound, e) ELSE outbound

HasList(reports) == \E i \in DOMAIN reports : reports[i].kind = "list"

\* What a list says of changed files; whole lists have the others too.
Changes(l) == {<<p, l[p]>> : p \in {q \in Tree : l[q] \notin {"none", "tracked"}}}

-----------------------------------------------------------------------------
(* The git card *)

\* The git commands and results on their way, and the git command that runs.
Underway ==
  {<<"command", i>> : i \in {j \in DOMAIN toHandler : toHandler[j] \in GitActions}}
    \cup {<<"git", h>> : h \in {handler} \cap GitActions}
    \cup {<<"result", i>> : i \in {j \in DOMAIN outbound : outbound[j].kind = "result"}}

\* The card goes back to free, by a result or by anything else.
CardIsFreed(early) ==
  /\ busy' = FALSE /\ lost' = FALSE
  /\ freed' = ((freed \/ (early /\ busy)) /\ Underway' # {})

\* A git action moves on, or its result is gone.
ActionMoves(gone) ==
  /\ lost' = (lost \/ (gone /\ busy /\ Underway' = {}))
  /\ freed' = (freed /\ Underway' # {})
  /\ UNCHANGED busy

-----------------------------------------------------------------------------
(* files.Poll and its callback *)

\* A tick: a new fingerprint is kept, whether or not the list can be sent; the old one
\* changes nothing.
Emit ==
  /\ poller = "tick"
  /\ Fingerprint(GitSnapshot) # last
  /\ last' = Fingerprint(GitSnapshot)
  /\ polled' = Changes(GitSnapshot)
  /\ Queue(Report("list", GitSnapshot))
  /\ stale' = ~HasRoom
  /\ poller' = IF \A p \in Tree : Status(p) = "none" THEN "tick" ELSE "diff"
  /\ UNCHANGED <<git, patch, command, list, diff, card, socket, counts>>

\* GitDiff asks for the changes of the files, then for those of the index.
DiffFiles ==
  /\ poller = "diff"
  /\ patch' = Unstaged
  /\ poller' = "cached"
  /\ UNCHANGED <<git, last, polled, command, list, diff, card, outbound, socket, counts, stale>>

\* An empty patch is not sent: the old one stays on the phone.
DiffIndex ==
  /\ poller = "cached"
  /\ poller' = "tick"
  /\ patch' = {}
  /\ IF patch \cup Staged = {} THEN UNCHANGED outbound
       ELSE Queue(Report("diff", patch \cup Staged))
  /\ UNCHANGED <<git, last, polled, command, list, diff, card, socket, counts, stale>>

Poll == Emit \/ DiffFiles \/ DiffIndex

-----------------------------------------------------------------------------
(* handleCiphertext: file_list, workspace_tools, git_action *)

Take(cmd, step) ==
  /\ handler = "idle" /\ toHandler # <<>> /\ Head(toHandler) = cmd
  /\ toHandler' = Tail(toHandler)
  /\ handler' = step

FileList ==
  /\ Take("file_list", "status")
  /\ UNCHANGED <<git, poll, statuses, sent, list, diff, card, outbound, socket, counts, stale>>

\* git is started.
GitAction ==
  /\ \E action \in GitActions : Take(action, action)
  /\ UNCHANGED <<git, poll, statuses, sent, list, diff, card, outbound, socket, counts, stale>>

\* Mutant of GitEnds: a failed git command is answered with nothing.
GitEndsSilent ==
  /\ handler \in GitActions
  /\ \/ RunGit(handler) /\ handler' = "tools" /\ Queue(Report("result", handler))
     \/ UNCHANGED <<git, outbound>> /\ handler' = "idle"
  /\ UNCHANGED <<poll, toHandler, statuses, sent, list, diff, socket, counts, stale>>
  /\ ActionMoves(~HasRoom)

\* Nothing makes git end: a push, a pull or a hook may wait.  The result goes first;
\* the tools and the list follow what succeeded.
GitEnds ==
  /\ handler \in GitActions
  /\ \/ RunGit(handler) /\ handler' = "tools"
     \/ UNCHANGED git /\ handler' = "idle"
  /\ Queue(Report("result", handler))
  /\ UNCHANGED <<poll, toHandler, statuses, sent, list, diff, socket, counts, stale>>
  /\ ActionMoves(~HasRoom)

\* workspaceTools, after its own git calls and the scan of the ports; its event only
\* takes a place in the queue here.
WorkspaceTools ==
  /\ \/ handler = "tools" /\ handler' = "status" /\ UNCHANGED toHandler
     \/ Take("workspace_tools", "idle")
  /\ Queue(Report("tools", {}))
  /\ UNCHANGED <<git, poll, statuses, sent, list, diff, card, socket, counts, stale>>

\* The two calls of ProjectSnapshot.
ReadStatus ==
  /\ handler = "status"
  /\ handler' = "ls"
  /\ statuses' = GitSnapshot
  /\ UNCHANGED <<git, poll, toHandler, sent, list, diff, card, outbound, socket, counts, stale>>

\* The list may be of a tree from before the poller's last list, or of one that the
\* poller never saw.
ReadPaths ==
  /\ handler = "ls"
  /\ handler' = "idle"
  /\ Queue(Report("list", ProjectSnapshot(statuses)))
  /\ stale' = IF HasRoom THEN Changes(statuses) # polled ELSE stale
  /\ statuses' = [p \in Tree |-> "none"]
  /\ UNCHANGED <<git, poll, toHandler, sent, list, diff, card, socket, counts>>

ToolsHandler == FileList \/ GitAction \/ WorkspaceTools \/ ReadStatus \/ ReadPaths

-----------------------------------------------------------------------------
(* The phone *)

InAll == changes + sent + breaks < MaxInAll

\* A command arrives, or is dropped in silence: for want of a socket, or by a full
\* queue on the way.
Arrives == IF socket = "up" THEN BOOLEAN ELSE {FALSE}

PhoneSends(cmd, arrives) ==
  /\ InAll /\ sent < MaxAsked
  /\ sent' = sent + 1
  /\ toHandler' = IF arrives THEN Append(toHandler, cmd) ELSE toHandler
  /\ UNCHANGED <<git, poll, handler, statuses, list, diff, outbound, socket, counts, stale>>

RequestFiles == \E arrives \in Arrives : PhoneSends("file_list", arrives) /\ UNCHANGED card

RequestWorkspaceTools ==
  \E arrives \in Arrives : PhoneSends("workspace_tools", arrives) /\ UNCHANGED card

\* Mutant of RunGitAction: the card is not marked busy.
RunGitActionUnmarked ==
  \E action \in GitActions, arrives \in Arrives :
    /\ ~busy
    /\ PhoneSends(action, arrives)
    /\ UNCHANGED card

\* The git card is disabled while an action is in flight, and free again if
\* sendCommand throws.
RunGitAction ==
  \E action \in GitActions, arrives \in Arrives :
    /\ ~busy
    /\ busy' = (socket # "closed")
    /\ lost' = (socket # "closed" /\ ~arrives)
    /\ PhoneSends(action, arrives)
    /\ UNCHANGED freed

Receive(kind) ==
  /\ socket = "up" /\ outbound # <<>> /\ Head(outbound).kind = kind
  /\ outbound' = Tail(outbound)

\* Mutant of FileSnapshot: the list is kept.
FileSnapshotIgnored ==
  /\ Receive("list")
  /\ UNCHANGED <<git, poll, command, list, diff, card, socket, counts, stale>>

\* Whatever list it is, it replaces the one before.
FileSnapshot ==
  /\ Receive("list")
  /\ list' = Head(outbound).data
  /\ UNCHANGED <<git, poll, command, diff, card, socket, counts, stale>>

DiffReady ==
  /\ Receive("diff")
  /\ diff' = Head(outbound).data
  /\ UNCHANGED <<git, poll, command, list, card, socket, counts, stale>>

\* Whichever action the result is of, the card becomes free.
GitActionResult ==
  /\ Receive("result")
  /\ UNCHANGED <<git, poll, command, list, diff, socket, counts, stale>>
  /\ CardIsFreed(FALSE)

ToolsReady ==
  /\ Receive("tools")
  /\ UNCHANGED <<git, poll, command, list, diff, card, socket, counts, stale>>

\* Without the phone's socket the relay forwards to nobody.
LoseReport ==
  /\ socket # "up" /\ outbound # <<>>
  /\ outbound' = Tail(outbound)
  /\ stale' = (stale \/ (Head(outbound).kind = "list" /\ ~HasList(Tail(outbound))))
  /\ UNCHANGED <<git, poll, command, list, diff, socket, counts>>
  /\ ActionMoves(Head(outbound).kind = "result")

Deliver == FileSnapshot \/ DiffReady \/ GitActionResult \/ ToolsReady \/ LoseReport

-----------------------------------------------------------------------------
(* The session *)

Break == InAll /\ breaks < MaxBreaks /\ breaks' = breaks + 1 /\ UNCHANGED changes

\* error, process_exit, pairing_expired: what they come from is no part of this module.
SessionEvent ==
  /\ Break
  /\ UNCHANGED <<git, poll, command, list, diff, outbound, socket, stale>>
  /\ CardIsFreed(TRUE)

\* The socket fails or is closed, with the newest commands on their way.
CommandsAreLost ==
  /\ \E n \in 0 .. Len(toHandler) : toHandler' = SubSeq(toHandler, 1, n)
  /\ UNCHANGED <<handler, statuses, sent>>

\* disconnect.
SocketLost ==
  /\ Break
  /\ socket = "up" /\ socket' = "down"
  /\ CommandsAreLost
  /\ UNCHANGED <<git, poll, list, diff, outbound, stale>>
  /\ CardIsFreed(TRUE)

\* The timer or the user has dialled again: the card is as it was.
SocketReturns ==
  /\ socket = "down" /\ socket' = "up"
  /\ UNCHANGED <<git, poll, command, list, diff, card, outbound, counts, stale>>

\* end.
Leave ==
  /\ Break
  /\ socket' = "closed"
  /\ CommandsAreLost
  /\ UNCHANGED <<git, poll, list, diff, outbound, stale>>
  /\ CardIsFreed(TRUE)

\* A LiveSessionState takes the place of the old one.
StartOver ==
  /\ Break
  /\ list' = [p \in Tree |-> "none"] /\ diff' = {}
  /\ stale' = (stale \/ ~HasList(outbound))
  /\ UNCHANGED <<git, poll, outbound>>

\* connectFromPairing, reconnectLastPairing.
NewSession ==
  /\ StartOver
  /\ socket' \in {"down", "closed"}
  /\ CommandsAreLost
  /\ CardIsFreed(TRUE)

\* openHistory: the socket stays.
ShowHistory ==
  /\ StartOver
  /\ UNCHANGED <<socket, command>>
  /\ CardIsFreed(TRUE)

Session ==
  SessionEvent \/ SocketLost \/ SocketReturns \/ Leave \/ NewSession \/ ShowHistory

-----------------------------------------------------------------------------
(* The agent and the user *)

\* A file is written, or deleted (0).
Edit(p) ==
  /\ InAll /\ changes < MaxChanges
  /\ changes' = changes + 1
  /\ \E v \in {0, changes + 2} \ {work[p]} : work' = [work EXCEPT ![p] = v]
  /\ UNCHANGED <<head, index, poll, command, list, diff, card, outbound, socket, breaks, stale>>

\* git is run in a terminal.
GitElsewhere(action) ==
  /\ InAll /\ changes < MaxChanges
  /\ changes' = changes + 1
  /\ RunGit(action)
  /\ UNCHANGED <<poll, command, list, diff, card, outbound, socket, breaks, stale>>

-----------------------------------------------------------------------------
ToolsInit ==
  /\ head = [p \in Tree |-> IF p \in Committed THEN 1 ELSE 0]
  /\ index = head /\ work = head
  /\ last = [p \in Tree |-> <<>>] /\ poller = "tick" /\ patch = {} /\ polled = {}
  /\ toHandler = <<>> /\ handler = "idle" /\ statuses = [p \in Tree |-> "none"]
  /\ outbound = <<>> /\ list = [p \in Tree |-> "none"] /\ diff = {} /\ busy = FALSE
  /\ socket = "up" /\ changes = 0 /\ sent = 0 /\ breaks = 0
  /\ stale = FALSE /\ lost = FALSE /\ freed = FALSE

ToolsNext ==
  \/ Poll \/ ToolsHandler \/ GitEnds \/ Deliver \/ Session
  \/ RequestFiles \/ RequestWorkspaceTools \/ RunGitAction
  \/ \E p \in Tree : Edit(p)
  \/ \E action \in GitActions : GitElsewhere(action)

ToolsSpec == ToolsInit /\ [][ToolsNext]_tools

\* The poller and the handler run and the relay delivers.  That git ends is not assumed.
ToolsRun == WF_tools(Poll) /\ WF_tools(ToolsHandler) /\ WF_tools(Deliver)

FairToolsSpec == ToolsSpec /\ ToolsRun

-----------------------------------------------------------------------------
(* Properties *)

\* A busy git card has its action to wait for, a command, git itself or a result, unless
\* one was lost; and as long as only results free it, it is one action's card: exactly
\* one is under way while it is busy and none while it is free.  An error, a lost socket,
\* the end of the session or another session frees it early: from then on, until no git
\* action is left, a result may free the card of a later action (runGitAction,
\* git_action_result, error, disconnect, openHistory).
GitCardIsExact ==
  /\ busy /\ ~lost => Underway # {}
  /\ ~freed => IF busy /\ ~lost THEN \E u \in Underway : Underway = {u} ELSE Underway = {}

\* Once the tree is left alone, and whatever was polled, asked and lost before, the phone
\* lists its changes as they are (files.Poll) - unless the newest list is not the poller's
\* last: that was lost on the way or with the session, or the handler queued one after it
\* that it had read at another moment (ProjectSnapshot), which nothing then replaces.
ListCatchesUp == <>[](Changes(list) = Changes(GitSnapshot) \/ stale)

\* The git card becomes free again after every action, failed ones too, unless the
\* command or the result was lost, or a git never ends (handleCiphertext, runGitCommand).
GitCardIsFreed == []<>(handler \notin GitActions) => (busy ~> ~busy \/ lost)
=============================================================================
