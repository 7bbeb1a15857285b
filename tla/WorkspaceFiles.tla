--------------------------- MODULE WorkspaceFiles ---------------------------
(***************************************************************************)
(* Files of the workspace as the phone sees and edits them: the file       *)
(* commands of the daemon (files.go and handleCiphertext), the tabs of     *)
(* SessionController, the file browser and the editor widget, while the    *)
(* agent changes the same files.                                           *)
(*                                                                         *)
(* Commands and answers travel in order.  The link may be lost, with what  *)
(* is on its way from some point on; a command given without a link is     *)
(* dropped in silence, one given without keys fails.  The calls of one     *)
(* handler are one step: a link that is lost between them is one lost      *)
(* right after them.  The widgets are rebuilt after every change of the    *)
(* controller, as Riverpod's ref.watch arranges.                           *)
(*                                                                         *)
(* The list of files and its refreshes (file_list, file_snapshot, the      *)
(* poller) are left out: the user may name any path, as in the dialogs.    *)
(* Names that the file system itself takes for one file are one path.      *)
(***************************************************************************)
EXTENDS Naturals, SequencesExt, Filtering

CONSTANTS
  Paths,        \* files of the workspace
  Tracked,      \* those that git knows, with the text Original
  Texts,        \* contents of files
  Original,     \* the committed content
  Decode,       \* utf8.decode with allowMalformed: the text shown for a content
  Fold,         \* a name for all paths that strings.EqualFold takes for equal
  None,         \* no file, no content
  TabCap,       \* openFiles keeps 8
  MaxCommands,  \* bound: taps of the user that send commands
  MaxEdits,     \* bound: edits of the text
  MaxFaults,    \* bound: changes of the agent and of the session and losses, together
  MaxSteps      \* bound: all of these

CodeFile == [path : Paths, text : Texts]
Code == [path : Paths, base : Texts, text : Texts]

ASSUME ConstantsAssumption ==
  /\ Tracked \subseteq Paths
  /\ Original \in Texts
  /\ Decode \in [Texts -> Texts] /\ Fold \in [Paths -> Paths]
  /\ None \notin Texts \cup Paths \cup CodeFile \cup Code
  /\ TabCap \in Nat \ {0}
  /\ MaxCommands \in Nat /\ MaxEdits \in Nat /\ MaxFaults \in Nat /\ MaxSteps \in Nat

VARIABLES
  disk,       \* the working tree: content of every path, or None
  link,       \* up; down: no open socket; closed: the relay service has no keys
  toDaemon,   \* commands on their way
  toPhone,    \* answers on their way
  tabs,       \* openFiles: sequence of [path, text]
  active,     \* openFile: [path, text] or None
  opening,    \* openingFilePath or None
  pane,       \* tab of the live session screen, or another screen: home
  code,       \* the editor: [path, base, text] or None (_path, _baseline, _code)
  taps, edits, faults, agentSteps,   \* counters for the bounds
  past,       \* history: contents each path has had
  mixed,      \* history: a save was confirmed while another file was active
  collided,   \* history: an open file was renamed onto another open file
  misnamed,   \* history: new names of renames that were confirmed but not done
  missed      \* history: paths whose reading failed or was lost since their last opening

daemonVars == <<disk, past, misnamed, agentSteps>>
counters == <<taps, edits>>
histories == <<mixed, collided>>
vars == <<daemonVars, faults, link, toDaemon, toPhone, tabs, active, opening, pane,
          code, counters, histories, missed>>

Command ==
  [op : {"read", "delete"}, path : Paths]
    \cup [op : {"write"}, path : Paths, text : Texts]
    \cup [op : {"rename"}, from : Paths, to : Paths]
Event ==
  [type : {"file_content"}, path : Paths, text : Texts]
    \cup [type : {"file_saved", "file_deleted"}, path : Paths]
    \cup [type : {"file_renamed"}, from : Paths, to : Paths]
    \cup [type : {"error"}]

TypeOK ==
  /\ disk \in [Paths -> Texts \cup {None}]
  /\ toDaemon \in Seq(Command) /\ toPhone \in Seq(Event)
  /\ tabs \in Seq(CodeFile) /\ Len(tabs) <= TabCap
  /\ active \in CodeFile \cup {None}
  /\ opening \in Paths \cup {None}
  /\ link \in {"up", "down", "closed"}
  /\ pane \in {"files", "editor", "home"}
  /\ code \in Code \cup {None}
  /\ taps \in 0 .. MaxCommands /\ edits \in 0 .. MaxEdits
  /\ faults \in Nat /\ agentSteps \in Nat /\ faults + agentSteps <= MaxFaults
  /\ past \in [Paths -> SUBSET Texts] /\ misnamed \subseteq Paths
  /\ missed \subseteq Paths
  /\ mixed \in BOOLEAN /\ collided \in BOOLEAN

-----------------------------------------------------------------------------
Init ==
  /\ disk = [p \in Paths |-> IF p \in Tracked THEN Original ELSE None]
  /\ link = "up" /\ toDaemon = <<>> /\ toPhone = <<>>
  /\ tabs = <<>> /\ active = None /\ opening = None
  /\ pane = "files" /\ code = None
  /\ taps = 0 /\ edits = 0 /\ faults = 0 /\ agentSteps = 0
  /\ past = [p \in Paths |-> {disk[p]} \ {None}]
  /\ mixed = FALSE /\ collided = FALSE /\ misnamed = {} /\ missed = {}

-----------------------------------------------------------------------------
(* The editor widget *)

Dirty(c) == c # None /\ c.text # c.base

\* Mutant of Synced: unsaved edits do not count.
SyncedOver(file, c) ==
  IF file = None THEN c
  ELSE IF c # None /\ c.path = file.path
    THEN IF c.base # file.text THEN [c EXCEPT !.base = file.text, !.text = file.text]
         ELSE c
  ELSE [path |-> file.path, base |-> file.text, text |-> file.text]

\* _syncController: another file replaces the text, the same file does unless
\* there are unsaved edits.
Synced(file, c) ==
  IF file = None THEN c
  ELSE IF c # None /\ c.path = file.path
    THEN IF ~Dirty(c) THEN [c EXCEPT !.base = file.text, !.text = file.text] ELSE c
  ELSE [path |-> file.path, base |-> file.text, text |-> file.text]

\* The screen is rebuilt with the controller's new state: in the editor pane
\* the widget is updated, in another pane its state is gone.
Rebuild(c) == code' = IF pane' = "editor" THEN Synced(active', c) ELSE None

\* The editor shows the text and its buttons, no spinner.
Visible == pane = "editor" /\ active # None /\ opening \in {None, active.path}

-----------------------------------------------------------------------------
(* Commands of SessionController: sendCommand                              *)

Read(p) == [op |-> "read", path |-> p]

\* Without keys sendCommand throws; without an open socket the frame is dropped.
Send(commands) ==
  /\ toDaemon' = IF link = "up" THEN toDaemon \o commands ELSE toDaemon
  /\ UNCHANGED <<faults, link>>

\* Mutant of SendAndOpen: a call that throws leaves the file opening.
SendAndOpenAnyway(commands, p) ==
  /\ Send(commands)
  /\ opening' = p
  /\ missed' = IF link = "down" THEN missed \cup {p} ELSE missed \ {p}

\* The last command reads p: the controller shows it as opening unless that throws.
SendAndOpen(commands, p) ==
  /\ Send(commands)
  /\ opening' = IF link = "closed" THEN None ELSE p
  /\ missed' = IF link = "down" THEN missed \cup {p} ELSE missed \ {p}

Room == taps + faults + agentSteps < MaxSteps

Tap == Room /\ taps < MaxCommands /\ taps' = taps + 1

SelectFiles ==
  /\ pane = "editor" /\ pane' = "files" /\ code' = None
  /\ UNCHANGED <<daemonVars, faults, link, toDaemon, toPhone, tabs, active, opening,
                 counters, histories, missed>>

SelectEditor ==
  /\ pane = "files" /\ pane' = "editor"
  /\ UNCHANGED <<active, tabs>> /\ Rebuild(code)
  /\ UNCHANGED <<daemonVars, faults, link, toDaemon, toPhone, opening, counters, histories,
                 missed>>

IsOpen(p) == \E i \in DOMAIN tabs : tabs[i].path = p
OfPath(p) == [path : {p}, text : Texts]
FirstTab(p) == Head(Excluding(tabs, CodeFile \ OfPath(p)))
Without(p) == Excluding(tabs, OfPath(p))

\* switchOpenFile; the browser shows the editor first.
SwitchOpenFile(p) ==
  /\ pane' = "editor"
  /\ \/ /\ IsOpen(p)
        /\ active' = FirstTab(p) /\ opening' = None
        /\ UNCHANGED <<toDaemon, faults, link, taps, missed>>
     \/ /\ ~IsOpen(p)
        /\ Tap
        /\ SendAndOpen(<<Read(p)>>, p)
        /\ UNCHANGED active
  /\ Rebuild(code)
  /\ UNCHANGED <<daemonVars, toPhone, tabs, edits, histories>>

OpenFromBrowser(p) == pane = "files" /\ SwitchOpenFile(p)
SwitchTab(p) == Visible /\ IsOpen(p) /\ SwitchOpenFile(p)

\* The active file after the tabs of p are gone.
ActiveWithout(p) ==
  IF active # None /\ active.path = p
  THEN IF Without(p) = <<>> THEN None ELSE Last(Without(p))
  ELSE active

CloseOpenFile(p) ==
  /\ Visible /\ IsOpen(p)
  /\ tabs' = Without(p) /\ active' = ActiveWithout(p)
  /\ UNCHANGED <<pane, opening>>
  /\ Rebuild(code)
  /\ UNCHANGED <<daemonVars, faults, link, toDaemon, toPhone, counters, histories, missed>>

\* Contents that are UTF-8, as all that the user types.
Typed == {t \in Texts : Decode[t] = t}

EditText(t) ==
  /\ t \in Typed
  /\ Visible /\ t # code.text
  /\ edits < MaxEdits /\ edits' = edits + 1
  /\ code' = [code EXCEPT !.text = t]
  /\ UNCHANGED <<daemonVars, faults, link, toDaemon, toPhone, tabs, active, opening,
                 pane, taps, histories, missed>>

Revert ==
  /\ Visible /\ Dirty(code)
  /\ code' = [code EXCEPT !.text = code.base]
  /\ UNCHANGED <<daemonVars, faults, link, toDaemon, toPhone, tabs, active, opening,
                 pane, counters, histories, missed>>

\* The save button: the text becomes the baseline, then saveFile rebuilds.
SaveFile ==
  /\ Visible /\ Dirty(code)
  /\ Tap
  /\ Send(<<[op |-> "write", path |-> active.path, text |-> code.text]>>)
  /\ UNCHANGED <<pane, active>>
  /\ Rebuild([code EXCEPT !.base = code.text])
  /\ UNCHANGED <<daemonVars, toPhone, tabs, opening, edits, histories, missed>>

CreateFile(p, t) ==
  /\ t \in Typed
  /\ pane = "files" /\ pane' = "editor"
  /\ Tap
  /\ SendAndOpen(<<[op |-> "write", path |-> p, text |-> t], Read(p)>>, p)
  /\ UNCHANGED active /\ Rebuild(code)
  /\ UNCHANGED <<daemonVars, toPhone, tabs, edits, histories>>

RenameFile(p, q) ==
  /\ pane = "files" /\ q # p
  /\ pane' = "editor"
  /\ Tap
  /\ SendAndOpen(<<[op |-> "rename", from |-> p, to |-> q], Read(q)>>, q)
  /\ UNCHANGED active /\ Rebuild(code)
  /\ UNCHANGED <<daemonVars, toPhone, tabs, edits, histories>>

DeleteFile(p) ==
  /\ pane = "files"
  /\ Tap
  /\ Send(<<[op |-> "delete", path |-> p]>>)
  /\ UNCHANGED <<daemonVars, toPhone, tabs, active, opening, pane, code,
                 edits, histories, missed>>

-----------------------------------------------------------------------------
(* The link and the session *)

Fault == Room /\ faults + agentSteps < MaxFaults /\ faults' = faults + 1

\* The link fails, or a queue on the way is full: the newest frames are lost.
FramesAreLost ==
  \E n \in 0 .. Len(toDaemon), m \in 0 .. Len(toPhone) :
    /\ toDaemon' = SubSeq(toDaemon, 1, n)
    /\ toPhone' = SubSeq(toPhone, 1, m)
    /\ missed' = missed
         \cup {p \in Paths : \E i \in n + 1 .. Len(toDaemon) : toDaemon[i] = Read(p)}
         \cup {p \in Paths : \E i \in m + 1 .. Len(toPhone) :
                  toPhone[i].type = "file_content" /\ toPhone[i].path = p}

\* disconnect: the files and openingFilePath stay as they are.
LinkLost ==
  /\ link = "up" /\ link' = "down"
  /\ Fault
  /\ FramesAreLost
  /\ UNCHANGED <<pane, active>> /\ Rebuild(code)
  /\ UNCHANGED <<daemonVars, tabs, opening, counters, histories>>

\* The reconnect timer or the user has dialled again, or the queue has room.
LinkReturns ==
  /\ link = "down" /\ link' = "up"
  /\ UNCHANGED <<pane, active>> /\ Rebuild(code)
  /\ UNCHANGED <<daemonVars, faults, toDaemon, toPhone, tabs, opening, counters, histories,
                 missed>>

\* end, which leaves the screen.
End ==
  /\ pane # "home" /\ pane' = "home" /\ code' = None
  /\ Fault
  /\ link' = "closed"
  /\ FramesAreLost
  /\ UNCHANGED <<daemonVars, tabs, active, opening, counters, histories>>

\* A LiveSessionState takes the place of the old one; the screen is shown.
ReplaceSession ==
  /\ Fault
  /\ tabs' = <<>> /\ active' = None /\ opening' = None
  /\ pane' = IF pane = "home" THEN "files" ELSE pane
  /\ Rebuild(code)
  /\ UNCHANGED <<daemonVars, counters, histories>>

\* reconnectLastPairing; connect may fail before or after it has the keys.
Reconnect == ReplaceSession /\ FramesAreLost /\ link' \in {"down", "closed"}

\* openHistory.
OpenHistory == ReplaceSession /\ UNCHANGED <<link, toDaemon, toPhone, missed>>

-----------------------------------------------------------------------------
(* The daemon: handleCiphertext, one command at a time, and files.go *)

\* An answer finds no phone while the link is not up.
Answer(e) == toPhone' = IF link = "up" THEN Append(toPhone, e) ELSE toPhone
Error == Answer([type |-> "error"])

\* Files.Read fails for a missing file, and for one that is too large, a directory or
\* not permitted.
DoRead(p) ==
  /\ UNCHANGED <<disk, past, misnamed>>
  /\ \/ /\ disk[p] # None
        /\ Answer([type |-> "file_content", path |-> p, text |-> disk[p]])
        /\ missed' = IF link = "up" THEN missed ELSE missed \cup {p}
     \/ /\ Error
        /\ missed' = missed \cup {p}

DoWrite(p, t) ==
  /\ UNCHANGED <<misnamed, missed>>
  /\ \/ /\ disk' = [disk EXCEPT ![p] = t]
        /\ past' = [past EXCEPT ![p] = @ \cup {t}]
        /\ Answer([type |-> "file_saved", path |-> p])
     \/ /\ Error    \* permission, disk full
        /\ UNCHANGED <<disk, past>>

\* A file that is not there counts as deleted.
DoDelete(p) ==
  /\ UNCHANGED <<past, misnamed, missed>>
  /\ \/ /\ disk' = [disk EXCEPT ![p] = None]
        /\ Answer([type |-> "file_deleted", path |-> p])
     \/ /\ disk[p] # None
        /\ Error
        /\ UNCHANGED disk

SameFold(p, q) == Fold[p] = Fold[q]

\* Names that differ in case only are taken for equal, whatever is on the disk: the
\* file keeps its name, and the answer is that of a rename.
DoRename(p, q) ==
  /\ UNCHANGED missed
  /\ \/ /\ ~SameFold(p, q) /\ disk[p] # None
        /\ disk' = [disk EXCEPT ![p] = None, ![q] = disk[p]]
        /\ past' = [past EXCEPT ![q] = @ \cup past[p]]
        /\ misnamed' = IF p \in misnamed THEN misnamed \cup {q} ELSE misnamed
        /\ Answer([type |-> "file_renamed", from |-> p, to |-> q])
     \/ /\ SameFold(p, q)
        /\ misnamed' = misnamed \cup {q}
        /\ Answer([type |-> "file_renamed", from |-> p, to |-> q])
        /\ UNCHANGED <<disk, past>>
     \/ /\ ~SameFold(p, q)
        /\ Error
        /\ UNCHANGED <<disk, past, misnamed>>

HandleCommand ==
  /\ toDaemon # <<>>
  /\ toDaemon' = Tail(toDaemon)
  /\ LET c == Head(toDaemon)
     IN \/ c.op = "read" /\ DoRead(c.path)
        \/ c.op = "write" /\ DoWrite(c.path, c.text)
        \/ c.op = "delete" /\ DoDelete(c.path)
        \/ c.op = "rename" /\ DoRename(c.from, c.to)
  /\ UNCHANGED <<agentSteps, faults, link, tabs, active, opening, pane, code,
                 counters, histories>>

\* The agent, or anybody at the computer, writes or removes a file.
AgentChanges(p, t) ==
  /\ Room /\ faults + agentSteps < MaxFaults /\ agentSteps' = agentSteps + 1
  /\ t # disk[p]
  /\ disk' = [disk EXCEPT ![p] = t]
  /\ past' = [past EXCEPT ![p] = @ \cup ({t} \ {None})]
  /\ UNCHANGED <<misnamed, faults, link, toDaemon, toPhone, tabs, active, opening,
                 pane, code, counters, histories, missed>>

-----------------------------------------------------------------------------
(* Events at the phone: _handleEvent *)

\* Mutant of FileContent: the answer is taken for the file being opened.
FileContentOfOpening(e) ==
  LET path == IF opening = None THEN e.path ELSE opening
      file == [path |-> path, text |-> Decode[e.text]]
      all == Append(Without(path), file)
  IN /\ tabs' = SubSeq(all, IF Len(all) > TabCap THEN 2 ELSE 1, Len(all))
     /\ active' = file /\ opening' = None
     /\ UNCHANGED histories

\* The file, decoded, moves to the end of the tabs and becomes active.
FileContent(e) ==
  LET file == [path |-> e.path, text |-> Decode[e.text]]
      all == Append(Without(e.path), file)
  IN /\ tabs' = SubSeq(all, IF Len(all) > TabCap THEN 2 ELSE 1, Len(all))
     /\ active' = file /\ opening' = None
     /\ UNCHANGED histories

\* The tab of the saved file takes the content of the active file.
FileSaved(e) ==
  /\ tabs' = [i \in DOMAIN tabs |->
                IF tabs[i].path = e.path
                THEN [tabs[i] EXCEPT !.text = IF active = None THEN @ ELSE active.text]
                ELSE tabs[i]]
  /\ mixed' = (mixed \/ (IsOpen(e.path) /\ active # None /\ active.path # e.path))
  /\ UNCHANGED <<active, opening, collided>>

\* Mutant of FileDeleted: the active file is not looked at.
FileDeletedStaysActive(e) ==
  /\ tabs' = Without(e.path)
  /\ UNCHANGED <<active, opening, histories>>

FileDeleted(e) ==
  /\ tabs' = Without(e.path) /\ active' = ActiveWithout(e.path)
  /\ UNCHANGED <<opening, histories>>

Renamed(f, e) == IF f # None /\ f.path = e.from THEN [f EXCEPT !.path = e.to] ELSE f

FileRenamed(e) ==
  /\ tabs' = [i \in DOMAIN tabs |-> Renamed(tabs[i], e)]
  /\ active' = Renamed(active, e)
  /\ collided' = (collided \/ (IsOpen(e.from) /\ IsOpen(e.to)))
  /\ UNCHANGED <<opening, mixed>>

\* Status and messages change, the files do not.
ErrorEvent == UNCHANGED <<tabs, active, opening, histories>>

HandleEvent ==
  /\ toPhone # <<>>
  /\ toPhone' = Tail(toPhone)
  /\ LET e == Head(toPhone)
     IN \/ e.type = "file_content" /\ FileContent(e)
        \/ e.type = "file_saved" /\ FileSaved(e)
        \/ e.type = "file_deleted" /\ FileDeleted(e)
        \/ e.type = "file_renamed" /\ FileRenamed(e)
        \/ e.type = "error" /\ ErrorEvent
  /\ UNCHANGED pane /\ Rebuild(code)
  /\ UNCHANGED <<daemonVars, faults, link, toDaemon, counters, missed>>

\* Any other event (terminal output, say) rebuilds the screen too.
OtherEvent ==
  /\ UNCHANGED <<pane, active>> /\ Rebuild(code)
  /\ UNCHANGED <<daemonVars, faults, link, toDaemon, toPhone, tabs, opening, counters,
                 histories, missed>>

-----------------------------------------------------------------------------

User ==
  \/ SelectFiles \/ SelectEditor \/ Revert \/ SaveFile
  \/ \E p \in Paths :
       OpenFromBrowser(p) \/ SwitchTab(p) \/ CloseOpenFile(p) \/ DeleteFile(p)
  \/ \E p \in Paths, t \in Texts : CreateFile(p, t)
  \/ \E p, q \in Paths : RenameFile(p, q)
  \/ \E t \in Texts : EditText(t)
  \/ End \/ Reconnect \/ OpenHistory

Next ==
  \/ User
  \/ HandleCommand \/ HandleEvent \/ OtherEvent
  \/ LinkLost \/ LinkReturns
  \/ \E p \in Paths, t \in Texts \cup {None} : AgentChanges(p, t)

Spec == Init /\ [][Next]_vars

-----------------------------------------------------------------------------
(* Properties *)

\* Whatever order answers, closings, deletions and renames come in, the file in
\* the editor has a tab with the same content, so switching away and back shows
\* the same text; and no file has two tabs, unless a file was renamed onto an
\* open one: file_renamed does not merge them and both then close together
\* (_handleEvent, closeOpenFile, switchOpenFile).
TabsAreConsistent ==
  /\ active = None \/ \E i \in DOMAIN tabs : tabs[i] = active
  /\ collided \/ \A i, j \in DOMAIN tabs : tabs[i].path = tabs[j].path => i = j

\* What a tab of p may show: a content the file has had, decoded; anything after the
\* daemon confirmed a change of case to this name, or renamed such a file to it, since
\* then the tab has a name that the file has not (files.Rename).
TextsOf(p) == IF p \in misnamed THEN Texts ELSE {Decode[t] : t \in past[p]}

\* The content of a tab is one its file has had on the computer, although
\* reads, saves, renames, losses and the agent overlap - unless a save was confirmed
\* after the user went to another tab, when file_saved gives the saved file's
\* tab the content of the other one, or a rename was not done (TextsOf).
TabsAreHonest ==
  ~mixed => \A i \in DOMAIN tabs : tabs[i].text \in TextsOf(tabs[i].path)

\* An event of the daemon takes the user's unsaved edits only by making another
\* file the active one: the late answer of a read, a deletion or a rename.  A
\* new content of the same file or an error does not.
EventsSpareEdits ==
  [][HandleEvent /\ Dirty(code) /\ active # None /\ code.path = active.path
       /\ active' # None /\ active'.path = active.path
     => code' = code]_vars

\* The spinner of a file being opened has an answer to wait for, whatever the user
\* does meanwhile, unless since that opening the daemon could not read the file, or the
\* command or its answer was lost: neither the error event nor disconnect takes the
\* spinner away, and a command without a socket is dropped in silence (readFile,
\* sendCommand, file_content, error, disconnect).
OpeningIsAwaited ==
  opening # None =>
    \/ Contains(toDaemon, Read(opening))
    \/ \E i \in DOMAIN toPhone : toPhone[i].type = "file_content" /\ toPhone[i].path = opening
    \/ opening \in missed

\* The editor has a tab for what it shows and an answer to wait for: both of the above.
EditorIsConsistent == TabsAreConsistent /\ OpeningIsAwaited

\* As long as only the phone changes files and nothing is under way, the text
\* that the editor labels "Saved" is the text of the file.
SavedMeansSaved ==
  /\ Visible /\ ~Dirty(code) /\ agentSteps = 0
  /\ toDaemon = <<>> /\ toPhone = <<>>
  => disk[code.path] # None /\ code.text = Decode[disk[code.path]]

=============================================================================
