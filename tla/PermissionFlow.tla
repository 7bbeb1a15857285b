--------------------------- MODULE PermissionFlow ---------------------------
(***************************************************************************)
(* An approval from the agent's prompt to its answer: the agent prints a   *)
(* prompt and waits for a line of input, the detector recognises it in the *)
(* terminal output, the phone shows a card, the user taps it, the daemon   *)
(* writes the line and tells the phone that the card is resolved.          *)
(*                                                                         *)
(* A prompt is abstracted to the line the detector extracts from it, which *)
(* is all its id depends on; other output is the line Plain.  This is one  *)
(* connection of the phone: events and commands travel in order and are    *)
(* not lost (DaemonSession says when they are), and the inbox is not       *)
(* started anew by a connect.  The inbox also takes items that are no      *)
(* prompts.  The agent and the two users are not scheduled fairly.         *)
(***************************************************************************)
EXTENDS Naturals, SequencesExt, Filtering

CONSTANTS
  Prompts,     \* lines that look like a permission prompt
  Plain,       \* a line that does not
  NoPrompt,    \* no prompt; no id
  Notice,      \* an item with an id of its own: disconnect, error, process_exit
  Diff,        \* the item of diff_ready, which always has the same id
  WindowLines, \* lines the detector remembers (6000 bytes in the code)
  InboxCap,    \* items the phone keeps (40 in the code)
  MaxLines,    \* bound: lines the agent prints, prompts included
  MaxDecisions, \* bound: decisions taken on the phone and at the keyboard
  MaxItems     \* bound: items that are no prompts

ASSUME PermissionAssumption ==
  /\ {Plain, NoPrompt, Notice, Diff} \cap Prompts = {}
  /\ WindowLines \in Nat \ {0} /\ InboxCap \in Nat \ {0}
  /\ MaxLines \in Nat /\ MaxDecisions \in Nat /\ MaxItems \in Nat

VARIABLES
  screen,    \* agent: the prompt it waits on
  input,     \* the PTY: lines not read yet, each with the card it came from
  window,    \* permissionDetector.recent
  lastID, recent, \* permissionDetector.lastID; lastAt is under two minutes ago
  events,    \* daemon to phone
  commands,  \* phone to daemon
  handling,  \* the command the handler has taken and not carried out
  resolving, \* the event it owes for the one it has carried out
  inbox,     \* LiveSessionState.inbox, newest first
  lines, decisions, items, seen, \* counters; prompts that were on the screen
  fresh,     \* history: the prompt on the screen had not been there before
  interrupted, \* history: the interrupt that names no card was used
  newer,     \* history: items pushed since the card of the prompt on the screen,
             \* counted up to InboxCap
  failed     \* history: cards whose decision failed and whose error was shown

attention == <<inbox, items, newer, failed>>
daemon == <<handling, resolving>>
detector == <<window, lastID, recent>>
terminal == <<screen, input>>
printing == <<lines, seen, fresh, interrupted>>
flow == <<terminal, detector, events, commands, daemon, attention, decisions, printing>>

Keyboard == "keyboard"
Requested(id) == [kind |-> "requested", id |-> id]
Resolved(id) == [kind |-> "resolved", id |-> id]
\* The `error` event; it names no card, the id is there for `failed` only.
Failed(id) == [kind |-> "error", id |-> id]

-----------------------------------------------------------------------------
(* permissionDetector.Observe *)

\* extractDetail searches the window from its end.
Detail(w) == Last(Excluding(w, {Plain}))

LooksLikePermission(w) == \E i \in DOMAIN w : w[i] \in Prompts

Newest(w) ==
  IF Len(w) > WindowLines THEN SubSeq(w, Len(w) - WindowLines + 1, Len(w)) ELSE w

\* The window decides, not the new line: ordinary output can raise the card of an
\* earlier prompt again once two minutes have passed.
Observe(line) ==
  LET w == Newest(Append(window, line)) IN
  /\ window' = w
  /\ IF LooksLikePermission(w) /\ ~(Detail(w) = lastID /\ recent)
       THEN /\ lastID' = Detail(w)
            /\ recent' = TRUE
            /\ events' = Append(events, Requested(Detail(w)))
       ELSE UNCHANGED <<lastID, recent, events>>

TwoMinutesPass ==
  /\ recent
  /\ recent' = FALSE
  /\ UNCHANGED <<terminal, window, lastID, events, commands, daemon, attention,
                 decisions, printing>>

-----------------------------------------------------------------------------
(* The agent *)

Shows(line) ==
  /\ lines < MaxLines
  /\ lines' = lines + 1
  /\ seen' = seen \cup ({line} \cap Prompts)
  /\ Observe(line)
  /\ UNCHANGED <<input, commands, daemon, inbox, items, failed, decisions, interrupted>>

Ask(p) ==
  /\ screen = NoPrompt
  /\ screen' = p
  /\ fresh' = (p \notin seen)
  /\ newer' = 0
  /\ Shows(p)

\* Output that asks for nothing, although it may look like a prompt.
Output(line) ==
  /\ screen = NoPrompt
  /\ Shows(line)
  /\ UNCHANGED <<screen, fresh, newer>>

\* The agent takes the next line of input as the answer to its prompt.
TakeAnswer ==
  /\ screen # NoPrompt /\ input # <<>>
  /\ screen' = NoPrompt
  /\ input' = Tail(input)
  /\ UNCHANGED <<detector, events, commands, daemon, attention, decisions, printing>>

\* Without a prompt it takes the line for something else.
ReadOther ==
  /\ screen = NoPrompt /\ input # <<>>
  /\ input' = Tail(input)
  /\ UNCHANGED <<screen, detector, events, commands, daemon, attention, decisions,
                 printing>>

\* The user of the machine answers at the keyboard (terminal.Start copies stdin).
Type ==
  /\ screen # NoPrompt /\ decisions < MaxDecisions
  /\ decisions' = decisions + 1
  /\ input' = Append(input, Keyboard)
  /\ UNCHANGED <<screen, detector, events, commands, daemon, attention, printing>>

-----------------------------------------------------------------------------
(* handleCiphertext *)

TakeCommand ==
  /\ handling = <<>> /\ resolving = <<>> /\ commands # <<>>
  /\ handling' = <<Head(commands)>>
  /\ commands' = Tail(commands)
  /\ UNCHANGED <<terminal, detector, events, resolving, attention, decisions, printing>>

Handles(action) == handling # <<>> /\ Head(handling).action = action

\* approve and reject write "y\n" or "n\n" whatever is on the screen.  The write
\* waits while the agent does not read and its PTY is full.
WriteDecision ==
  /\ Handles("decide")
  /\ input' = Append(input, Head(handling).id)
  /\ resolving' = <<Resolved(Head(handling).id)>>
  /\ handling' = <<>>
  /\ UNCHANGED <<screen, detector, events, commands, attention, decisions, printing>>

\* interrupt signals the agent, which gives up its prompt.
Interrupt ==
  /\ Handles("interrupt")
  /\ screen' = NoPrompt
  /\ resolving' = <<Resolved(Head(handling).id)>>
  /\ handling' = <<>>
  /\ UNCHANGED <<input, detector, events, commands, attention, decisions, printing>>

\* proc.Write or proc.Interrupt returns an error.
CommandFails(action) ==
  /\ Handles(action)
  /\ resolving' = <<Failed(Head(handling).id)>>
  /\ handling' = <<>>
  /\ UNCHANGED <<terminal, detector, events, commands, attention, decisions, printing>>

\* Mutant of SendResolved: the event does not name its card.
SendResolvedNoId ==
  /\ resolving # <<>>
  /\ events' = Append(events, [Head(resolving) EXCEPT !.id = NoPrompt])
  /\ resolving' = <<>>
  /\ UNCHANGED <<terminal, detector, commands, handling, attention, decisions, printing>>

\* Only then is permission_resolved sent, with the id of the command, or error.
SendResolved ==
  /\ resolving # <<>>
  /\ events' = Append(events, Head(resolving))
  /\ resolving' = <<>>
  /\ UNCHANGED <<terminal, detector, commands, handling, attention, decisions, printing>>

\* What the handler does without waiting for the agent.
Handler == TakeCommand \/ Interrupt \/ CommandFails("interrupt") \/ SendResolved

-----------------------------------------------------------------------------
(* The phone *)

\* _pushInbox: the item replaces an older one with its id; the oldest fall off.
PushInbox(id) ==
  LET cards == <<id>> \o Excluding(inbox, {id} \ {Notice}) IN
  IF Len(cards) > InboxCap THEN SubSeq(cards, 1, InboxCap) ELSE cards

Push(id) ==
  /\ inbox' = PushInbox(id)
  /\ newer' = IF id = screen THEN 0 ELSE IF newer < InboxCap THEN newer + 1 ELSE newer

\* Mutant of RemoveResolved: the newest item goes, whatever the event names.
RemoveNewest(id) == inbox' = IF inbox = <<>> THEN inbox ELSE Tail(inbox)

\* _withoutResolvedPermission: the named card goes; without a name, the newest one
\* that is of a prompt.
RemoveResolved(id) ==
  \/ /\ id # NoPrompt
     /\ inbox' = Excluding(inbox, {id})
  \/ /\ id = NoPrompt
     /\ \E i \in DOMAIN inbox :
          /\ inbox[i] \in Prompts /\ \A j \in 1 .. i - 1 : inbox[j] \notin Prompts
          /\ inbox' = RemoveAt(inbox, i)
  \/ /\ id = NoPrompt
     /\ \A i \in DOMAIN inbox : inbox[i] \notin Prompts
     /\ UNCHANGED inbox

ReceiveEvent ==
  /\ events # <<>>
  /\ events' = Tail(events)
  /\ LET e == Head(events) IN
     \/ e.kind = "requested" /\ Push(e.id) /\ UNCHANGED failed
     \/ e.kind = "resolved" /\ RemoveResolved(e.id) /\ UNCHANGED <<newer, failed>>
     \/ e.kind = "error" /\ Push(Notice) /\ failed' = failed \cup {e.id}
  /\ UNCHANGED <<terminal, detector, commands, daemon, items, decisions, printing>>

\* The items of the other events, the phone's own disconnect among them.
OtherItem(item) ==
  /\ items < MaxItems
  /\ items' = items + 1
  /\ Push(item)
  /\ UNCHANGED <<terminal, detector, events, commands, daemon, failed, decisions,
                 printing>>

SendCommand(action, id) ==
  /\ decisions < MaxDecisions
  /\ decisions' = decisions + 1
  /\ commands' = Append(commands, [action |-> action, id |-> id])
  /\ failed' = failed \ {id}
  /\ UNCHANGED <<terminal, detector, events, daemon, inbox, items, newer, lines, seen,
                 fresh>>

\* Approve and Deny on a card, which stays until its resolution comes back, and
\* the terminal pane's interrupt, which names no card.
TapCard(p) ==
  /\ \E i \in DOMAIN inbox : inbox[i] = p
  /\ SendCommand("decide", p)
  /\ UNCHANGED interrupted
TapInterrupt == SendCommand("interrupt", NoPrompt) /\ interrupted' = TRUE

-----------------------------------------------------------------------------
FlowInit ==
  /\ screen = NoPrompt /\ input = <<>>
  /\ window = <<>> /\ lastID = NoPrompt /\ recent = FALSE
  /\ events = <<>> /\ commands = <<>> /\ handling = <<>> /\ resolving = <<>>
  /\ inbox = <<>>
  /\ lines = 0 /\ decisions = 0 /\ items = 0 /\ seen = {}
  /\ fresh = FALSE /\ interrupted = FALSE /\ newer = 0 /\ failed = {}

FlowNext ==
  \/ TwoMinutesPass \/ TakeAnswer \/ ReadOther \/ Type
  \/ (\E p \in Prompts : Ask(p))
  \/ (\E l \in Prompts \cup {Plain} : Output(l))
  \/ Handler \/ WriteDecision \/ CommandFails("decide")
  \/ ReceiveEvent \/ (\E item \in {Notice, Diff} : OtherItem(item))
  \/ (\E p \in Prompts : TapCard(p)) \/ TapInterrupt

FlowSpec == FlowInit /\ [][FlowNext]_flow

\* The daemon's handler and the phone's event loop run; the agent need not read,
\* so a decision may stay in its write.
FairFlowSpec == FlowSpec /\ WF_flow(Handler) /\ WF_flow(ReceiveEvent)

-----------------------------------------------------------------------------
(* Properties *)

\* When nothing is under way between the machine and the phone, a prompt the
\* agent waits on has its card, although stale cards are tapped, decisions fail
\* and resolutions of other cards arrive after it, unless as many newer items as
\* the inbox holds have pushed it out (docs/production-readiness.md:42:
\* "Permission cards appear for real approval prompts.").  The other two
\* conditions are needed too: a prompt that was on the screen before may be
\* suppressed or have its card resolved, and the resolution of an interrupt
\* without an id takes whatever card is newest when it arrives.
PromptHasCard ==
  /\ fresh /\ ~interrupted /\ screen # NoPrompt
  /\ events = <<>> /\ commands = <<>> /\ handling = <<>> /\ resolving = <<>>
  /\ input = <<>>
  => newer = InboxCap \/ \E i \in DOMAIN inbox : inbox[i] = screen

\* A decision taken on a card removes that card, stale or not, whatever other
\* items arrive meanwhile, or its failure is shown - unless the handler waits for
\* ever for the agent to read this line or an earlier one
\* (docs/production-readiness.md:43).
DecisionsResolveCards ==
  []<>~Handles("decide") =>
    \A p \in Prompts :
      (\E i \in DOMAIN commands : commands[i] = [action |-> "decide", id |-> p])
        ~> p \in failed \/ ~ \E i \in DOMAIN inbox : inbox[i] = p
=============================================================================
