--------------------------- MODULE PromptComposer ---------------------------
(***************************************************************************)
(* The composer (PromptBar with usePromptHistoryBrowse, useAttachments and *)
(* the slash commands): one text that typing, the history, the menu of     *)
(* commands, a sent message and a change of task all write.  What is sent  *)
(* goes to the task selected; the composer belongs to the task whose       *)
(* detail is loaded, which follows.                                        *)
(***************************************************************************)
EXTENDS WindowPlan, Selections, SequencesExt

CONSTANTS
    Composers,      \* the tasks
    Typed,          \* the texts the user may type
    Builtins, Skills, Advertised,   \* the commands of the registry, of the project, of the agent
    NeedsInput,     \* those with an input hint
    Rank,           \* per query and command: name starts with, name has, description has, or none
    MenuLimit       \* SLASH_MENU_LIMIT

ASSUME ComposerCommands ==
    LET names == ToSet(Builtins) \cup ToSet(Skills) \cup ToSet(Advertised)
    IN {Builtins, Skills, Advertised} \subseteq Seq(names) /\ MenuLimit \in Nat

VARIABLES
    picked,         \* the task selected
    task,           \* the task of the composer
    timelines,      \* per task: the user's texts in the timeline loaded
    text,           \* the composer: [cmd, rest, files]
    typed,          \* it was typed, and not put there by a key
    localSent,      \* the texts sent here, newest first
    highlighted,       \* the history entry highlighted, or 0
    menuOpen, menuIndex,
    agentCommands,  \* the commands the agent advertised, or none yet
    inspected,      \* the skills of the project are read
    items,          \* the files attached
    reading,        \* files pasted or dropped whose names or previews are awaited
    sent,           \* the messages under way: [to, text]
    controlBusy

historyVars == <<localSent, highlighted>>
menuVars == <<menuOpen, menuIndex>>
catalogVars == <<agentCommands, inspected>>
composerVars == <<picked, task, timelines, text, typed, historyVars, menuVars, catalogVars, items, reading, sent, controlBusy>>

Words(cmd, rest) == [cmd |-> cmd, rest |-> rest, files |-> {}]
Empty == Words("none", "none")

----------------------------------------------------------------------------
(* The slash commands.                                                     *)

\* parseSlashQuery: one line that starts with a slash.
IsSlash(t) == t.cmd # "none" /\ t.files = {}
HasArgs(t) == t.rest # "none"
Merge(first, second) == first \o Only(second, ToSet(second) \ ToSet(first))
Catalog == IF agentCommands # <<"none">> THEN Merge(agentCommands, Builtins)
           ELSE Merge(Builtins, IF inspected THEN Skills ELSE <<>>)
Limited(s) == SubSeq(s, 1, IF Len(s) < MenuLimit THEN Len(s) ELSE MenuLimit)
Ranked(q, r) == Only(Catalog, {c \in ToSet(Catalog) : Rank[q][c] = r})
Filter(q) == Limited(IF q = "" THEN Catalog ELSE Ranked(q, 0) \o Ranked(q, 1) \o Ranked(q, 2))
Commands == IF IsSlash(text) THEN Filter(text.cmd) ELSE <<>>
ShowMenu == highlighted = 0 /\ menuOpen /\ ~controlBusy /\ Commands # <<>>
Inserted(c) == Words(c, IF c \in NeedsInput THEN "" ELSE "none")
Complete(c) == text.cmd = c /\ (c \in NeedsInput \/ text.rest \in {"none", ""})
\* The effects on the query and on the number of matches.
MenuSettles(open) ==
    /\ menuOpen' = (open /\ IsSlash(text'))
    /\ menuIndex' = IF text'.cmd # text.cmd \/ Len(Commands') # Len(Commands) THEN 1 ELSE menuIndex

----------------------------------------------------------------------------
(* The history: oldest first, each text once.                              *)

NewestFirst == localSent \o Reverse(timelines[task])
Deduped(s) == FoldLeft(LAMBDA acc, t : IF Contains(acc, t) THEN acc ELSE Append(acc, t), <<>>, s)
History == Reverse(Deduped(NewestFirst))
\* The panel closes when its entry is gone.
PanelSettles == highlighted' = IF highlighted > Len(History') THEN 0 ELSE highlighted

Fill(t) == text' = t /\ typed' = FALSE /\ menuOpen' = FALSE /\ menuIndex' = 1
HistoryKey == ~controlBusy /\ Spend("keys") /\ UNCHANGED <<picked, task, timelines, localSent, catalogVars, items, reading, sent, controlBusy>>
SelectEntry(i) == highlighted' = i /\ Fill(History[i])
CancelBrowse == highlighted' = 0 /\ Fill(Empty)
OpensBrowse == highlighted = 0 /\ text = Empty
ArrowUp ==
    /\ HistoryKey
    /\ \/ OpensBrowse /\ History # <<>> /\ SelectEntry(Len(History))
       \/ highlighted # 0 /\ SelectEntry(IF highlighted = 1 THEN 1 ELSE highlighted - 1)
ArrowDown ==
    /\ HistoryKey /\ highlighted # 0
    /\ IF highlighted >= Len(History) THEN CancelBrowse ELSE SelectEntry(highlighted + 1)
EscapeBrowse == HistoryKey /\ highlighted # 0 /\ CancelBrowse
Hover(i) == HistoryKey /\ highlighted # 0 /\ i # highlighted /\ SelectEntry(i)
\* Enter or Tab, or a click on a row: never sent.
Accept(i) == HistoryKey /\ highlighted # 0 /\ highlighted' = 0 /\ Fill(History[i])

----------------------------------------------------------------------------
(* Typing and the menu.                                                    *)

DetachKept == highlighted      \* a plausible bug: typing in a recalled text leaves the panel open
Detach == 0
Types(t) ==
    /\ ~controlBusy /\ t # text /\ Spend("types")
    /\ text' = t /\ typed' = TRUE /\ highlighted' = Detach
    /\ UNCHANGED <<picked, task, timelines, localSent, catalogVars, items, reading, sent, controlBusy>>
    /\ MenuSettles(IsSlash(t) /\ ~HasArgs(t))
MenuKey == ShowMenu /\ Spend("keys") /\ UNCHANGED <<picked, task, timelines, localSent, catalogVars, items, reading, sent, controlBusy>>
MenuMoves(i) == MenuKey /\ i # menuIndex /\ menuIndex' = i /\ UNCHANGED <<text, typed, highlighted, menuOpen>>
MenuEscape == MenuKey /\ menuOpen' = FALSE /\ UNCHANGED <<text, typed, highlighted, menuIndex>>
\* A Tab or a click inserts; Enter does unless the text is the command already, or no name is begun.
Inserts(i) == MenuKey /\ i <= Len(Commands) /\ Fill(Inserted(Commands[i])) /\ highlighted' = 0
EnterInserts == ShowMenu /\ text.cmd # "" /\ ~HasArgs(text) /\ menuIndex <= Len(Commands) /\ ~Complete(Commands[menuIndex])

----------------------------------------------------------------------------
(* Sending.                                                                *)

\* composePrompt, applySessionModeToPrompt: the files at the end, /plan before.
Trimmed(t) == [t EXCEPT !.rest = IF @ = "" THEN "none" ELSE @]
Payload ==
    [cmd |-> IF left.planned = 1 /\ text.cmd = "none" THEN "plan" ELSE text.cmd,
     rest |-> Trimmed(text).rest, files |-> text.files \cup ToSet(items)]
RecordSent(t) == localSent' = <<t>> \o Only(localSent, ToSet(localSent) \ {t})
Send ==
    /\ ~controlBusy /\ (text # Empty \/ items # <<>>)
    /\ Spend("sends")
    /\ RecordSent(Payload) /\ sent' = Append(sent, [to |-> picked, text |-> Payload])
    /\ highlighted' = 0 /\ Fill(Empty) /\ items' = <<>> /\ controlBusy' = TRUE
    /\ UNCHANGED <<picked, task, timelines, catalogVars, reading>>
EnterSends == highlighted = 0 /\ ~EnterInserts /\ Send
ButtonSends == text # Empty /\ Send
SendEnds ==
    /\ controlBusy /\ controlBusy' = FALSE
    /\ UNCHANGED <<picked, task, timelines, text, typed, historyVars, menuVars, catalogVars, items, reading, sent, left>>
EchoArrives(i) ==
    /\ sent' = RemoveAt(sent, i) /\ timelines' = [timelines EXCEPT ![sent[i].to] = Append(@, sent[i].text)]
    /\ UNCHANGED <<picked, task, text, typed, localSent, menuVars, catalogVars, items, reading, controlBusy, left>>
    /\ PanelSettles
OlderPage(t) ==
    /\ Spend("pages")
    /\ timelines' = [timelines EXCEPT ![task] = <<t>> \o @]
    /\ UNCHANGED <<picked, task, text, typed, localSent, menuVars, catalogVars, items, reading, sent, controlBusy>>
    /\ PanelSettles
PickTask(t) ==
    /\ t # picked /\ Spend("selects") /\ picked' = t
    /\ UNCHANGED <<task, timelines, text, typed, historyVars, menuVars, catalogVars, items, reading, sent, controlBusy>>
\* The detail lands: the history and the text are of another session.
DetailLands ==
    /\ task # picked
    /\ task' = picked /\ highlighted' = 0 /\ localSent' = <<>> /\ Fill(Empty)
    /\ UNCHANGED <<picked, timelines, catalogVars, items, reading, sent, controlBusy, left>>

----------------------------------------------------------------------------
(* Files and the catalog.                                                  *)

\* A paste asks the host for the names; a drop reads the previews.
Attach(how, f) ==
    /\ ~controlBusy /\ Spend("files")
    /\ reading' = reading \cup {[how |-> how, file |-> f]}
    /\ UNCHANGED <<picked, task, timelines, text, typed, historyVars, menuVars, catalogVars, items, sent, controlBusy>>
\* A dropped file is attached once; a pasted one is not looked for.
FileRead(p) ==
    /\ p \in reading /\ reading' = reading \ {p}
    /\ items' = IF p.how = "drop" /\ Contains(items, p.file) THEN items ELSE Append(items, p.file)
    /\ UNCHANGED <<picked, task, timelines, text, typed, historyVars, menuVars, catalogVars, sent, controlBusy, left>>
RemoveChip(i) ==
    /\ Spend("keys")
    /\ items' = RemoveAt(items, i)
    /\ UNCHANGED <<picked, task, timelines, text, typed, historyVars, menuVars, catalogVars, reading, sent, controlBusy>>
CatalogChanges(commands, read) ==
    /\ Spend("adverts") /\ <<commands, read>> # catalogVars
    /\ agentCommands' = commands /\ inspected' = read
    /\ UNCHANGED <<picked, task, timelines, text, typed, historyVars, items, reading, sent, controlBusy>>
    /\ MenuSettles(menuOpen)

ComposerInit ==
    /\ picked = (CHOOSE t \in Composers : TRUE) /\ task = picked /\ timelines = [t \in Composers |-> <<>>]
    /\ text = Empty /\ typed = FALSE /\ localSent = <<>> /\ highlighted = 0 /\ menuOpen = FALSE /\ menuIndex = 1
    /\ agentCommands = <<"none">> /\ inspected = FALSE /\ items = <<>> /\ reading = {} /\ sent = <<>> /\ controlBusy = FALSE

HistoryKeys == ArrowUp \/ ArrowDown \/ EscapeBrowse \/ \E i \in 1 .. Len(History) : Hover(i) \/ Accept(i)
MenuKeys == MenuEscape \/ \E i \in 1 .. Len(Commands) : MenuMoves(i) \/ Inserts(i)
ComposerNext ==
    \/ HistoryKeys \/ MenuKeys
    \/ \E t \in Typed : Types(t) \/ OlderPage(t)
    \/ EnterSends \/ ButtonSends \/ SendEnds
    \/ \E i \in 1 .. Len(sent) : EchoArrives(i)
    \/ \E t \in Composers : PickTask(t)
    \/ DetailLands
    \/ \E f \in {"f1", "f2"} : Attach("paste", f) \/ Attach("drop", f)
    \/ \E p \in reading : FileRead(p)
    \/ \E i \in 1 .. Len(items) : RemoveChip(i)
    \/ CatalogChanges(Advertised, inspected) \/ CatalogChanges(agentCommands, TRUE)

----------------------------------------------------------------------------
\* PromptBar: what the user typed goes only by being sent, completed to a command,
\* or with its task; no key of the history and nothing that arrives replaces it.
TextKept ==
    typed /\ text # Empty /\ ~typed' =>
        \/ task' # task
        \/ Len(sent') > Len(sent) /\ text' = Empty
        \/ IsSlash(text) /\ \E c \in ToSet(Catalog) : text' = Inserted(c)
=============================================================================
