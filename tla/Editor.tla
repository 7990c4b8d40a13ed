------------------------------- MODULE Editor -------------------------------
(***************************************************************************)
(* The companion's editor (src/grc/gui): the pages of the notebook, the    *)
(* files and generated scripts on the disk, and the processes that run the *)
(* scripts.  Handlers of user actions run on the gtk main loop; an Action   *)
(* called from a handler runs its own handler at once, so what is left of   *)
(* the calls is the stack `calls`, one step per entry.  While calls is      *)
(* empty, or its head is a dialog, the main loop turns: only then can the  *)
(* end of a process be noticed.  A dialog is modal, so the user can only    *)
(* answer it.                                                              *)
(*                                                                         *)
(* A flow graph is a value of Graphs; what import_data makes of a recorded *)
(* one, given the flow graph it is imported into, is the constant Imported *)
(* (GrcGraph.tla models import_data itself).                               *)
(***************************************************************************)
EXTENDS StateCache

CONSTANTS
  Pages, NoPage,        \* NotebookPage objects
  Files, NoFile,        \* paths of .grc files; '' is NoFile
  ReadOnly,             \* those that are there and cannot be written
  BlankGraph,           \* the default flow graph of a blank page
  Valid,                \* those that pass validation
  Imported,             \* Imported[g][n]: what import_data(n) makes of g
  Scripts, ScriptOf,    \* generated files; the one a flow graph's id names
  Damaged,              \* a file whose writing failed half way, or no file
  Pids, NoProc,         \* subprocesses; a page without one
  MaxActs               \* bound: how many actions the user starts

ASSUME PagesAssumption == NoPage \notin Pages /\ Pages # {}
ASSUME NoFileAssumption == NoFile \notin Files /\ ReadOnly \subseteq Files
ASSUME NoProcAssumption == NoProc \notin Pids /\ MaxActs \in Nat
ASSUME GraphAssumption ==
  /\ BlankGraph \in Graphs /\ Valid \subseteq Graphs /\ Damaged \notin Graphs
  /\ Imported \in [Graphs -> [Graphs -> Graphs]]
  /\ ScriptOf \in [Graphs -> Scripts]

VARIABLES
  open, current,              \* the notebook's pages, MainWindow.current_page
  file, saved, graph, cache,  \* of each page: its path, flag, flow graph, undo list
  proc,                       \* of each page: its process
  closing, left,              \* page_to_be_closed; the pages a quit still has to close
  calls,                      \* the calls the main thread is in, innermost first
  disk, script,               \* what the .grc files and the scripts hold
  procs,                      \* the processes and the threads that wait for them
  button,                     \* what the gen/exec, kill, save, undo and redo buttons show
  acts,                       \* how many actions the user has started
  astray,                     \* history: pages whose flag may be wrong (SavedIsOnDisk),
  unrecorded,                 \* pages changed without a new recorded state,
  discarded                   \* pages whose changes the user gave up

notebook == <<open, current>>
documents == <<file, saved, graph, cache>>
processes == <<proc, procs>>
toClose == <<closing, left>>
written == <<disk, script>>
history == <<astray, unrecorded, discarded>>
vars == <<notebook, documents, processes, toClose, calls, written, button, history, acts>>

-----------------------------------------------------------------------------
(* Calls.  An Action's handler ends with the updates common to all actions. *)

OnlyCalls == UNCHANGED <<notebook, documents, processes, toClose, written, button, history>>

Invoke(a) == <<a, "GLOBALS">>
Top == IF calls = << >> THEN "main loop" ELSE Head(calls)
At(c) == Top = c
Then(c) == calls' = c \o Tail(calls)

Dialogs == {"OPEN", "SAVE_AS", "ask", "props"}
Idle == At("main loop")
InLoop == Top \in {"main loop"} \cup Dialogs
Quitting == \E i \in DOMAIN calls : calls[i] = "QUIT_END"

HasFile(p) == file[p] # NoFile

\* update_exec_stop() for a page with this flow graph and this process
CanExec(g, pr) == g \in Valid /\ pr = NoProc
ExecStop(b, g, pr) == [b EXCEPT !.exec = CanExec(g, pr), !.kill = pr # NoProc]

\* StateCache.update_actions()
UndoRedo(b, c) == [b EXCEPT !.undo = CanUndo(c), !.redo = CanRedo(c)]

\* the end of _handle_action
Globals ==
  /\ At("GLOBALS")
  /\ button' = [button EXCEPT !.exec = CanExec(graph[current], proc[current]),
                              !.kill = proc[current] # NoProc, !.save = ~saved[current]]
  /\ Then(<< >>)
  /\ UNCHANGED <<notebook, documents, processes, toClose, written, history>>

-----------------------------------------------------------------------------
(* The user starts an action: a menu entry, a button of the tool bar or of a *)
(* tab, or a key, which calls the action whatever its button shows.          *)

\* a page object nothing refers to: neither the notebook nor a thread.  Pages
\* bounds how many there are: an action that may need one waits for one
Unused == {p \in Pages \ open : \A k \in Pids : procs[k].page # p}

UserActions == {"UNDO", "REDO", "NEW", "OPEN", "CLOSE", "SAVE", "SAVE_AS", "GEN",
                "EXEC", "KILL", "QUIT", "PARAM_MODIFY", "CREATE_HIER"}

\* what the main thread may have left to do: handlers, what is left of them, dialogs
Frames == UserActions \cup Dialogs \cup
  {"GLOBALS", "write", "popen", "stop", "still", "remove", "each", "QUIT_END", "exit"}

Activate(a) ==
  /\ Idle
  /\ a \in {"NEW", "OPEN", "CLOSE", "CREATE_HIER"} => Unused # {}
  /\ calls' = Invoke(a)
  /\ OnlyCalls

\* a click on the close button of a tab
ClickClose(p) ==
  /\ Idle /\ p \in open /\ Unused # {}
  /\ closing' = p
  /\ calls' = Invoke("CLOSE")
  /\ UNCHANGED <<notebook, documents, processes, written, history, left, button>>

\* a click on a tab: _handle_page_change
SwitchPage(p) ==
  /\ Idle /\ p \in open \ {current}
  /\ current' = p
  /\ calls' = <<"GLOBALS">>
  /\ UNCHANGED <<documents, processes, toClose, written, history, open, button>>

-----------------------------------------------------------------------------
(* Edits.  An edit that succeeds has one shape: the flow graph changes and   *)
(* is updated, a new state is recorded and the page counts as unsaved.  One  *)
(* that raises, which a paste does when a port its connections name is not   *)
(* there, has changed the flow graph and leaves the rest of its handler out. *)

Change(g, c) ==
  /\ graph' = [graph EXCEPT ![current] = g]
  /\ cache' = [cache EXCEPT ![current] = c]
  /\ saved' = [saved EXCEPT ![current] = FALSE]
  /\ button' = UndoRedo(button, c)
  /\ unrecorded' = unrecorded \ {current}
  /\ UNCHANGED file

Edit(g) ==
  /\ Idle
  /\ Change(g, SaveNewState(cache[current], g))
  /\ calls' = <<"GLOBALS">>
  /\ UNCHANGED <<notebook, processes, toClose, written, astray, discarded>>

\* BLOCK_PASTE with a connection whose port get_source or get_sink does not find: the
\* blocks stay, and pygtk prints the exception; nothing is recorded, the flag stays,
\* and the updates at the end of the handler are left out
PasteRaises(g) ==
  /\ Idle
  /\ graph' = [graph EXCEPT ![current] = g]
  /\ astray' = astray \cup {current}
  /\ unrecorded' = unrecorded \cup {current}
  /\ UNCHANGED <<notebook, processes, toClose, written, file, saved, cache, discarded,
                 calls, button>>

UndoOr(can, moved) ==
  /\ IF can
     THEN Change(Imported[graph[current]][CurrentState(moved)], moved)
     ELSE UNCHANGED <<documents, button, unrecorded>>
  /\ Then(<< >>)
  /\ UNCHANGED <<notebook, processes, toClose, written, astray, discarded>>

UndoAction ==
  At("UNDO") /\ UndoOr(CanUndo(cache[current]), ToPrevState(cache[current]))

RedoAction ==
  At("REDO") /\ UndoOr(CanRedo(cache[current]), ToNextState(cache[current]))

\* BLOCK_PARAM_MODIFY with a block selected opens its properties ...
ParamModify ==
  /\ At("PARAM_MODIFY")
  /\ Then(<<"props">>)
  /\ OnlyCalls

\* ... which change the block as the user types ...
PropsChange(g) ==
  /\ At("props")
  /\ graph' = [graph EXCEPT ![current] = g]
  /\ UNCHANGED <<notebook, processes, toClose, written, history, file, saved, cache, calls, button>>

\* ... until the user accepts, and the change is an edit, ...
PropsAccept ==
  /\ At("props")
  /\ Change(graph[current], SaveNewState(cache[current], graph[current]))
  /\ Then(<< >>)
  /\ UNCHANGED <<notebook, processes, toClose, written, astray, discarded>>

\* ... or not, and the state recorded last is imported again
PropsCancel ==
  /\ At("props")
  /\ LET n == CurrentState(cache[current])
     IN  graph' = [graph EXCEPT ![current] = Imported[graph[current]][n]]
  /\ button' = UndoRedo(button, cache[current])
  /\ unrecorded' = unrecorded \ {current}
  /\ astray' = astray \cup (unrecorded \cap {current})
  /\ Then(<< >>)
  /\ UNCHANGED <<notebook, processes, toClose, written, file, saved, cache, discarded>>

-----------------------------------------------------------------------------
(* Pages.                                                                    *)

\* NotebookPage(file): the parsed file n is the first state of the undo list and
\* is imported into an empty flow graph
MakePage(p, f, n) ==
  /\ file' = [file EXCEPT ![p] = f]
  /\ saved' = [saved EXCEPT ![p] = TRUE]
  /\ cache' = [cache EXCEPT ![p] = NewCache(n)]
  /\ graph' = [graph EXCEPT ![p] = Imported[BlankGraph][n]]
  /\ proc' = [proc EXCEPT ![p] = NoProc]
  /\ button' = UndoRedo(button, NewCache(n))

NewPage ==
  /\ At("NEW")
  /\ \E p \in Unused :
       /\ MakePage(p, NoFile, BlankGraph)
       /\ open' = open \cup {p} /\ current' = p
  /\ Then(<<"GLOBALS">>)
  /\ UNCHANGED <<toClose, written, history, procs>>

OpenCancel ==
  /\ At("OPEN")
  /\ Then(<< >>)
  /\ OnlyCalls

\* new_page(f, show): a file that is open is shown, a file that does not parse is
\* reported, any other file gets a page (bound: the user chooses one file)
OpenFile(f) ==
  /\ At("OPEN")
  /\ IF \E p \in open : file[p] = f
     THEN /\ current' \in {p \in open : file[p] = f}
          /\ UNCHANGED <<documents, open, proc, button>>
     ELSE IF disk[f] = Damaged
     THEN UNCHANGED <<notebook, documents, proc, button>>
     ELSE \E p \in Unused :
            /\ MakePage(p, f, disk[f])
            /\ open' = open \cup {p} /\ current' = p
  /\ Then(<<"GLOBALS">>)
  /\ UNCHANGED <<toClose, written, history, procs>>

\* BLOCK_CREATE_HIER calls BLOCK_COPY, makes a new page and calls BLOCK_PASTE, which
\* records a state unless it raises, and adds pads and parameters, each of which
\* records one (bound: one of all these is recorded, the last).  Connections, options
\* and the new id come after it.  When a port is not there this handler raises too,
\* and the buttons are those of the last action it called.
CreateHier(recorded, last, g) ==
  LET blank == NewCache(BlankGraph)
      c == IF recorded THEN SaveNewState(blank, last) ELSE blank
  IN
  /\ At("CREATE_HIER")
  /\ \E p \in Unused :
       /\ file' = [file EXCEPT ![p] = NoFile]
       /\ saved' = [saved EXCEPT ![p] = ~recorded]
       /\ cache' = [cache EXCEPT ![p] = c]
       /\ graph' = [graph EXCEPT ![p] = g]
       /\ proc' = [proc EXCEPT ![p] = NoProc]
       /\ open' = open \cup {p} /\ current' = p
       /\ unrecorded' = unrecorded \cup {p}
  /\ \/ button' = UndoRedo(button, c) /\ Then(<< >>)
     \/ /\ \E e \in BOOLEAN :
             button' = [UndoRedo(button, c) EXCEPT !.exec = e, !.kill = FALSE,
                                                   !.save = recorded]
        /\ calls' = << >>
  /\ UNCHANGED <<toClose, written, procs, astray, discarded>>

-----------------------------------------------------------------------------
(* Saving.                                                                   *)

\* FLOW_GRAPH_SAVE with a path that is read-only or missing asks for another
SaveElsewhere ==
  /\ At("SAVE")
  /\ file[current] \in ReadOnly \cup {NoFile}
  /\ Then(Invoke("SAVE_AS"))
  /\ OnlyCalls

\* Mutant: the flag is set whether the file was written or not.
SaveAnyway(ok) ==
  LET f == file[current] IN
  /\ At("SAVE") /\ f \in Files \ ReadOnly
  /\ saved' = [saved EXCEPT ![current] = TRUE]
  /\ IF ok
     THEN disk' = [disk EXCEPT ![f] = graph[current]]
     ELSE disk' \in {disk, [disk EXCEPT ![f] = Damaged]}
  /\ astray' = (IF ok THEN astray \ {current} ELSE astray)
                    \cup {p \in open \ {current} : file[p] = f /\ disk' # disk}
  /\ Then(<< >>)
  /\ UNCHANGED <<notebook, processes, toClose, file, graph, cache, script, button, unrecorded, discarded>>

SaveToFile(ok) ==
  LET f == file[current] IN
  /\ At("SAVE") /\ f \in Files \ ReadOnly
  /\ saved' = [saved EXCEPT ![current] = ok]
  /\ IF ok
     THEN disk' = [disk EXCEPT ![f] = graph[current]]
     ELSE disk' \in {disk, [disk EXCEPT ![f] = Damaged]}   \* IOError
  /\ astray' = (IF ok THEN astray \ {current} ELSE astray)
                    \cup {p \in open \ {current} : file[p] = f /\ disk' # disk}
  /\ Then(<< >>)
  /\ UNCHANGED <<notebook, processes, toClose, file, graph, cache, script, button, unrecorded, discarded>>

SaveAsCancel ==
  /\ At("SAVE_AS")
  /\ Then(<< >>)
  /\ OnlyCalls

SaveAsFile(f) ==
  /\ At("SAVE_AS")
  /\ file' = [file EXCEPT ![current] = f]
  /\ astray' = astray \cup {current}
  /\ Then(Invoke("SAVE"))
  /\ UNCHANGED <<notebook, processes, toClose, written, saved, graph, cache, button, unrecorded,
                 discarded>>

-----------------------------------------------------------------------------
(* Generating and executing.                                                 *)

Gen ==
  /\ At("GEN")
  /\ IF proc[current] # NoProc THEN Then(<< >>)
     ELSE IF saved[current] /\ HasFile(current) THEN Then(<<"write">>)
     ELSE Then(Invoke("SAVE") \o <<"write">>)
  /\ OnlyCalls

\* generator.write(): the script is truncated before its text is made, and an
\* exception is reported and forgotten.  Nothing is written when the page was
\* not saved.
WriteScript(ok) ==
  LET s == ScriptOf[graph[current]] IN
  /\ At("write")
  /\ saved[current] /\ HasFile(current)
  /\ IF ok
     THEN script' = [script EXCEPT ![s] = graph[current]]
     ELSE script' \in {script, [script EXCEPT ![s] = Damaged]}
  /\ Then(<< >>)
  /\ UNCHANGED <<notebook, documents, processes, toClose, history, disk, button>>

NotSaved ==
  /\ Top \in {"write", "popen"}
  /\ ~saved[current] \/ ~HasFile(current)
  /\ Then(<< >>)
  /\ OnlyCalls

Exec ==
  /\ At("EXEC")
  /\ IF proc[current] # NoProc THEN Then(<< >>)
                               ELSE Then(Invoke("GEN") \o <<"popen">>)
  /\ OnlyCalls

NoThread == [page |-> NoPage, state |-> "none", killed |-> FALSE]

\* ExecFlowGraphThread.__init__: the process starts, the page gets it and a
\* thread waits for its output to end; or Popen raises and nothing starts
Popen ==
  /\ At("popen")
  /\ saved[current] /\ HasFile(current)
  /\ \/ \E k \in Pids :
          /\ procs[k] = NoThread
          /\ procs' = [procs EXCEPT ![k] =
                         [page |-> current, state |-> "running", killed |-> FALSE]]
          /\ proc' = [proc EXCEPT ![current] = k]
          /\ button' = ExecStop(button, graph[current], k)
     \/ UNCHANGED <<procs, proc, button>>
  /\ Then(<< >>)
  /\ UNCHANGED <<notebook, documents, toClose, written, history>>

Kill ==
  /\ At("KILL")
  /\ procs' = IF proc[current] = NoProc THEN procs
              ELSE [procs EXCEPT ![proc[current]].killed = TRUE]
  /\ Then(<< >>)
  /\ UNCHANGED <<notebook, documents, toClose, written, history, proc, button>>

\* the process ends, by itself or because it was killed
ProcessEnds(k) ==
  /\ procs[k].state = "running"
  /\ procs' = [procs EXCEPT ![k].state = "ended"]
  /\ UNCHANGED <<notebook, documents, toClose, written, history, proc, calls, button>>

\* its thread reads the end of the output and queues done() for the main loop
ThreadEnds(k) ==
  /\ procs[k].state = "ended"
  /\ procs' = [procs EXCEPT ![k].state = "reported"]
  /\ UNCHANGED <<notebook, documents, toClose, written, history, proc, calls, button>>

\* Mutant: done() looks only at the page that is shown.
DoneIfShown(k) ==
  /\ InLoop
  /\ procs[k].state = "reported" /\ procs[k].page = current
  /\ proc' = [proc EXCEPT ![current] = NoProc]
  /\ procs' = [procs EXCEPT ![k] = NoThread]
  /\ button' = ExecStop(button, graph[current], NoProc)
  /\ UNCHANGED <<notebook, documents, toClose, written, history, calls>>

\* ExecFlowGraphThread.done(), run by the main loop
Done(k) ==
  /\ InLoop
  /\ procs[k].state = "reported"
  /\ proc' = [proc EXCEPT ![procs[k].page] = NoProc]
  /\ procs' = [procs EXCEPT ![k] = NoThread]
  /\ button' = ExecStop(button, graph[current], proc'[current])
  /\ UNCHANGED <<notebook, documents, toClose, written, history, calls>>

-----------------------------------------------------------------------------
(* Closing a page and quitting.                                              *)

ToClose == IF closing = NoPage THEN current ELSE closing

\* close_page(): the page is shown if it is unsaved or executes, and the user is
\* asked about unsaved changes
Close ==
  /\ At("CLOSE")
  /\ closing' = ToClose
  /\ current' = IF saved[ToClose] /\ proc[ToClose] = NoProc THEN current ELSE ToClose
  /\ Then((IF current' = current THEN << >> ELSE <<"GLOBALS">>)
            \o (IF saved[ToClose] THEN <<"stop">> ELSE <<"ask">>))
  /\ UNCHANGED <<documents, processes, written, history, open, left, button>>

AnswerSave ==
  /\ At("ask")
  /\ Then(Invoke("SAVE") \o <<"still">>)
  /\ OnlyCalls

AnswerDiscard ==
  /\ At("ask")
  /\ discarded' = discarded \cup {closing}
  /\ Then(<<"stop">>)
  /\ UNCHANGED <<notebook, documents, processes, toClose, written, button, astray, unrecorded>>

\* Mutant: the page goes whether saving succeeded or not.
StillUnsavedGoes ==
  /\ At("still")
  /\ Then(<<"stop">>) /\ UNCHANGED closing
  /\ UNCHANGED <<notebook, documents, processes, written, history, left, button>>

\* still unsaved after the attempt to save: the page stays
StillUnsaved ==
  /\ At("still")
  /\ IF saved[closing]
     THEN Then(<<"stop">>) /\ UNCHANGED closing
     ELSE Then(<< >>) /\ closing' = NoPage
  /\ UNCHANGED <<notebook, documents, processes, written, history, left, button>>

\* Mutant: a page is removed without a look at its process.
StopNothing ==
  /\ At("stop")
  /\ Then(<<"remove">>)
  /\ OnlyCalls

StopIt ==
  /\ At("stop")
  /\ Then(IF proc[closing] = NoProc THEN <<"remove">> ELSE Invoke("KILL") \o <<"remove">>)
  /\ OnlyCalls

\* pages as a blank one starts; also how a page that is gone is kept
BlankPages(S) ==
  /\ file'  = [p \in Pages |-> IF p \in S THEN NoFile ELSE file[p]]
  /\ saved' = [p \in Pages |-> p \in S \/ saved[p]]
  /\ cache' = [p \in Pages |-> IF p \in S THEN NewCache(BlankGraph) ELSE cache[p]]
  /\ graph' = [p \in Pages |-> IF p \in S THEN Imported[BlankGraph][BlankGraph] ELSE graph[p]]

\* the page leaves the notebook, which shows another page; when there is none, and
\* this is not a quit, a blank one is made.  Its process stays until its thread ends.
Remove ==
  LET rest == open \ {closing} IN
  /\ At("remove")
  /\ closing' = NoPage
  /\ \/ /\ rest = {} /\ ~Quitting
        /\ \E p \in Unused :
             /\ open' = {p} /\ current' = p
             /\ BlankPages({closing, p})
             /\ proc' = [proc EXCEPT ![p] = NoProc]
        /\ button' = UndoRedo(button, NewCache(BlankGraph))
        /\ Then(<<"GLOBALS">>)
     \/ /\ rest # {} \/ Quitting
        /\ open' = rest
        /\ current' \in IF current # closing \/ rest = {} THEN {current} ELSE rest
        /\ BlankPages({closing})
        /\ UNCHANGED <<proc, button>>
        /\ Then(IF current' = current THEN << >> ELSE <<"GLOBALS">>)
  /\ astray' = astray \ {closing}
  /\ unrecorded' = unrecorded \ {closing}
  /\ discarded' = discarded \ {closing}
  /\ UNCHANGED <<written, procs, left>>

\* close_pages(): every page that was open is closed or asked about
QuitBegin ==
  /\ At("QUIT")
  /\ left' = open
  /\ Then(<<"each", "QUIT_END">>)
  /\ UNCHANGED <<notebook, documents, processes, written, history, closing, button>>

QuitEach ==
  /\ At("each")
  /\ IF left = {} THEN Then(<< >>) /\ UNCHANGED <<toClose>>
     ELSE \E p \in left :
            /\ closing' = p /\ left' = left \ {p}
            /\ calls' = <<"CLOSE">> \o calls
  /\ UNCHANGED <<notebook, documents, processes, written, history, button>>

Gone == At("exit")

QuitEnd ==
  /\ At("QUIT_END")
  /\ IF open = {} THEN calls' = <<"exit">> ELSE Then(<< >>)
  /\ OnlyCalls

-----------------------------------------------------------------------------
(* The whole.                                                                *)

Init ==
  /\ current = CHOOSE p \in Pages : TRUE   \* any one
  /\ open = {current}
  /\ file = [p \in Pages |-> NoFile]
  /\ saved = [p \in Pages |-> TRUE]
  /\ graph = [p \in Pages |-> Imported[BlankGraph][BlankGraph]]
  /\ cache = [p \in Pages |-> NewCache(BlankGraph)]
  /\ proc = [p \in Pages |-> NoProc]
  /\ procs = [k \in Pids |-> NoThread]
  /\ closing = NoPage /\ left = {}
  /\ calls = <<"GLOBALS">>
  /\ disk \in [Files -> Graphs \cup {Damaged}]
  /\ script = [s \in Scripts |-> Damaged]
  /\ button = [exec |-> FALSE, kill |-> FALSE, save |-> FALSE,
               undo |-> FALSE, redo |-> FALSE]
  /\ astray = {} /\ unrecorded = {} /\ discarded = {}
  /\ acts = 0

UserStarts ==
  /\ acts < MaxActs
  /\ acts' = acts + 1
  /\ \/ \E a \in UserActions : Activate(a)
     \/ \E p \in Pages : ClickClose(p) \/ SwitchPage(p)
     \/ \E g \in Graphs : Edit(g) \/ PasteRaises(g)

UserAnswers ==
  \/ \E g \in Graphs : PropsChange(g)
  \/ PropsAccept \/ PropsCancel
  \/ OpenCancel \/ SaveAsCancel \/ AnswerSave \/ AnswerDiscard
  \/ \E f \in Files : OpenFile(f) \/ SaveAsFile(f)

MainThread ==
  \/ Globals \/ UndoAction \/ RedoAction \/ ParamModify \/ NewPage
  \/ \E recorded \in BOOLEAN, last, g \in Graphs : CreateHier(recorded, last, g)
  \/ SaveElsewhere \/ \E ok \in BOOLEAN : SaveToFile(ok)
  \/ Gen \/ \E ok \in BOOLEAN : WriteScript(ok)
  \/ NotSaved \/ Exec \/ Popen \/ Kill
  \/ Close \/ StillUnsaved \/ StopIt \/ Remove
  \/ QuitBegin \/ QuitEach \/ QuitEnd

Others == \E k \in Pids : ProcessEnds(k) \/ ThreadEnds(k) \/ Done(k)

Stopped == (Idle /\ acts = MaxActs) \/ Gone

Next ==
  \/ UserStarts
  \/ (UserAnswers \/ MainThread \/ Others) /\ UNCHANGED acts
  \/ Stopped /\ UNCHANGED vars

\* A handler runs to its end; a process that was killed ends, its thread sees the
\* end of its output, and the main loop runs what is queued whenever it turns, in a
\* dialog too: the user may be quick, but is not quicker every time.
Fairness ==
  /\ WF_vars(MainThread /\ UNCHANGED acts)
  /\ \A k \in Pids : /\ WF_vars(procs[k].killed /\ ProcessEnds(k) /\ UNCHANGED acts)
                     /\ WF_vars(ThreadEnds(k) /\ UNCHANGED acts)
                     /\ SF_vars(Done(k) /\ UNCHANGED acts)

Spec == Init /\ [][Next]_vars /\ Fairness

-----------------------------------------------------------------------------
(* Properties.                                                               *)

ButtonType == [exec : BOOLEAN, kill : BOOLEAN, save : BOOLEAN,
               undo : BOOLEAN, redo : BOOLEAN]

ThreadType == [page : Pages \cup {NoPage}, killed : BOOLEAN,
               state : {"none", "running", "ended", "reported"}]

TypeOK ==
  /\ open \subseteq Pages /\ current \in Pages
  /\ file \in [Pages -> Files \cup {NoFile}]
  /\ saved \in [Pages -> BOOLEAN]
  /\ graph \in [Pages -> Graphs]
  /\ cache \in [Pages -> CacheType]
  /\ proc \in [Pages -> Pids \cup {NoProc}]
  /\ procs \in [Pids -> ThreadType]
  /\ closing \in Pages \cup {NoPage} /\ left \subseteq Pages
  /\ calls \in Seq(Frames)
  /\ disk \in [Files -> Graphs \cup {Damaged}]
  /\ script \in [Scripts -> Graphs \cup {Damaged}]
  /\ button \in ButtonType
  /\ astray \cup unrecorded \subseteq Pages /\ discarded \subseteq Pages \cup {NoPage}
  /\ acts \in 0..MaxActs

\* what may be shown of a recorded flow graph
Shown(n) == {n} \cup {Imported[g][n] : g \in Graphs}

\* A page that counts as saved and its file show the same flow graph.
\* FLOW_GRAPH_SAVE sets the flag, every edit clears it; between them come dialogs,
\* failed writes, undo and closing.  The exceptions are a page whose file another
\* page wrote, one whose new path could not be written and was then left in the
\* dialog, one on which a cancelled dialog took back what was never recorded, and one
\* on which a paste raised; each until it is saved.
SavedIsOnDisk ==
  Idle => \A p \in open \ astray :
            saved[p] /\ HasFile(p) =>
              \E n \in Graphs : {graph[p], disk[file[p]]} \subseteq Shown(n)

\* What the undo list calls the current state is what the page shows, so that a
\* cancelled dialog or the next undo starts from there.  The exceptions, until they are
\* edited, are a page that Create Hier made and one on which a paste raised.
CurrentIsRecorded ==
  \A p \in open \ unrecorded :
    graph[p] \in Shown(CurrentState(cache[p])) \/ (p = current /\ At("props"))

\* Both: a page agrees with its file and with its undo list.
PagesAgree == SavedIsOnDisk /\ CurrentIsRecorded

\* Every process that runs belongs to a page that knows it, so that the kill button
\* and closing reach it; one whose page is gone has been killed.
ProcessesAreReachable ==
  \A k \in Pids :
    /\ procs[k].state # "none" => proc[procs[k].page] = k
    /\ procs[k].state # "none" /\ procs[k].page \notin open => procs[k].killed

\* When no handler runs, the gen/exec, kill and save buttons tell of the current page,
\* although processes of any page end at any time.  Of a page left by a handler that
\* raised the gen/exec button may not: its flow graph changed and no update followed.
ButtonsFollow ==
  Idle => /\ \/ button.exec = CanExec(graph[current], proc[current])
             \/ current \in unrecorded
          /\ button.kill = (proc[current] # NoProc)
          /\ button.save = ~saved[current]

\* Both: a process can be stopped from the page that shows it.
ProcessesCanBeStopped == ProcessesAreReachable /\ ButtonsFollow

\* The undo list of every page in the notebook is a history: whatever the editor
\* does, it records a state, undoes or redoes one, or leaves the list alone, and the
\* array of the list forgets no more than the oldest state.
History(p) == INSTANCE UndoHistory WITH
  past <- Past(cache[p]), present <- CurrentState(cache[p]), future <- Future(cache[p]),
  State <- Graphs, Depth <- STATE_CACHE_SIZE - 1

CachesAreHistories ==
  [][\A p \in open \cap open' : History(p)!Next \/ UNCHANGED cache[p]]_vars

\* A page with unsaved work leaves the notebook only by the user's answer: not when
\* saving failed or its dialog was cancelled, and not because the application quits.
\* Unsaved is what the flag says: work left by a paste that raised is not flagged.
AskedBeforeLost ==
  [][\A p \in open \ open' : saved[p] \/ p \in discarded]_vars

\* A process that was killed, by the button or by closing its page, is noticed: its
\* thread ends and the page is free to execute again.
KilledIsNoticed ==
  \A k \in Pids : procs[k].killed ~> (procs[k] = NoThread \/ Gone)
=============================================================================
