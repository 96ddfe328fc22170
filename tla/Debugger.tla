------------------------------- MODULE Debugger -------------------------------
(***************************************************************************)
(* The GUI thread's side of a debugger session: GdbEngine (the channel to  *)
(* gdb), BreakHandler (the table of breakpoints) and DebuggerManager (the  *)
(* status), composed with gdb itself.                                      *)
(*                                                                         *)
(* The three classes call each other in the middle of their functions, so  *)
(* their state is one record, gui, and a function of the code is an        *)
(* operator from this record to the next one.  A command that it writes    *)
(* and a signal that it sends go to gui.out and gui.interrupt, which are   *)
(* empty between actions.                                                  *)
(***************************************************************************)
EXTENDS GdbProcess, SequencesExt, Integers

CONSTANTS
    External,       \* whether "Start External Application" is possible
    LocalsQueries,  \* synchronized queries for the local variables (2 in the code)
    StackQueries,   \* synchronized queries after a stop besides those (2)
    ViewQueries,    \* queries for the registers and the disassembler, if shown (0 to 2)
    OtherQueries,   \* queries without effect elsewhere (up to a dozen)
    FollowUps,      \* bound: synchronized queries for the incomplete items of the views
    Conditions,     \* the conditions the user may type, besides Empty
    IgnoreCounts,   \* and the ignore counts
    Careless,       \* the Risks that the user takes
    MaxToken        \* bound: no user action, stop or follow-up once so many were sent

(* What goes wrong in the code when the user does it at a bad moment.      *)
Risks == {"remove", "toggle", "dumpers"}

ASSUME QueriesAssumption ==
    /\ {LocalsQueries, StackQueries, ViewQueries, OtherQueries, FollowUps} \subseteq Nat
    /\ External \in BOOLEAN /\ Careless \subseteq Risks
    /\ Conditions \cup IgnoreCounts \subseteq Nat /\ MaxToken \in Nat

VARIABLE gui

vars == <<gui, gdb, toGdb, fromGdb>>

(* bpNumber of a breakpoint: empty, " " while it is asked for, a number of *)
(* gdb, or "<unavailable>".                                                *)
Unset == 0
Asked == -1
Unavailable == -2

(* What is known of bpFileName and bpMultiple: no file yet, several places *)
(* and no file yet, or a file.                                             *)
Places == {"unknown", "multiple", "known"}

(* A breakpoint of the table: what the user wants (this is what a session  *)
(* keeps), and what gdb answered.                                          *)
Row(wish) ==
    [loc |-> wish.loc, condition |-> wish.condition, ignoreCount |-> wish.ignoreCount,
     number |-> Unset, bpCondition |-> Empty, bpIgnoreCount |-> Empty, place |-> "unknown"]

Wish(row) ==
    [loc |-> row.loc, condition |-> row.condition, ignoreCount |-> row.ignoreCount]

(* DebuggerStatus; the three states that no code enters are left out.      *)
Status == {"notReady", "startingUp", "ready", "runningRequested",
           "running", "stopRequested", "stopped"}
Started == {"runningRequested", "running", "stopRequested", "stopped"}

Init ==
    /\ gui = [process   |-> "notRunning",  \* state of m_gdbProc, as GdbEngine knows it
              external  |-> FALSE,          \* q->m_attachedPID = -1
              status    |-> "notReady",
              token     |-> 0,              \* currentToken()
              barrier   |-> -1,             \* m_oldestAcceptableToken
              pending   |-> 0,              \* m_pendingRequests
              cookies   |-> <<>>,           \* m_cookieForToken
              retrieving |-> FALSE,         \* no "Finished retrieving data." since a query
              rows      |-> <<>>,           \* BreakHandler::m_bp
              removed   |-> <<>>,           \* bpNumbers of BreakHandler::m_removed
              stored    |-> <<>>,           \* "Breakpoints" of the session
              timer     |-> FALSE,          \* attemptBreakpointSynchronization is posted
              exiting   |-> FALSE,          \* inside waitForFinished of exitDebugger
              out       |-> <<>>,
              interrupt |-> FALSE,
              fault     |-> FALSE]          \* a null pointer was used: the end
    /\ gdb = DeadGdb
    /\ toGdb = <<>>
    /\ fromGdb = <<>>

-----------------------------------------------------------------------------
(* GdbEngine: sending.                                                     *)

SetStatus(g, status) == [g EXCEPT !.status = status]

(* kill() finds a child of gdb; it is never called for the pid -1 that     *)
(* "Start External Application" leaves in m_attachedPID.                   *)
InterruptInferior(g) ==
    IF g.process = "notRunning" \/ g.external \/ gdb.inferior = "none"
    THEN g
    ELSE [SetStatus(g, "stopped") EXCEPT !.interrupt = TRUE]

(* m_cookieForToken with one more entry for each of these tokens, all new. *)
Noted(cookies, tokens, type, cookie, synchronized) ==
    [t \in tokens \cup DOMAIN cookies |->
        IF t \in DOMAIN cookies THEN cookies[t]
        ELSE [type |-> type, cookie |-> cookie, synchronized |-> synchronized]]

Post(g, kind, arg, type, cookie, synchronized) ==
    LET token == g.token + 1
    IN IF g.process = "notRunning" THEN g
       ELSE [g EXCEPT
                !.token = token,
                !.pending = IF synchronized THEN @ + 1 ELSE @,
                !.cookies = Noted(@, {token}, type, cookie, synchronized),
                !.out = Append(@, [token |-> token, kind |-> kind, arg |-> arg])]

(* sendCommand with needStop: a running inferior is interrupted, and       *)
(* resumed with a command whose answer nobody looks at.                    *)
SendStopped(g, kind, arg, type, cookie) ==
    IF g.process # "notRunning" /\ g.status = "running"
    THEN Post(Post(InterruptInferior(g), kind, arg, type, cookie, FALSE),
              "continue", Nowhere, "invalid", 0, FALSE)
    ELSE Post(g, kind, arg, type, cookie, FALSE)

(* n commands of the kind "query", one after the other.                    *)
Queries(g, n, synchronized) ==
    IF g.process = "notRunning" \/ n = 0 THEN g
    ELSE [g EXCEPT
            !.token = @ + n,
            !.pending = IF synchronized THEN @ + n ELSE @,
            !.retrieving = @ \/ synchronized,
            !.cookies = Noted(@, g.token + 1..g.token + n, "view", 0, synchronized),
            !.out = @ \o [i \in 1..n |->
                             [token |-> g.token + i, kind |-> "query", arg |-> Nowhere]]]

SetTokenBarrier(g) == [g EXCEPT !.barrier = g.token]

ContinueInferior(g) ==
    Post(SetStatus(SetTokenBarrier(g), "runningRequested"),
         "continue", Nowhere, "exec", 0, FALSE)

RunInferior(g) ==
    Queries(Post(SetStatus(SetTokenBarrier(g), "runningRequested"),
                 "run", Nowhere, "exec", 0, FALSE), OtherQueries, FALSE)

StepExec(g) ==
    Post(SetStatus(SetTokenBarrier(g), "runningRequested"),
         "step", Nowhere, "exec", 0, FALSE)

(* -exec-until is sent without a type.                                     *)
RunToLineExec(g) ==
    Post(SetStatus(SetTokenBarrier(g), "runningRequested"),
         "step", Nowhere, "invalid", 0, FALSE)

UpdateLocals(g) ==
    Queries([SetTokenBarrier(g) EXCEPT !.pending = 0], LocalsQueries, TRUE)

(* updateWatchModel2: the items that are incomplete are asked for, and     *)
(* with none the model is rebuilt unless answers are pending.  (The count  *)
(* is raised by one meanwhile, and the nested call returns at once.)       *)
UpdateWatchModel2(g) ==
    {IF n > 0 THEN Queries(g, n, TRUE)
     ELSE [g EXCEPT !.retrieving = @ /\ g.pending > 0] :
        n \in IF g.token < MaxToken THEN 0..FollowUps ELSE {0}}

-----------------------------------------------------------------------------
(* BreakHandler and its synchronization with gdb.                          *)

IndexOf(g, loc) == SelectInSeq(g.rows, LAMBDA row : row.loc = loc)

SetNumber(g, i, number) == [g EXCEPT !.rows[i].number = number]

SaveBreakpoints(g) ==
    [g EXCEPT !.stored = [i \in DOMAIN g.rows |-> Wish(g.rows[i])]]

SetBreakpoint(g, loc) ==
    SaveBreakpoints([g EXCEPT !.rows =
        Append(@, Row([loc |-> loc, condition |-> Empty, ignoreCount |-> Empty]))])

(* Faulty variant of RemoveBreakpoint: gdb is not told of the removal.     *)
ForgetfulRemoveBreakpoint(g, i) ==
    SaveBreakpoints([g EXCEPT !.rows = RemoveAt(@, i)])

RemoveBreakpoint(g, i) ==
    SaveBreakpoints([g EXCEPT !.rows = RemoveAt(@, i),
                              !.removed = Append(@, g.rows[i].number)])

(* setAllPending: the breakpoints are loaded again from the session, which *)
(* has what the user asked for when they were last saved, and nothing of   *)
(* what gdb answered.                                                      *)
SetAllPending(g) == [g EXCEPT !.rows = [i \in DOMAIN g.stored |-> Row(g.stored[i])]]

(* Each of the removed ones, if gdb knows it, is deleted and forgotten.    *)
DeleteFirst(g) ==
    LET number == Head(g.removed)
        h == [g EXCEPT !.removed = Tail(@)]
    IN IF number \in {Unset, Asked} THEN h
       ELSE SendStopped(h, "delete", number, "other", 0)

DeleteRemoved(g) ==
    LET told[i \in 0..Len(g.removed)] == IF i = 0 THEN g ELSE DeleteFirst(told[i - 1])
    IN told[Len(g.removed)]

NotifyStartupFinished(g) == RunInferior(SetStatus(g, "ready"))

(* The first row that waits to be told where its several places are.       *)
FirstMultiple(g) == SelectInSeq(g.rows, LAMBDA row : row.place = "multiple")

AskInfo(g) ==
    LET i == FirstMultiple(g)
    IN IF i = 0 THEN g
       ELSE Post(g, "info", g.rows[i].number, "BreakInfo", g.rows[i].number, FALSE)

(* The first row that gdb was not asked to insert.                         *)
FirstUnset(g) == SelectInSeq(g.rows, LAMBDA row : row.number = Unset)

AskInsert(g) ==
    LET i == FirstUnset(g)
    IN IF i = 0 THEN g
       ELSE SendStopped(SetNumber(g, i, Asked), "insert", g.rows[i].loc, "BreakInsert", i)

(* The first row whose condition or ignore count gdb has not acknowledged; *)
(* the condition comes first.                                              *)
FirstDiffering(g) ==
    SelectInSeq(g.rows, LAMBDA row :
        /\ row.number > 0
        /\ row.condition # row.bpCondition \/ row.ignoreCount # row.bpIgnoreCount)

AskChange(g) ==
    LET i == FirstDiffering(g)
        row == g.rows[i]
    IN IF i = 0 THEN g
       ELSE IF row.condition # row.bpCondition
       THEN Post(g, "condition", [number |-> row.number, text |-> row.condition],
                 "BreakCondition", i, FALSE)
       ELSE Post(g, "ignore", [number |-> row.number, text |-> row.ignoreCount],
                 "BreakIgnore", i, FALSE)

(* Faulty variant of AttemptBreakpointSynchronization: the start goes on   *)
(* when a breakpoint was sent, not when there is none left to send.        *)
HastySynchronization(g) ==
    LET h == DeleteRemoved(g)
        asked == IF FirstMultiple(h) # 0 \/ FirstUnset(h) # 0 THEN AskInsert(AskInfo(h))
                 ELSE AskChange(h)
    IN IF asked.status = "startingUp" THEN NotifyStartupFinished(asked) ELSE asked

AttemptBreakpointSynchronization(g) ==
    LET h == DeleteRemoved(g)
    IN IF FirstMultiple(h) # 0 \/ FirstUnset(h) # 0 THEN AskInsert(AskInfo(h))
       ELSE IF FirstDiffering(h) # 0 THEN AskChange(h)
       ELSE IF h.status = "startingUp" THEN NotifyStartupFinished(h) ELSE h

(* breakpointDataFromOutput: what gdb says of a breakpoint.                *)
Told(row, b) ==
    [row EXCEPT !.number = b.number, !.bpCondition = b.condition,
                !.place = IF @ = "known" \/ b.loc \notin Multiple THEN "known"
                          ELSE "multiple"]

(* Faulty variant of TakeData: the answer is taken for the newest row.     *)
TakeDataForNewest(g, i, data) ==
    IF data # <<>> /\ g.rows # <<>> THEN [g EXCEPT !.rows[Len(g.rows)] = Told(@, data[1])]
    ELSE g

(* It goes to the row, if there are both.                                  *)
TakeData(g, i, data) ==
    IF data # <<>> /\ i \in DOMAIN g.rows THEN [g EXCEPT !.rows[i] = Told(@, data[1])]
    ELSE g

(* handleBreakList: the first row with this number, or at this location if *)
(* gdb tells a file, which it does not for several places.                 *)
FindBreakpoint(g, b) ==
    SelectInSeq(g.rows, LAMBDA row :
        row.number = b.number \/ (b.loc \notin Multiple /\ row.loc = b.loc))

TakeEntry(g, b) == TakeData(g, FindBreakpoint(g, b), <<b>>)

TakeTable(g, table) ==
    LET taken[i \in 0..Len(table)] == IF i = 0 THEN g ELSE TakeEntry(taken[i - 1], table[i])
    IN taken[Len(table)]

-----------------------------------------------------------------------------
(* DebuggerManager: leaving the debugger.                                  *)

(* exitDebugger after the engine has done its part: cleanupViews() and the *)
(* status.                                                                 *)
FinishExit(g) ==
    [SetAllPending(g) EXCEPT !.status = "notReady", !.exiting = FALSE]

(* The commands kill and -gdb-exit are one here; the function then waits   *)
(* for the end of gdb, and the event loop does not run.                    *)
ExitDebugger(g) ==
    IF g.process = "notRunning" THEN FinishExit(g)
    ELSE [Post(InterruptInferior(g), "exit", Nowhere, "invalid", 0, FALSE)
             EXCEPT !.exiting = TRUE]

-----------------------------------------------------------------------------
(* GdbEngine: the records of gdb.                                          *)

(* handleExecRun; an error tells that there are no bounds of the function, *)
(* which is taken for a stop, or anything else.                            *)
HandleExecRun(g, class) ==
    IF class = "running" THEN {SetStatus(g, "running")}
    ELSE {SetStatus(g, "stopped"), InterruptInferior(g)}

(* Faulty variant of HandleBreakInsert: the synchronization does not go on *)
(* after a success.                                                        *)
FinalBreakInsert(g, index, r) ==
    IF r.class = "done" THEN TakeData(g, index, r.data)
    ELSE IF index \in DOMAIN g.rows
         THEN Post(g, "break", g.rows[index].loc, "BreakInsert1", index, FALSE)
         ELSE [g EXCEPT !.fault = TRUE]

HandleBreakInsert(g, index, r) ==
    IF r.class = "done"
    THEN AttemptBreakpointSynchronization(TakeData(g, index, r.data))
    ELSE IF index \in DOMAIN g.rows
         THEN Post(g, "break", g.rows[index].loc, "BreakInsert1", index, FALSE)
         ELSE [g EXCEPT !.fault = TRUE]

HandleBreakInsert1(g, index, r) ==
    IF r.class = "done" \/ index \in DOMAIN g.rows
    THEN AttemptBreakpointSynchronization(
             IF r.class = "done" THEN TakeData(g, index, r.data)
             ELSE SetNumber(g, index, Unavailable))
    ELSE [g EXCEPT !.fault = TRUE]

(* Success is assumed, whatever gdb answered.                              *)
HandleBreakCondition(g, index) ==
    IF index \in DOMAIN g.rows
    THEN AttemptBreakpointSynchronization(
             [g EXCEPT !.rows[index].bpCondition = g.rows[index].condition])
    ELSE [g EXCEPT !.fault = TRUE]

HandleBreakIgnore(g, index, r) ==
    IF r.class = "done" /\ index \in DOMAIN g.rows
    THEN AttemptBreakpointSynchronization(
             [g EXCEPT !.rows[index].bpIgnoreCount = g.rows[index].ignoreCount])
    ELSE g

(* The row is found by its number; text that is not understood makes the   *)
(* breakpoint unavailable.                                                 *)
HandleBreakInfo(g, number, r) ==
    LET i == SelectInSeq(g.rows, LAMBDA row : row.number = number)
        named == [g EXCEPT !.rows[i].place = "known"]
    IN IF r.class # "done" \/ i = 0 THEN g
       ELSE AttemptBreakpointSynchronization(
                IF g.rows[i].loc \in Unreadable THEN SetNumber(named, i, Unavailable)
                ELSE named)

(* Faulty variant of HandleAsyncOutput2: the status is left as it was.     *)
SilentAsyncOutput2(g) ==
    Queries(Queries(UpdateLocals(g), StackQueries, TRUE), ViewQueries, FALSE)

HandleAsyncOutput2(g) ==
    Queries(Queries(UpdateLocals(SetStatus(g, "stopped")), StackQueries, TRUE),
            ViewQueries, FALSE)

HandleResult(g, command, r) ==
    CASE command.type = "exec"         -> HandleExecRun(g, r.class)
      [] command.type = "BreakInsert"  -> {HandleBreakInsert(g, command.cookie, r)}
      [] command.type = "BreakInsert1" -> {HandleBreakInsert1(g, command.cookie, r)}
      [] command.type = "BreakInfo"    -> {HandleBreakInfo(g, command.cookie, r)}
      [] command.type = "BreakCondition" -> {HandleBreakCondition(g, command.cookie)}
      [] command.type = "BreakIgnore"  -> {HandleBreakIgnore(g, command.cookie, r)}
      [] command.type = "BreakList"    ->
             {AttemptBreakpointSynchronization(TakeTable(g, r.data))}
      [] command.type = "AsyncOutput2" -> {HandleAsyncOutput2(g)}
      [] OTHER                         -> {g}   \* the views, or nothing

(* Faulty variant of TakeCookie: all that were sent before go as well.     *)
TakeAllCookies(g, token) ==
    [g EXCEPT !.cookies = [t \in {} |-> @[t]]]

TakeCookie(g, token) ==
    [g EXCEPT !.cookies = [t \in DOMAIN @ \ {token} |-> @[t]]]

(* A result that is too old is dropped, and not counted.  The last one of  *)
(* those that are counted updates the views.                               *)
HandleResultRecord(g, r) ==
    LET command == g.cookies[r.token]
        h == TakeCookie(g, r.token)
        counted(k) == [k EXCEPT !.pending = @ - 1]
    IN IF r.token < g.barrier THEN {h}
       ELSE UNION {IF ~command.synchronized THEN {k}
                   ELSE IF k.pending = 1 THEN UpdateWatchModel2(counted(k))
                   ELSE {counted(k)} : k \in HandleResult(h, command, r)}

(* handleAsyncOutput; after a breakpoint was hit the stop is reported once *)
(* the table of breakpoints has been read.                                 *)
HandleAsyncOutput(g, reason) ==
    CASE reason = "exited"         -> ExitDebugger(SetStatus(g, "ready"))
      [] reason = "breakpoint-hit" ->
             Post(Post(Queries(g, OtherQueries, FALSE), "list", Nowhere, "BreakList", 0, FALSE),
                  "query", Nowhere, "AsyncOutput2", 0, FALSE)
      [] OTHER                     -> HandleAsyncOutput2(g)

-----------------------------------------------------------------------------
(* What the event loop of the GUI thread may do next.  Every action takes  *)
(* the record, and passes on what the functions wrote and sent.            *)

Idle == ~gui.exiting /\ ~gui.fault

Becomes(g) ==
    /\ gui' = [g EXCEPT !.out = <<>>, !.interrupt = FALSE]
    /\ toGdb' = toGdb \o g.out
    /\ gdb' = [gdb EXCEPT !.sigint = @ \/ g.interrupt]

HandleResponse ==
    /\ Idle /\ fromGdb # <<>>
    /\ LET r == Head(fromGdb)
       IN \E g \in IF r.record = "stopped" THEN {HandleAsyncOutput(gui, r.class)}
                   ELSE HandleResultRecord(gui, r) : Becomes(g)
    /\ fromGdb' = Tail(fromGdb)

(* QTimer::singleShot(0, ...) of startDebugger.                            *)
TimerSynchronizes ==
    /\ Idle /\ gui.timer
    /\ Becomes(AttemptBreakpointSynchronization([gui EXCEPT !.timer = FALSE]))
    /\ UNCHANGED fromGdb

(* waitForFinished returns: gdb has ended, or 20 seconds have passed (then *)
(* gdb is left alone).  What gdb has printed is handled by the event loop  *)
(* later.                                                                  *)
ExitReturns ==
    /\ gui.exiting /\ ~gdb.alive
    /\ gui' = FinishExit([gui EXCEPT !.process = "notRunning"])
    /\ toGdb' = <<>>
    /\ UNCHANGED <<gdb, fromGdb>>

ExitTimesOut ==
    /\ gui.exiting /\ gdb.alive
    /\ gui' = FinishExit(gui)
    /\ UNCHANGED gdbVars

(* error() or finished() of m_gdbProc: "act as if it was closed by the     *)
(* core".                                                                  *)
GdbFinished ==
    /\ Idle /\ gui.process = "running" /\ ~gdb.alive
    /\ gui' = FinishExit([gui EXCEPT !.process = "notRunning"])
    /\ toGdb' = <<>>
    /\ UNCHANGED <<gdb, fromGdb>>

-----------------------------------------------------------------------------
(* The user.                                                               *)

User == Idle /\ gui.token < MaxToken

(* startNewDebugger: gdb gets its settings and the program, all rows are   *)
(* pending again, and the synchronization that finishes the start is       *)
(* posted.                                                                 *)
StartNewDebugger(external) ==
    /\ User /\ gui.status \in {"notReady", "ready"}
    /\ gui.process = "notRunning" /\ fromGdb = <<>>
    /\ LET g == Queries([gui EXCEPT !.process = "running", !.external = external],
                        OtherQueries, FALSE)
       IN gui' = [SetAllPending(g) EXCEPT !.timer = TRUE, !.status = "startingUp",
                                          !.out = <<>>]
          /\ toGdb' = g.out
    /\ gdb' = FreshGdb
    /\ UNCHANGED fromGdb

ContinueExec ==
    /\ User /\ gui.status = "stopped"
    /\ Becomes(ContinueInferior(gui))
    /\ UNCHANGED fromGdb

Step ==
    /\ User /\ gui.status \in {"stopped", "ready"}
    /\ Becomes(StepExec(gui))
    /\ UNCHANGED fromGdb

RunToLine ==
    /\ User /\ gui.status \in {"stopped", "ready"}
    /\ Becomes(RunToLineExec(gui))
    /\ UNCHANGED fromGdb

(* The button that interrupts, and otherwise ends the session.             *)
InterruptDebuggingRequest ==
    /\ Idle /\ gui.status \in Started
    /\ Becomes(IF gui.status = "running"
               THEN InterruptInferior(SetStatus(gui, "stopRequested"))
               ELSE ExitDebugger(gui))
    /\ UNCHANGED fromGdb

(* Commands of these kinds were sent and not yet answered to.              *)
UnderWay(kinds, types) ==
    \/ \E i \in DOMAIN toGdb : toGdb[i].kind \in kinds
    \/ \E i \in DOMAIN fromGdb :
          /\ fromGdb[i].record = "result"
          /\ gui.cookies[fromGdb[i].token].type \in types

SynchronizationUnderWay ==
    UnderWay({"insert", "break", "info", "condition", "ignore"},
             {"BreakInsert", "BreakInsert1", "BreakInfo", "BreakCondition", "BreakIgnore"})
ListUnderWay == UnderWay({"list"}, {"BreakList"})

(* What a user does who does not take the risk "remove": the answers that  *)
(* are to come find their rows by index, and a row whose insertion gdb has *)
(* still to answer, or whose answer was dropped, has no number that        *)
(* "-break-delete" could use.                                              *)
CarefulToRemove(i) ==
    "remove" \notin Careless =>
        /\ ~SynchronizationUnderWay
        /\ gui.process = "running" => gui.rows[i].number # Asked

(* And one who does not take the risk "toggle": synchronizations that       *)
(* cross each other may finish the start too early, and a row that is new  *)
(* while the table of gdb is being read gets what was there before.        *)
CarefulToToggle(i) ==
    "toggle" \notin Careless =>
        /\ ~gui.timer
        /\ ~(gui.status = "startingUp" /\ SynchronizationUnderWay)
        /\ i = 0 => ~ListUnderWay

ToggleBreakpoint(loc) ==
    /\ User
    /\ LET i == IndexOf(gui, loc)
       IN /\ CarefulToToggle(i)
          /\ \/ /\ i = 0
                /\ Becomes(AttemptBreakpointSynchronization(SetBreakpoint(gui, loc)))
             \/ /\ i # 0 /\ CarefulToRemove(i)
                /\ Becomes(AttemptBreakpointSynchronization(RemoveBreakpoint(gui, i)))
    /\ UNCHANGED fromGdb

(* The key "Delete" in the view of breakpoints, or a line that goes from   *)
(* an editor: gdb is not told yet.                                         *)
DeleteRow(i) ==
    /\ User /\ i \in DOMAIN gui.rows
    /\ CarefulToRemove(i)
    /\ Becomes(RemoveBreakpoint(gui, i))
    /\ UNCHANGED fromGdb

(* "Edit condition..." in the view of breakpoints: setData for the columns *)
(* 4 and 5.  Neither gdb nor the session is told.                          *)
EditCondition(i, condition, ignoreCount) ==
    /\ User
    /\ gui' = [gui EXCEPT !.rows[i].condition = condition,
                          !.rows[i].ignoreCount = ignoreCount]
    /\ UNCHANGED gdbVars

UserEdits ==
    \E i \in DOMAIN gui.rows, condition \in {Empty} \cup Conditions,
       ignoreCount \in {Empty} \cup IgnoreCounts : EditCondition(i, condition, ignoreCount)

(* The session is saved.                                                   *)
AboutToSaveSession ==
    /\ Idle
    /\ gui' = SaveBreakpoints(gui)
    /\ UNCHANGED gdbVars

(* "Use Custom Display for Qt Objects".                                    *)
SetCustomDumpersWanted ==
    /\ User
    /\ "dumpers" \notin Careless =>
          toGdb = <<>> /\ fromGdb = <<>> /\ gdb.inferior = "stopped"
    /\ Becomes(UpdateLocals(gui))
    /\ UNCHANGED fromGdb

(* Another frame of the stack is looked at.                                *)
ActivateFrame ==
    /\ User /\ gui.status = "stopped"
    /\ Becomes(UpdateLocals(Queries(gui, 1, FALSE)))
    /\ UNCHANGED fromGdb

(* An item of the views is expanded, or an expression is watched or no     *)
(* longer: the answers that were pending are not counted any more.         *)
UpdateWatchModel ==
    /\ User
    /\ \E g \in UpdateWatchModel2([gui EXCEPT !.pending = 0]) : Becomes(g)
    /\ UNCHANGED fromGdb

-----------------------------------------------------------------------------
DebuggerStep ==
    \/ HandleResponse \/ TimerSynchronizes
    \/ ExitReturns \/ ExitTimesOut \/ GdbFinished
    \/ \E external \in {FALSE, External} : StartNewDebugger(external)
    \/ ContinueExec \/ Step \/ RunToLine \/ InterruptDebuggingRequest
    \/ \E loc \in Locations : ToggleBreakpoint(loc)
    \/ \E i \in DOMAIN gui.rows : DeleteRow(i)
    \/ UserEdits \/ AboutToSaveSession
    \/ SetCustomDumpersWanted \/ ActivateFrame \/ UpdateWatchModel

GdbStep ==
    /\ \/ GdbReads
       \/ gui.token < MaxToken /\ InferiorStops
       \/ GdbCrashes
    /\ UNCHANGED gui

Next == DebuggerStep \/ GdbStep

Spec == Init /\ [][Next]_vars

(* gdb goes on reading, and the event loop runs: the next record is        *)
(* handled (no other step takes one), the timer fires, gdb's end is heard  *)
(* of, and the wait for it is over.                                        *)
Fairness ==
    /\ WF_vars(GdbReads /\ UNCHANGED gui)
    /\ WF_fromGdb(Idle /\ fromGdb # <<>> /\ fromGdb' = Tail(fromGdb))
    /\ WF_vars(TimerSynchronizes)
    /\ WF_vars(GdbFinished)
    /\ WF_vars(ExitReturns \/ ExitTimesOut)

FairSpec == Spec /\ Fairness

-----------------------------------------------------------------------------
(* The type of the variables.                                              *)
DebuggerTypeOK ==
    /\ gdb \in GdbType
    /\ gui.process \in {"notRunning", "running"}
    /\ gui.status \in Status
    /\ gui.token \in Nat /\ gui.barrier \in -1..gui.token /\ gui.pending \in Int
    /\ DOMAIN gui.cookies \subseteq 1..gui.token
    /\ \A i \in DOMAIN gui.rows : gui.rows[i].loc \in Locations
    /\ {gui.timer, gui.exiting, gui.external, gui.fault} \subseteq BOOLEAN
    /\ gui.out = <<>> /\ ~gui.interrupt
    /\ \A i \in DOMAIN toGdb : toGdb[i].token \in DOMAIN gui.cookies
    /\ \A i \in DOMAIN fromGdb :
           fromGdb[i].record = "result" => fromGdb[i].token \in DOMAIN gui.cookies

(* A gdb that was started, runs, and has not been told to end.             *)
Live ==
    /\ gui.process = "running" /\ gdb.alive /\ ~gui.exiting
    /\ \A i \in DOMAIN toGdb : toGdb[i].kind # "exit"

(* What the table of breakpoints says of a breakpoint of gdb is true: the  *)
(* row that has its number is at its location.  The answer to an insertion *)
(* finds its row by the index it had when the command was sent             *)
(* (handleBreakInsert), and -break-list by number or location.             *)
RowsRight ==
    /\ ~gui.fault
    /\ Live =>
           \A i \in DOMAIN gui.rows :
               gui.rows[i].number > 0 =>
                   \E b \in Range(gdb.table) :
                       b.number = gui.rows[i].number /\ b.loc = gui.rows[i].loc

(* The numbers of breakpoints that gdb is told, or will be told by the     *)
(* next synchronization, to delete.                                        *)
Deleted ==
    {toGdb[i].arg : i \in {j \in DOMAIN toGdb : toGdb[j].kind = "delete"}}
        \cup Range(gui.removed)

(* gdb has no breakpoint that the user cannot see and delete: each one is  *)
(* in the table, or is about to be deleted.                                *)
NoOrphans ==
    Live =>
        \A b \in Range(gdb.table) :
            \/ b.number \in Deleted
            \/ \E row \in Range(gui.rows) :
                  row.loc = b.loc /\ row.number \in {Asked, b.number}

(* When a living gdb is told to run, it has every breakpoint of the table *)
(* or will read of it before (attemptBreakpointSynchronization finishes    *)
(* the start only when no row is left to insert).                          *)
RunAfterInsert ==
    [][\A r \in DOMAIN toGdb' :
          gdb.alive /\ toGdb'[r].kind = "run" /\ toGdb'[r].token > gui.token =>
              \A i \in DOMAIN gui'.rows :
                  \/ gui'.rows[i].number = Unavailable
                  \/ \E b \in Range(gdb'.table) : b.loc = gui'.rows[i].loc
                  \/ \E c \in 1..r - 1 : /\ toGdb'[c].kind \in {"insert", "break"}
                                         /\ toGdb'[c].arg = gui'.rows[i].loc]_vars

(* The answers to synchronized queries that are still to come and will     *)
(* count: not too old.                                                     *)
Outstanding ==
    {toGdb[i].token : i \in DOMAIN toGdb}
        \cup {fromGdb[i].token : i \in {j \in DOMAIN fromGdb : fromGdb[j].record = "result"}}

(* While the last message of the views is "Finished retrieving data." (and *)
(* what they show was built then), nothing that they asked for is still to *)
(* come.                                                                   *)
FinishedRetrieving ==
    gui.retrieving
        \/ ~\E t \in Outstanding : gui.cookies[t].synchronized /\ t >= gui.barrier

(* A condition that the table says gdb has acknowledged, and that is the   *)
(* one the user wants, so that no synchronization will send it again, is   *)
(* what gdb has.                                                           *)
Settled ==
    Live /\ ~UnderWay({"condition"}, {"BreakCondition"}) =>
        \A row \in Range(gui.rows), b \in Range(gdb.table) :
            row.number = b.number /\ row.bpCondition = row.condition
                => b.condition = row.condition

(* Only the user changes a condition or an ignore count: leaving and       *)
(* starting the debugger keep them.                                        *)
EditsKept ==
    [][\/ UserEdits
       \/ \A old \in Range(gui.rows), new \in Range(gui'.rows) :
             old.loc = new.loc => Wish(old) = Wish(new)]_vars

(* With nothing under way, the status "running", which is what makes the   *)
(* button interrupt, is the truth.                                         *)
RunningIsRunning ==
    Live /\ toGdb = <<>> /\ fromGdb = <<>> /\ gui.status = "running"
        => gdb.inferior = "running"

(* A start comes to an end: the synchronization goes on until the inferior *)
(* is told to run, or the debugger is left.                                *)
StartupFinishes == gui.status = "startingUp" ~> gui.status # "startingUp"
=============================================================================
