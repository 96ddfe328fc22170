---------------------------- MODULE DebuggerProofs ----------------------------
(***************************************************************************)
(* For any breakpoints, conditions and numbers of queries and any user:    *)
(* the channel between the GUI thread and gdb is in order                  *)
(* (DebuggerTypeCorrect), and the status "running" is true when nothing is *)
(* on its way (RunningTruly).                                              *)
(*                                                                         *)
(* The invariant is a relation of four things: gdb (m), the records on     *)
(* their way from it (from), the GUI thread's record (g) and the commands  *)
(* on their way to it (q).                                                 *)
(*                                                                         *)
(* Base: all four have their types, tokens rise from the answers to the    *)
(* commands, and each has its cookie (Channel).                            *)
(*                                                                         *)
(* Rest: the status is "running" only if the inferior runs, or a stop is   *)
(* still to be handled: as a record, or with the answer to the command     *)
(* that handleAsyncOutput sends for it (RunningInv).  An answer "running"  *)
(* is on its way only while the inferior runs or with a stop behind it     *)
(* (ResumedInv).  Rest needs a user who does not take the risk "dumpers":  *)
(* SetCustomDumpersWanted in the middle of a run raises the barrier above  *)
(* the answers by which a stop is known.                                   *)
(*                                                                         *)
(* Most of the code only sends commands and does not make the status       *)
(* "running".  Such a step is Quiet, and QuietStep shows once that it      *)
(* keeps the invariant.                                                    *)
(***************************************************************************)
EXTENDS Debugger, InductionLemmas

(* The types of what the records of the GUI thread, of gdb and of the two  *)
(* pipes hold.                                                             *)
Types == {"view", "other", "invalid", "exec", "BreakInsert", "BreakInsert1", "BreakInfo",
          "BreakCondition", "BreakIgnore", "BreakList", "AsyncOutput2"}
Classes == {"done", "error", "running", "exit", "breakpoint-hit", "exited",
            "signal-received"}
Cookie == [type : Types, cookie : Int, synchronized : BOOLEAN]
Cookies == UNION {[S -> Cookie] : S \in SUBSET Nat}
WishRow == [loc : Locations, condition : Nat, ignoreCount : Nat]
TableRow == [loc : Locations, condition : Nat, ignoreCount : Nat, number : Int,
             bpCondition : Nat, bpIgnoreCount : Nat, place : Places]
Entry == [number : Nat, loc : Locations, condition : Nat]
Change == [number : Int, text : Nat]
Args == {Nowhere} \cup Locations \cup Int \cup Change
Takes(kind, arg) ==
    /\ kind \in {"insert", "break"} => arg \in Locations
    /\ kind \in {"condition", "ignore"} => arg \in Change
Command == {c \in [token : Nat, kind : Kinds, arg : Args] : Takes(c.kind, c.arg)}
Record == [record : {"result", "stopped"}, token : Nat, class : Classes, data : Seq(Entry)]

GuiRecord ==
    [process : {"notRunning", "running"}, external : BOOLEAN, status : Status,
     token : Nat, barrier : Int, pending : Int, cookies : Cookies, retrieving : BOOLEAN,
     rows : Seq(TableRow), removed : Seq(Int), stored : Seq(WishRow),
     timer : BOOLEAN, exiting : BOOLEAN, out : Seq(Command), interrupt : BOOLEAN,
     fault : BOOLEAN]
Gui == {g \in GuiRecord :
            DOMAIN g.cookies \subseteq 1..g.token /\ g.barrier \in -1..g.token}

Fields(g) ==
    /\ g.process \in {"notRunning", "running"} /\ g.status \in Status
    /\ g.token \in Nat /\ g.barrier \in Int /\ g.pending \in Int /\ g.cookies \in Cookies
    /\ g.rows \in Seq(TableRow) /\ g.removed \in Seq(Int) /\ g.stored \in Seq(WishRow)
    /\ g.out \in Seq(Command) /\ g.retrieving \in BOOLEAN
    /\ g.external \in BOOLEAN /\ g.timer \in BOOLEAN /\ g.exiting \in BOOLEAN
    /\ g.interrupt \in BOOLEAN /\ g.fault \in BOOLEAN
    /\ DOMAIN g.cookies \subseteq 1..g.token /\ g.barrier \in -1..g.token

(* What the fields of the record are. *)
LEMMA GuiFields == ASSUME NEW g \in Gui PROVE g \in GuiRecord /\ Fields(g)
  BY DEF Gui, GuiRecord, Fields

(* The two conditions that relate the fields. *)
LEMMA GuiFrom ==
    ASSUME NEW g \in GuiRecord, DOMAIN g.cookies \subseteq 1..g.token,
           g.barrier \in -1..g.token
    PROVE  g \in Gui
  BY DEF Gui

(* m_cookieForToken is a function from the tokens that it has. *)
LEMMA CookiesFun ==
    ASSUME NEW f
    PROVE  f \in Cookies <=> \E S \in SUBSET Nat : f \in [S -> Cookie]
  BY DEF Cookies

(* Its entries. *)
LEMMA CookieOf ==
    ASSUME NEW g \in Gui, NEW t \in DOMAIN g.cookies
    PROVE  g.cookies[t] \in Cookie /\ t \in Nat
<1>1. g.cookies \in Cookies
  BY GuiFields DEF Fields
<1>2. PICK S \in SUBSET Nat : g.cookies \in [S -> Cookie]
  BY <1>1, CookiesFun
<1> QED
  BY <1>2

(* The numbers in the record. *)
LEMMA GuiNumbers ==
    ASSUME NEW g \in Gui
    PROVE  /\ g.token \in Nat /\ g.barrier \in Int /\ g.pending \in Int
           /\ Len(g.out) \in Nat /\ DOMAIN g.out = 1..Len(g.out)
           /\ DOMAIN g.cookies \subseteq 1..g.token /\ g.barrier <= g.token
<1>1. g.token \in Nat /\ g.barrier \in Int /\ g.pending \in Int /\ g.barrier \in -1..g.token
      /\ DOMAIN g.cookies \subseteq 1..g.token
  BY GuiFields DEF Fields
<1>2. g.out \in Seq(Command)
  BY GuiFields DEF Fields
<1>3. Len(g.out) \in Nat /\ DOMAIN g.out = 1..Len(g.out)
  BY <1>2
<1>4. g.barrier <= g.token
  BY <1>1
<1> QED
  BY <1>1, <1>3, <1>4

(* A row of the table. *)
LEMMA RowIs ==
    ASSUME NEW g \in Gui, NEW i \in DOMAIN g.rows
    PROVE  /\ g.rows[i] \in TableRow /\ i \in Nat
           /\ g.rows[i].loc \in Locations /\ g.rows[i].number \in Int
           /\ g.rows[i].condition \in Nat /\ g.rows[i].ignoreCount \in Nat
           /\ g.rows[i].place \in Places
<1>1. g.rows \in Seq(TableRow)
  BY GuiFields DEF Fields
<1>2. g.rows[i] \in TableRow /\ i \in Nat
  BY <1>1
<1> QED
  BY <1>2 DEF TableRow

-----------------------------------------------------------------------------
(* From g the engine came to h, and all it did to the channel was to send. *)
Sends(g, h) ==
    /\ h \in Gui
    /\ h.process = g.process
    /\ h.token >= g.token
    /\ Len(h.out) = Len(g.out) + (h.token - g.token)
    /\ \A i \in DOMAIN g.out : h.out[i] = g.out[i]
    /\ \A i \in DOMAIN h.out : i > Len(g.out) => h.out[i].token = g.token + (i - Len(g.out))
    /\ DOMAIN h.cookies = DOMAIN g.cookies \cup g.token + 1..h.token
    /\ \A t \in DOMAIN g.cookies : h.cookies[t] = g.cookies[t]

SameChannel(g, h) ==
    /\ h.process = g.process
    /\ h.token = g.token /\ h.out = g.out /\ h.cookies = g.cookies

(* Nor did the status become "running", or the barrier rise while it is.   *)
Quiet(g, h) ==
    /\ Sends(g, h)
    /\ h.barrier >= g.barrier
    /\ h.status = "running" => g.status = "running" /\ h.barrier = g.barrier

(* Sending nothing is sending. *)
LEMMA SendsNothing ==
    ASSUME NEW g \in Gui, NEW h \in Gui, SameChannel(g, h)
    PROVE  Sends(g, h)
<1>1. g.token \in Nat /\ Len(g.out) \in Nat /\ DOMAIN g.out = 1..Len(g.out)
  BY GuiNumbers
<1> QED
  BY <1>1 DEF Sends, SameChannel

(* Sending twice is sending. *)
LEMMA SendsThenSends ==
    ASSUME NEW g \in Gui, NEW h, NEW k, Sends(g, h), Sends(h, k)
    PROVE  Sends(g, k)
<1>0. h \in Gui /\ k \in Gui
  BY DEF Sends
<1>1. /\ g.token \in Nat /\ h.token \in Nat /\ k.token \in Nat
      /\ Len(g.out) \in Nat /\ DOMAIN g.out = 1..Len(g.out)
      /\ Len(h.out) \in Nat /\ DOMAIN h.out = 1..Len(h.out)
      /\ Len(k.out) \in Nat /\ DOMAIN k.out = 1..Len(k.out)
  BY <1>0, GuiNumbers
<1>2. /\ k.process = g.process
      /\ h.token >= g.token /\ k.token >= h.token
      /\ Len(h.out) = Len(g.out) + (h.token - g.token)
      /\ Len(k.out) = Len(h.out) + (k.token - h.token)
  BY DEF Sends
<1>3. k.token >= g.token /\ Len(k.out) = Len(g.out) + (k.token - g.token)
  BY <1>1, <1>2
<1>4. Len(h.out) >= Len(g.out) /\ Len(k.out) >= Len(h.out)
  BY <1>1, <1>2
<1>5. /\ \A i \in DOMAIN g.out : i \in DOMAIN h.out
      /\ \A i \in DOMAIN h.out : i \in DOMAIN k.out
      /\ \A i \in DOMAIN k.out : i > Len(h.out) \/ i \in DOMAIN h.out
  BY <1>1, <1>4
<1>6. \A i \in DOMAIN g.out : k.out[i] = g.out[i]
  BY <1>5 DEF Sends
<1>7. DOMAIN k.cookies = DOMAIN g.cookies \cup g.token + 1..k.token
  <2>1. g.token + 1..k.token = (g.token + 1..h.token) \cup h.token + 1..k.token
    BY <1>1, <1>2
  <2> QED
    BY <2>1 DEF Sends
<1>8. \A t \in DOMAIN g.cookies : k.cookies[t] = g.cookies[t]
  BY DEF Sends
<1>9. ASSUME NEW i \in DOMAIN k.out, i > Len(g.out)
      PROVE  k.out[i].token = g.token + (i - Len(g.out))
  <2>1. CASE i > Len(h.out)
    <3>1. k.out[i].token = h.token + (i - Len(h.out))
      BY <2>1 DEF Sends
    <3>2. i \in Nat /\ Len(h.out) = Len(g.out) + (h.token - g.token)
      BY <1>1, <1>2
    <3> QED
      BY <1>1, <3>1, <3>2
  <2>2. CASE i \in DOMAIN h.out
    BY <1>9, <2>2 DEF Sends
  <2> QED
    BY <1>5, <2>1, <2>2
<1> QED
  BY <1>0, <1>2, <1>3, <1>6, <1>7, <1>8, <1>9 DEF Sends

(* Two quiet steps are a quiet one. *)
LEMMA QuietThenQuiet ==
    ASSUME NEW g \in Gui, NEW h, NEW k, Quiet(g, h), Quiet(h, k)
    PROVE  Quiet(g, k)
<1>1. Sends(g, h) /\ Sends(h, k) /\ Sends(g, k) /\ h \in Gui /\ k \in Gui
  BY SendsThenSends DEF Quiet, Sends
<1>2. g.barrier \in Int /\ h.barrier \in Int /\ k.barrier \in Int
  BY <1>1, GuiNumbers
<1> QED
  BY <1>1, <1>2 DEF Quiet

(* What is quiet stays in Gui. *)
LEMMA QuietGui == ASSUME NEW g, NEW h, Quiet(g, h) PROVE h \in Gui
  BY DEF Quiet, Sends

(* Changes of other fields than those of the channel. *)
LEMMA QuietChange ==
    ASSUME NEW g \in Gui, NEW h \in GuiRecord, SameChannel(g, h),
           h.barrier \in g.barrier..g.token,
           h.status = "running" => g.status = "running" /\ h.barrier = g.barrier
    PROVE  Quiet(g, h)
<1>1. Fields(g) /\ g.token \in Nat
  BY GuiFields DEF Fields
<1>2. DOMAIN h.cookies \subseteq 1..h.token /\ h.barrier \in -1..h.token /\ h.barrier >= g.barrier
  BY <1>1 DEF SameChannel, Fields
<1>3. h \in Gui
  BY <1>2, GuiFrom
<1> QED
  BY <1>2, <1>3, SendsNothing DEF Quiet

(* In most cases the barrier and the status are left alone as well.        *)
LEMMA QuietFields ==
    ASSUME NEW g \in Gui, NEW h \in GuiRecord, SameChannel(g, h),
           h.barrier = g.barrier, h.status = "running" => g.status = "running"
    PROVE  Quiet(g, h)
<1>1. h.barrier \in g.barrier..g.token
  BY GuiNumbers
<1> QED
  BY <1>1, QuietChange

(* To do nothing is quiet. *)
LEMMA QuietRefl == ASSUME NEW g \in Gui PROVE Quiet(g, g)
<1>1. g \in GuiRecord /\ SameChannel(g, g)
  BY GuiFields DEF SameChannel
<1> QED
  BY <1>1, QuietFields

-----------------------------------------------------------------------------
(* Sending.  setStatus, to anything but "running".                         *)
LEMMA StatusSet ==
    ASSUME NEW g \in Gui, NEW status \in Status
    PROVE  LET h == SetStatus(g, status)
           IN  /\ Sends(g, h) /\ h \in GuiRecord /\ SameChannel(g, h)
               /\ h.status = status /\ h.barrier = g.barrier
               /\ h.rows = g.rows /\ h.removed = g.removed /\ h.exiting = g.exiting
               /\ status # "running" => Quiet(g, h)
<1> DEFINE h == SetStatus(g, status)
<1>1. g \in GuiRecord /\ DOMAIN g.cookies \subseteq 1..g.token /\ g.barrier \in -1..g.token
  BY DEF Gui
<1>2. h \in GuiRecord
  BY <1>1 DEF GuiRecord, SetStatus
<1>3. /\ h.status = status /\ SameChannel(g, h) /\ h.barrier = g.barrier
      /\ h.rows = g.rows /\ h.removed = g.removed /\ h.exiting = g.exiting
  BY <1>1 DEF GuiRecord, SameChannel, SetStatus
<1> HIDE DEF h
<1>4. h \in Gui
  BY <1>1, <1>2, <1>3, GuiFrom DEF SameChannel
<1>5. status # "running" => Quiet(g, h)
  BY <1>2, <1>3, QuietFields
<1> QED
  BY <1>2, <1>3, <1>4, <1>5, SendsNothing DEF h

(* interruptInferior sends no command, and at most makes the status        *)
(* "stopped".                                                              *)
LEMMA Interrupted ==
    ASSUME NEW g \in Gui
    PROVE  LET h == InterruptInferior(g)
           IN  /\ Quiet(g, h) /\ h.rows = g.rows /\ h.removed = g.removed
               /\ h.status \in {g.status, "stopped"} /\ h.exiting = g.exiting
<1> DEFINE s == SetStatus(g, "stopped")
           h == [s EXCEPT !.interrupt = TRUE]
<1>1. /\ Quiet(g, s) /\ s \in GuiRecord /\ s.status = "stopped"
      /\ s.rows = g.rows /\ s.removed = g.removed /\ s.exiting = g.exiting
  BY StatusSet DEF Status
<1>2. InterruptInferior(g) \in {g, h}
  BY DEF InterruptInferior
<1> HIDE DEF s
<1>3. /\ h \in GuiRecord /\ SameChannel(s, h) /\ h.barrier = s.barrier
      /\ h.status = s.status
      /\ h.rows = s.rows /\ h.removed = s.removed /\ h.exiting = s.exiting
  BY <1>1 DEF GuiRecord, SameChannel
<1> HIDE DEF h
<1>4. Quiet(s, h) /\ s \in Gui
  BY <1>1, <1>3, QuietFields, QuietGui
<1>5. Quiet(g, h) /\ Quiet(g, g)
  BY <1>1, <1>4, QuietRefl, QuietThenQuiet
<1>6. CASE InterruptInferior(g) = h
  BY <1>1, <1>3, <1>5, <1>6
<1>7. CASE InterruptInferior(g) = g
  BY <1>5, <1>7
<1> QED
  BY <1>2, <1>6, <1>7

(* m_cookieForToken with an entry for each token from g.token + 1 on. *)
Notes(g, c, token, entry) ==
    c = [t \in (g.token + 1..token) \cup DOMAIN g.cookies |->
            IF t \in DOMAIN g.cookies THEN g.cookies[t] ELSE entry]

(* The cookies that were noted, and those that were there before. *)
LEMMA NotedIs ==
    ASSUME NEW g \in Gui, NEW token \in Nat, token >= g.token, NEW entry \in Cookie,
           NEW c, Notes(g, c, token, entry)
    PROVE  /\ c \in Cookies
           /\ DOMAIN c = DOMAIN g.cookies \cup g.token + 1..token
           /\ \A t \in DOMAIN g.cookies : c[t] = g.cookies[t]
           /\ \A t \in g.token + 1..token : c[t] = entry
           /\ DOMAIN c \subseteq 1..token /\ g.barrier \in -1..token
<1> DEFINE tokens == g.token + 1..token
<1>1. Fields(g) /\ g.token \in Nat
  BY GuiFields DEF Fields
<1>2. tokens \subseteq 1..token /\ 1..g.token \subseteq 1..token /\ tokens \cap 1..g.token = {}
  BY <1>1
<1>3. tokens \cap DOMAIN g.cookies = {} /\ tokens \in SUBSET Nat
  BY <1>1, <1>2 DEF Fields
<1>4. PICK S \in SUBSET Nat : g.cookies \in [S -> Cookie]
  BY <1>1, CookiesFun DEF Fields
<1>5. -1..g.token \subseteq -1..token
  BY <1>1
<1>6. c = [t \in tokens \cup DOMAIN g.cookies |->
             IF t \in DOMAIN g.cookies THEN g.cookies[t] ELSE entry]
  BY DEF Notes
<1> HIDE DEF tokens
<1>7. c \in [S \cup tokens -> Cookie] /\ S \cup tokens \in SUBSET Nat
  BY <1>3, <1>4, <1>6
<1>8. c \in Cookies
  BY <1>7, CookiesFun
<1>9. /\ DOMAIN c = DOMAIN g.cookies \cup tokens
      /\ \A t \in DOMAIN g.cookies : c[t] = g.cookies[t]
      /\ \A t \in tokens : c[t] = entry
  BY <1>3, <1>6
<1>10. DOMAIN c \subseteq 1..token /\ g.barrier \in -1..token
  BY <1>1, <1>2, <1>5, <1>9 DEF Fields
<1> QED
  BY <1>8, <1>9, <1>10 DEF tokens

(* What Post and Queries do to the record, when gdb runs: n commands more. *)
Adds(g, h, n, new, entry) ==
    \E pending \in Int, retrieving \in BOOLEAN : \E token, c, out :
        /\ token = g.token + n /\ Notes(g, c, token, entry) /\ out = g.out \o new
        /\ h = [g EXCEPT !.token = token, !.pending = pending, !.retrieving = retrieving,
                         !.cookies = c, !.out = out]

SendsAs(g, h, n, type, new) ==
    /\ Sends(g, h) /\ h.status = g.status /\ h.barrier = g.barrier
    /\ h.token = g.token + n /\ h.out = g.out \o new
    /\ \A t \in g.token + 1..h.token : h.cookies[t].type = type
    /\ h.interrupt = g.interrupt /\ h.rows = g.rows /\ h.removed = g.removed

(* A record with n tokens, cookies and commands more has sent them. *)
LEMMA SendsMore ==
    ASSUME NEW g \in Gui, NEW n \in Nat, NEW entry \in Cookie,
           NEW new \in Seq(Command), Len(new) = n,
           \A i \in 1..n : new[i].token = g.token + i,
           NEW h, Adds(g, h, n, new, entry)
    PROVE  SendsAs(g, h, n, entry.type, new)
<1>0. PICK pending \in Int, retrieving \in BOOLEAN : \E token, c, out :
        /\ token = g.token + n /\ Notes(g, c, token, entry) /\ out = g.out \o new
        /\ h = [g EXCEPT !.token = token, !.pending = pending, !.retrieving = retrieving,
                         !.cookies = c, !.out = out]
  BY DEF Adds
<1>12. PICK token, c, out :
        /\ token = g.token + n /\ Notes(g, c, token, entry) /\ out = g.out \o new
        /\ h = [g EXCEPT !.token = token, !.pending = pending, !.retrieving = retrieving,
                         !.cookies = c, !.out = out]
  BY <1>0
<1>1. /\ g \in GuiRecord /\ g.token \in Nat /\ g.out \in Seq(Command)
      /\ Len(g.out) \in Nat /\ DOMAIN g.out = 1..Len(g.out)
  BY GuiFields, GuiNumbers DEF Fields
<1>2. token \in Nat /\ token >= g.token /\ token - g.token = n
  BY <1>12, <1>1
<1>3. /\ c \in Cookies
      /\ DOMAIN c = DOMAIN g.cookies \cup g.token + 1..token
      /\ \A t \in DOMAIN g.cookies : c[t] = g.cookies[t]
      /\ \A t \in g.token + 1..token : c[t] = entry
      /\ DOMAIN c \subseteq 1..token /\ g.barrier \in -1..token
  <2>1. Notes(g, c, token, entry)
    BY <1>12
  <2> QED
    BY <1>2, <2>1, NotedIs
<1>4. out \in Seq(Command) /\ Len(out) = Len(g.out) + n /\ DOMAIN out = 1..Len(g.out) + n
  <2>1. out \in Seq(Command) /\ Len(out) = Len(g.out) + n
    BY <1>12, <1>1, ConcatProperties
  <2> QED
    BY <2>1
<1>5. \A i \in 1..Len(g.out) + n :
          out[i] = IF i <= Len(g.out) THEN g.out[i] ELSE new[i - Len(g.out)]
  BY <1>12, <1>1, ConcatProperties
<1>6. h \in GuiRecord
  BY <1>12, <1>1, <1>2, <1>3, <1>4 DEF GuiRecord
<1>7. /\ h.token = token /\ h.cookies = c /\ h.out = out /\ h.status = g.status
      /\ h.barrier = g.barrier /\ h.process = g.process /\ h.interrupt = g.interrupt
      /\ h.rows = g.rows /\ h.removed = g.removed
  BY <1>12, <1>1 DEF GuiRecord
<1>8. h \in Gui
  BY <1>3, <1>6, <1>7, GuiFrom
<1>9. ASSUME NEW i \in DOMAIN out, i > Len(g.out)
      PROVE  out[i].token = g.token + (i - Len(g.out))
  <2>1. PICK j : j = i - Len(g.out)
    OBVIOUS
  <2>2. i \in 1..Len(g.out) + n /\ j \in 1..n
    BY <1>1, <1>4, <1>9, <2>1
  <2>3. out[i] = new[j] /\ new[j].token = g.token + j
    BY <1>1, <1>5, <1>9, <2>1, <2>2
  <2> QED
    BY <2>1, <2>3
<1>10. \A i \in DOMAIN g.out : out[i] = g.out[i]
  BY <1>1, <1>5
<1>11. Sends(g, h)
  BY <1>2, <1>3, <1>4, <1>7, <1>8, <1>9, <1>10 DEF Sends
<1> QED
  BY <1>12, <1>3, <1>7, <1>11 DEF SendsAs

(* So it has done nothing else. *)
LEMMA SendsAsQuiet ==
    ASSUME NEW g \in Gui, NEW h, NEW n, NEW type, NEW new, SendsAs(g, h, n, type, new)
    PROVE  Quiet(g, h)
<1>1. g.barrier >= g.barrier
  BY GuiNumbers
<1> QED
  BY <1>1 DEF SendsAs, Quiet

(* Post. *)
LEMMA Posted ==
    ASSUME NEW g \in Gui, NEW kind \in Kinds, NEW arg \in Args, Takes(kind, arg),
           NEW type \in Types, NEW cookie \in Int, NEW sync \in BOOLEAN
    PROVE  LET h == Post(g, kind, arg, type, cookie, sync)
           IN  /\ Quiet(g, h) /\ h.status = g.status /\ h.barrier = g.barrier
               /\ h.interrupt = g.interrupt /\ h.rows = g.rows /\ h.removed = g.removed
               /\ g.process = "notRunning" => h = g
               /\ g.process # "notRunning" =>
                     SendsAs(g, h, 1, type, <<[token |-> g.token + 1, kind |-> kind, arg |-> arg]>>)
<1> DEFINE h == Post(g, kind, arg, type, cookie, sync)
           c == [token |-> g.token + 1, kind |-> kind, arg |-> arg]
           entry == [type |-> type, cookie |-> cookie, synchronized |-> sync]
<1>1. CASE g.process = "notRunning"
  BY <1>1, QuietRefl DEF Post
<1>2. CASE g.process # "notRunning"
  <2>1. /\ g \in GuiRecord /\ g.token \in Nat /\ g.pending \in Int
        /\ g.out \in Seq(Command) /\ g.retrieving \in BOOLEAN
    BY GuiFields DEF Fields
  <2>2. c \in Command /\ c.token = g.token + 1
    <3>1. c \in [token : Nat, kind : Kinds, arg : Args] /\ c.kind = kind /\ c.arg = arg
      BY <2>1
    <3> QED
      BY <3>1 DEF Command
  <2>3. entry \in Cookie /\ entry.type = type
    BY DEF Cookie
  <2> HIDE DEF c, entry
  <2>4. /\ <<c>> \in Seq(Command) /\ Len(<<c>>) = 1 /\ 1 \in Nat
        /\ \A i \in 1..1 : <<c>>[i].token = g.token + i
        /\ Append(g.out, c) = g.out \o <<c>>
    BY <2>1, <2>2
  <2>12. PICK pending \in Int : pending = IF sync THEN g.pending + 1 ELSE g.pending
    <3>1. (IF sync THEN g.pending + 1 ELSE g.pending) \in Int
      BY <2>1
    <3> QED
      BY <3>1
  <2>5. PICK token, cookies, out :
           /\ token = g.token + 1
           /\ cookies = Noted(g.cookies, {token}, type, cookie, sync)
           /\ out = Append(g.out, c)
    OBVIOUS
  <2>6. {token} = g.token + 1..token
    BY <2>1, <2>5
  <2>7. Notes(g, cookies, token, entry)
    BY <2>5, <2>6 DEF Notes, Noted, entry
  <2>8. h = [g EXCEPT !.token = token, !.pending = pending, !.cookies = cookies, !.out = out]
    BY <1>2, <2>5, <2>12 DEF Post, c
  <2> HIDE DEF h
  <2>9. h = [g EXCEPT !.token = token, !.pending = pending, !.retrieving = g.retrieving,
                      !.cookies = cookies, !.out = out]
    BY <2>1, <2>8 DEF GuiRecord
  <2>10. Adds(g, h, 1, <<c>>, entry)
    BY <2>1, <2>4, <2>5, <2>7, <2>9 DEF Adds
  <2>11. SendsAs(g, h, 1, type, <<c>>)
    BY <2>3, <2>4, <2>10, SendsMore
  <2> QED
    BY <1>2, <2>11, SendsAsQuiet DEF SendsAs, h, c
<1> QED
  BY <1>1, <1>2

(* Queries. *)
LEMMA Queried ==
    ASSUME NEW g \in Gui, NEW n \in Nat, NEW sync \in BOOLEAN
    PROVE  LET h == Queries(g, n, sync)
           IN  /\ Quiet(g, h) /\ h.status = g.status /\ h.barrier = g.barrier
               /\ h = g \/ \E new : SendsAs(g, h, n, "view", new)
               /\ h.interrupt = g.interrupt
<1> DEFINE h == Queries(g, n, sync)
           entry == [type |-> "view", cookie |-> 0, synchronized |-> sync]
<1>1. CASE g.process = "notRunning" \/ n = 0
  BY <1>1, QuietRefl DEF Queries
<1>2. CASE ~(g.process = "notRunning" \/ n = 0)
  <2> DEFINE new == [i \in 1..n |->
                        [token |-> g.token + i, kind |-> "query", arg |-> Nowhere]]
  <2>1. /\ g \in GuiRecord /\ g.token \in Nat /\ g.pending \in Int
        /\ g.out \in Seq(Command) /\ g.retrieving \in BOOLEAN
    BY GuiFields DEF Fields
  <2>3. ASSUME NEW i \in 1..n
        PROVE  [token |-> g.token + i, kind |-> "query", arg |-> Nowhere] \in Command
    <3> DEFINE command == [token |-> g.token + i, kind |-> "query", arg |-> Nowhere]
    <3>1. g.token + i \in Nat
      BY <2>1
    <3>2. command \in [token : Nat, kind : Kinds, arg : Args] /\ command.kind = "query"
      BY <3>1 DEF Kinds, Args
    <3>3. Takes(command.kind, command.arg)
      BY <3>2 DEF Takes
    <3> QED
      BY <3>2, <3>3 DEF Command
  <2>4. new \in [1..n -> Command] /\ \A i \in 1..n : new[i].token = g.token + i
    BY <2>3
  <2>12. PICK pending \in Int, retrieving \in BOOLEAN :
           /\ pending = IF sync THEN g.pending + n ELSE g.pending
           /\ retrieving = (g.retrieving \/ sync)
    <3>1. /\ (IF sync THEN g.pending + n ELSE g.pending) \in Int
          /\ (g.retrieving \/ sync) \in BOOLEAN
      BY <2>1
    <3> QED
      BY <3>1
  <2>5. PICK token, cookies, out :
           /\ token = g.token + n
           /\ cookies = Noted(g.cookies, g.token + 1..token, "view", 0, sync)
           /\ out = g.out \o new
    OBVIOUS
  <2>6. h = [g EXCEPT !.token = token, !.pending = pending, !.retrieving = retrieving,
                      !.cookies = cookies, !.out = out]
    BY <1>2, <2>5, <2>12, Zenon DEF Queries
  <2>7. entry \in Cookie /\ entry.type = "view"
    BY DEF Cookie, Types
  <2>8. Notes(g, cookies, token, entry)
    BY <2>5 DEF Notes, Noted
  <2> HIDE DEF new, h, entry
  <2>9. new \in Seq(Command) /\ Len(new) = n
    BY <2>4
  <2>10. Adds(g, h, n, new, entry)
    BY <2>5, <2>6, <2>8, Zenon DEF Adds
  <2>11. SendsAs(g, h, n, "view", new)
    BY <2>4, <2>7, <2>9, <2>10, SendsMore
  <2> QED
    BY <2>11, SendsAsQuiet DEF SendsAs, h
<1> QED
  BY <1>1, <1>2

(* The inferior is told to go on: the barrier is raised. *)
LEMMA Barred ==
    ASSUME NEW g \in Gui
    PROVE  Quiet(g, SetStatus(SetTokenBarrier(g), "runningRequested"))
<1> DEFINE b == SetTokenBarrier(g)
           h == SetStatus(b, "runningRequested")
<1>1. g \in GuiRecord /\ g.token \in Nat /\ g.barrier \in Int /\ g.barrier <= g.token
  BY GuiFields, GuiNumbers
<1>2. b = [g EXCEPT !.barrier = g.token] /\ h = [b EXCEPT !.status = "runningRequested"]
  BY DEF SetTokenBarrier, SetStatus
<1>3. b \in GuiRecord
  BY <1>1, <1>2 DEF GuiRecord
<1>4. h \in GuiRecord /\ h.status = "runningRequested"
  BY <1>2, <1>3 DEF GuiRecord, Status
<1>5. SameChannel(g, h) /\ h.barrier = g.token
  BY <1>1, <1>2 DEF GuiRecord, SameChannel
<1> HIDE DEF h
<1>6. h.barrier \in g.barrier..g.token
  BY <1>1, <1>5
<1>7. Quiet(g, h)
  BY <1>4, <1>5, <1>6, QuietChange
<1> QED
  BY <1>7 DEF h

(* Some commands without arguments that are sent with it. *)
LEMMA GoSent ==
    ASSUME NEW g \in Gui, NEW kind \in {"run", "continue", "step", "exit"},
           NEW type \in {"exec", "invalid"}
    PROVE  LET h == Post(g, kind, Nowhere, type, 0, FALSE)
           IN  Quiet(g, h) /\ h.rows = g.rows /\ h.removed = g.removed
<1>1. /\ kind \in Kinds /\ Nowhere \in Args /\ Takes(kind, Nowhere) /\ type \in Types
      /\ 0 \in Int /\ FALSE \in BOOLEAN
  BY DEF Kinds, Args, Takes, Types
<1> QED
  BY <1>1, Posted, Zenon

(* The four functions that let the inferior go on are quiet. *)
LEMMA Resuming ==
    ASSUME NEW g \in Gui
    PROVE  /\ Quiet(g, ContinueInferior(g)) /\ Quiet(g, StepExec(g))
           /\ Quiet(g, RunToLineExec(g)) /\ Quiet(g, RunInferior(g))
<1> DEFINE r == SetStatus(SetTokenBarrier(g), "runningRequested")
           p(kind, type) == Post(r, kind, Nowhere, type, 0, FALSE)
<1>1. Quiet(g, r) /\ r \in Gui
  BY Barred, QuietGui
<1> HIDE DEF r
<1>2. ASSUME NEW kind \in {"run", "continue", "step"}, NEW type \in {"exec", "invalid"}
      PROVE  Quiet(g, p(kind, type)) /\ p(kind, type) \in Gui
  BY <1>1, GoSent, QuietThenQuiet, QuietGui
<1>3. /\ ContinueInferior(g) = p("continue", "exec")
      /\ StepExec(g) = p("step", "exec")
      /\ RunToLineExec(g) = p("step", "invalid")
      /\ RunInferior(g) = Queries(p("run", "exec"), OtherQueries, FALSE)
  BY DEF ContinueInferior, StepExec, RunToLineExec, RunInferior, r
<1> HIDE DEF p
<1>4. Quiet(g, p("run", "exec")) /\ p("run", "exec") \in Gui
  BY <1>2
<1>5. OtherQueries \in Nat /\ FALSE \in BOOLEAN
  BY QueriesAssumption
<1>6. Quiet(p("run", "exec"), Queries(p("run", "exec"), OtherQueries, FALSE))
  BY <1>4, <1>5, Queried
<1> QED
  BY <1>2, <1>3, <1>4, <1>6, QuietThenQuiet

(* sendCommand with needStop. *)
LEMMA StoppedSent ==
    ASSUME NEW g \in Gui, NEW kind \in Kinds, NEW arg \in Args, Takes(kind, arg),
           NEW type \in Types, NEW cookie \in Int
    PROVE  LET h == SendStopped(g, kind, arg, type, cookie)
           IN  Quiet(g, h) /\ h.rows = g.rows /\ h.removed = g.removed
<1> DEFINE i == InterruptInferior(g)
           p == Post(i, kind, arg, type, cookie, FALSE)
           c == Post(p, "continue", Nowhere, "invalid", 0, FALSE)
           d == Post(g, kind, arg, type, cookie, FALSE)
<1>1. Quiet(g, i) /\ i.rows = g.rows /\ i.removed = g.removed /\ i \in Gui
  BY Interrupted, QuietGui
<1>2. FALSE \in BOOLEAN
  OBVIOUS
<1>3. Quiet(g, d) /\ d.rows = g.rows /\ d.removed = g.removed
  BY <1>2, Posted, Zenon
<1>4. SendStopped(g, kind, arg, type, cookie) \in {c, d}
  BY DEF SendStopped
<1> HIDE DEF i, d, c
<1>5. Quiet(i, p) /\ p.rows = i.rows /\ p.removed = i.removed /\ p \in Gui
  <2>1. Quiet(i, p) /\ p.rows = i.rows /\ p.removed = i.removed
    BY <1>1, <1>2, Posted, Zenon
  <2> QED
    BY <2>1, QuietGui
<1> HIDE DEF p
<1>6. Quiet(p, c) /\ c.rows = p.rows /\ c.removed = p.removed
  BY <1>5, GoSent DEF c
<1>7. Quiet(g, c) /\ c.rows = g.rows /\ c.removed = g.removed
  <2>1. Quiet(g, p)
    BY <1>1, <1>5, QuietThenQuiet
  <2> QED
    BY <1>1, <1>5, <1>6, <2>1, QuietThenQuiet
<1> QED
  BY <1>3, <1>4, <1>7

(* The barrier is raised. *)
LEMMA BarrierSet ==
    ASSUME NEW g \in Gui
    PROVE  LET h == SetTokenBarrier(g)
           IN  /\ Sends(g, h) /\ h \in Gui /\ h.status = g.status
               /\ g.status # "running" => Quiet(g, h)
<1>1. PICK h : h = SetTokenBarrier(g)
  OBVIOUS
<1>2. g \in GuiRecord
  BY GuiFields
<1>3. PICK barrier \in Int : barrier = g.token
  BY GuiNumbers
<1>4. h = [g EXCEPT !.barrier = barrier]
  BY <1>1, <1>3 DEF SetTokenBarrier
<1>5. h \in GuiRecord
  BY <1>2, <1>4 DEF GuiRecord
<1>6. SameChannel(g, h) /\ h.barrier = barrier /\ h.status = g.status
  BY <1>2, <1>4 DEF GuiRecord, SameChannel
<1>7. /\ g.token \in Nat /\ g.barrier \in Int /\ g.barrier <= g.token
      /\ DOMAIN g.cookies \subseteq 1..g.token
  BY GuiNumbers
<1>8. h.barrier \in -1..h.token /\ h.barrier \in g.barrier..g.token
  BY <1>3, <1>6, <1>7 DEF SameChannel
<1>9. h \in Gui
  BY <1>5, <1>6, <1>7, <1>8, GuiFrom DEF SameChannel
<1>10. g.status # "running" => Quiet(g, h)
  BY <1>5, <1>6, <1>8, QuietChange
<1> QED
  BY <1>1, <1>6, <1>9, <1>10, SendsNothing

(* The count of pending answers is set. *)
LEMMA PendingSet ==
    ASSUME NEW g \in Gui, NEW pending \in Int
    PROVE  LET h == [g EXCEPT !.pending = pending]
           IN  Quiet(g, h) /\ h.status = g.status /\ h.barrier = g.barrier
<1> DEFINE h == [g EXCEPT !.pending = pending]
<1>1. g \in GuiRecord
  BY GuiFields
<1>2. h \in GuiRecord /\ SameChannel(g, h) /\ h.barrier = g.barrier /\ h.status = g.status
  BY <1>1 DEF GuiRecord, SameChannel
<1> HIDE DEF h
<1>3. Quiet(g, h)
  BY <1>2, QuietFields
<1> QED
  BY <1>2, <1>3 DEF h

(* updateLocals raises the barrier, which is quiet if the inferior is not  *)
(* thought to run.                                                         *)
LEMMA LocalsAsked ==
    ASSUME NEW g \in Gui
    PROVE  LET h == UpdateLocals(g)
           IN  /\ Sends(g, h) /\ h.status = g.status
               /\ g.status # "running" => Quiet(g, h)
<1> DEFINE b == SetTokenBarrier(g)
           z == [b EXCEPT !.pending = 0]
           h == Queries(z, LocalsQueries, TRUE)
<1>1. /\ Sends(g, b) /\ b \in Gui /\ b.status = g.status
      /\ g.status # "running" => Quiet(g, b)
  BY BarrierSet
<1> HIDE DEF b
<1>2. Quiet(b, z) /\ z.status = b.status
  BY <1>1, PendingSet
<1> HIDE DEF z
<1>3. z \in Gui /\ LocalsQueries \in Nat /\ TRUE \in BOOLEAN
  BY <1>2, QuietGui, QueriesAssumption
<1>4. Quiet(z, h) /\ h.status = z.status
  BY <1>3, Queried
<1> HIDE DEF h
<1>5. Quiet(b, h)
  BY <1>1, <1>2, <1>4, QuietThenQuiet
<1>6. Sends(g, h)
  BY <1>1, <1>5, SendsThenSends DEF Quiet
<1>7. g.status # "running" => Quiet(g, h)
  BY <1>1, <1>5, QuietThenQuiet
<1> QED
  BY <1>1, <1>2, <1>4, <1>6, <1>7 DEF UpdateLocals, h, z, b

(* updateWatchModel2. *)
LEMMA WatchModelUpdated ==
    ASSUME NEW g \in Gui, NEW h \in UpdateWatchModel2(g)
    PROVE  Quiet(g, h) /\ h.status = g.status
<1> DEFINE done == [g EXCEPT !.retrieving = @ /\ g.pending > 0]
<1>1. g \in GuiRecord
  BY GuiFields
<1>2. done \in GuiRecord /\ SameChannel(g, done) /\ done.barrier = g.barrier
      /\ done.status = g.status
  <2>1. g.retrieving \in BOOLEAN
    BY <1>1 DEF GuiRecord
  <2>2. PICK r \in BOOLEAN : r = (g.retrieving /\ g.pending > 0)
    BY <2>1
  <2>3. done = [g EXCEPT !.retrieving = r]
    BY <2>2
  <2> HIDE DEF done
  <2> QED
    BY <1>1, <2>3 DEF GuiRecord, SameChannel
<1>3. h = done \/ \E n \in Nat : h = Queries(g, n, TRUE)
  <2>1. 0..FollowUps \subseteq Nat /\ {0} \subseteq Nat
    BY QueriesAssumption
  <2>2. PICK n \in Nat : h = IF n > 0 THEN Queries(g, n, TRUE) ELSE done
    BY <2>1 DEF UpdateWatchModel2
  <2> QED
    BY <2>2
<1> HIDE DEF done
<1>4. CASE h = done
  BY <1>2, <1>4, QuietFields
<1>5. CASE \E n \in Nat : h = Queries(g, n, TRUE)
  <2>1. PICK n \in Nat : h = Queries(g, n, TRUE)
    BY <1>5
  <2>2. TRUE \in BOOLEAN
    OBVIOUS
  <2> QED
    BY <2>1, <2>2, Queried
<1> QED
  BY <1>3, <1>4, <1>5

-----------------------------------------------------------------------------
(* The table of breakpoints.  Other rows, removed or stored ones are       *)
(* quiet.                                                                  *)
With(g, rows, removed, stored) ==
    [g EXCEPT !.rows = rows, !.removed = removed, !.stored = stored]

(* Such a change of the record leaves the channel and the status. *)
LEMMA WithQuiet ==
    ASSUME NEW g \in Gui, NEW rows \in Seq(TableRow), NEW removed \in Seq(Int),
           NEW stored \in Seq(WishRow)
    PROVE  LET h == With(g, rows, removed, stored)
           IN  /\ Quiet(g, h) /\ h.rows = rows /\ h.removed = removed
               /\ h.status = g.status
<1>1. PICK h : h = With(g, rows, removed, stored)
  OBVIOUS
<1>2. g \in GuiRecord
  BY GuiFields
<1>3. h \in GuiRecord
  BY <1>1, <1>2 DEF GuiRecord, With
<1>4. /\ SameChannel(g, h) /\ h.barrier = g.barrier /\ h.status = g.status
      /\ h.rows = rows /\ h.removed = removed
  BY <1>1, <1>2 DEF GuiRecord, SameChannel, With
<1>5. Quiet(g, h)
  BY <1>3, <1>4, QuietFields
<1> QED
  BY <1>1, <1>4, <1>5

(* The sequences of a record. *)
LEMMA GuiSequences ==
    ASSUME NEW g \in Gui
    PROVE  /\ g.rows \in Seq(TableRow) /\ g.removed \in Seq(Int) /\ g.stored \in Seq(WishRow)
           /\ Len(g.rows) \in Nat /\ DOMAIN g.rows = 1..Len(g.rows)
           /\ Len(g.removed) \in Nat /\ Len(g.stored) \in Nat
           /\ DOMAIN g.stored = 1..Len(g.stored)
<1>1. g.rows \in Seq(TableRow) /\ g.removed \in Seq(Int) /\ g.stored \in Seq(WishRow)
  BY GuiFields DEF Fields
<1> QED
  BY <1>1

(* Other rows alone. *)
LEMMA RowsQuiet ==
    ASSUME NEW g \in Gui, NEW rows \in Seq(TableRow)
    PROVE  LET h == [g EXCEPT !.rows = rows]
           IN  /\ Quiet(g, h) /\ h.rows = rows /\ h.removed = g.removed
               /\ h.status = g.status
<1>1. PICK h : h = [g EXCEPT !.rows = rows]
  OBVIOUS
<1>2. g \in GuiRecord
  BY GuiFields
<1>3. h = With(g, rows, g.removed, g.stored)
  BY <1>1, <1>2 DEF With, GuiRecord
<1>4. Quiet(g, h) /\ h.rows = rows /\ h.removed = g.removed /\ h.status = g.status
  BY <1>3, WithQuiet, GuiSequences
<1> QED
  BY <1>1, <1>4

(* Another row in the place of one. *)
LEMMA RowQuiet ==
    ASSUME NEW g \in Gui, NEW i \in DOMAIN g.rows, NEW row \in TableRow
    PROVE  LET h == [g EXCEPT !.rows = [g.rows EXCEPT ![i] = row]]
           IN  /\ Quiet(g, h) /\ h.rows = [g.rows EXCEPT ![i] = row] /\ h.removed = g.removed
               /\ h.status = g.status
<1>1. PICK rows \in Seq(TableRow) : rows = [g.rows EXCEPT ![i] = row]
  <2>1. g.rows \in Seq(TableRow)
    BY GuiSequences
  <2>2. [g.rows EXCEPT ![i] = row] \in Seq(TableRow)
    BY <2>1
  <2> QED
    BY <2>2
<1> QED
  BY <1>1, RowsQuiet

(* A row gets its number. *)
LEMMA NumberSet ==
    ASSUME NEW g \in Gui, NEW i \in DOMAIN g.rows, NEW number \in Int
    PROVE  LET h == SetNumber(g, i, number) IN Quiet(g, h) /\ h.status = g.status
<1>1. PICK row : row = [g.rows[i] EXCEPT !.number = number]
  OBVIOUS
<1>2. row \in TableRow
  BY <1>1, RowIs DEF TableRow
<1>3. SetNumber(g, i, number) = [g EXCEPT !.rows = [g.rows EXCEPT ![i] = row]]
  BY <1>1 DEF SetNumber
<1> QED
  BY <1>2, <1>3, RowQuiet

(* So do the acknowledged condition, ignore count and file. *)
LEMMA Acknowledged ==
    ASSUME NEW g \in Gui, NEW i \in DOMAIN g.rows
    PROVE  /\ Quiet(g, [g EXCEPT !.rows[i].bpCondition = g.rows[i].condition])
           /\ Quiet(g, [g EXCEPT !.rows[i].bpIgnoreCount = g.rows[i].ignoreCount])
           /\ Quiet(g, [g EXCEPT !.rows[i].place = "known"])
<1>1. PICK row : row = g.rows[i]
  OBVIOUS
<1>2. row \in TableRow
  BY <1>1, RowIs
<1>3. /\ [row EXCEPT !.bpCondition = row.condition] \in TableRow
      /\ [row EXCEPT !.bpIgnoreCount = row.ignoreCount] \in TableRow
      /\ [row EXCEPT !.place = "known"] \in TableRow
  BY <1>2 DEF TableRow, Places
<1>4. ASSUME NEW new \in TableRow
      PROVE  Quiet(g, [g EXCEPT !.rows = [g.rows EXCEPT ![i] = new]])
  BY RowQuiet
<1>5. /\ [g EXCEPT !.rows[i].bpCondition = g.rows[i].condition]
            = [g EXCEPT !.rows = [g.rows EXCEPT ![i] =
                  [row EXCEPT !.bpCondition = row.condition]]]
      /\ [g EXCEPT !.rows[i].bpIgnoreCount = g.rows[i].ignoreCount]
            = [g EXCEPT !.rows = [g.rows EXCEPT ![i] =
                  [row EXCEPT !.bpIgnoreCount = row.ignoreCount]]]
      /\ [g EXCEPT !.rows[i].place = "known"]
            = [g EXCEPT !.rows = [g.rows EXCEPT ![i] = [row EXCEPT !.place = "known"]]]
  BY <1>1
<1> QED
  BY <1>3, <1>4, <1>5

(* The user edits a row. *)
LEMMA RowEdited ==
    ASSUME NEW g \in Gui, NEW i \in DOMAIN g.rows,
           NEW condition \in Nat, NEW ignoreCount \in Nat
    PROVE  Quiet(g, [g EXCEPT !.rows[i].condition = condition,
                              !.rows[i].ignoreCount = ignoreCount])
<1>1. PICK row, new : /\ row = [g.rows[i] EXCEPT !.condition = condition]
                      /\ new = [row EXCEPT !.ignoreCount = ignoreCount]
  OBVIOUS
<1>2. row \in TableRow /\ new \in TableRow
  BY <1>1, RowIs DEF TableRow
<1>3. PICK h : h = [g EXCEPT !.rows = [g.rows EXCEPT ![i] = row]]
  OBVIOUS
<1>4. Quiet(g, h) /\ h.rows = [g.rows EXCEPT ![i] = row] /\ h \in Gui
  BY <1>2, <1>3, RowQuiet, QuietGui
<1>5. g.rows \in Seq(TableRow)
  BY GuiSequences
<1>6. i \in DOMAIN h.rows /\ h.rows[i] = row
  BY <1>4, <1>5
<1>7. Quiet(h, [h EXCEPT !.rows = [h.rows EXCEPT ![i] = new]])
  BY <1>2, <1>4, <1>6, RowQuiet
<1>8. [g EXCEPT !.rows[i].condition = condition, !.rows[i].ignoreCount = ignoreCount]
        = [h EXCEPT !.rows = [h.rows EXCEPT ![i] = new]]
  <2>1. h = [g EXCEPT !.rows[i].condition = condition]
    BY <1>1, <1>3
  <2>2. [h EXCEPT !.rows = [h.rows EXCEPT ![i] = new]] = [h EXCEPT !.rows[i].ignoreCount = ignoreCount]
    BY <1>1, <1>6
  <2> QED
    BY <2>1, <2>2
<1> QED
  BY <1>4, <1>7, <1>8, QuietThenQuiet

(* A row that is removed. *)
LEMMA RemovedAt ==
    ASSUME NEW S, NEW s \in Seq(S), NEW i \in DOMAIN s
    PROVE  LET r == RemoveAt(s, i)
           IN  /\ r \in Seq(S) /\ Len(r) = Len(s) - 1
               /\ \A j \in DOMAIN r : /\ j < i => j \in DOMAIN s /\ r[j] = s[j]
                                      /\ j >= i => j + 1 \in DOMAIN s /\ r[j] = s[j + 1]
               /\ \A j \in DOMAIN s : /\ j < i => j \in DOMAIN r
                                      /\ j > i => j - 1 \in DOMAIN r
<1> DEFINE a == SubSeq(s, 1, i - 1)
           b == SubSeq(s, i + 1, Len(s))
<1>1. /\ Len(s) \in Nat /\ i \in 1..Len(s) /\ DOMAIN s = 1..Len(s)
  OBVIOUS
<1>2. /\ a \in Seq(S) /\ Len(a) = i - 1
      /\ \A j \in 1..i - 1 : a[j] = s[j]
  BY <1>1
<1>3. /\ b \in Seq(S) /\ Len(b) = Len(s) - i
      /\ \A j \in 1..Len(s) - i : b[j] = s[i + j]
  BY <1>1
<1>4. RemoveAt(s, i) = a \o b
  BY DEF RemoveAt
<1> HIDE DEF a, b
<1>5. /\ a \o b \in Seq(S) /\ Len(a \o b) = Len(s) - 1
      /\ \A j \in 1..Len(s) - 1 :
            (a \o b)[j] = IF j <= i - 1 THEN a[j] ELSE b[j - (i - 1)]
  <2>1. /\ a \o b \in Seq(S) /\ Len(a \o b) = Len(a) + Len(b)
        /\ \A j \in 1..Len(a) + Len(b) :
              (a \o b)[j] = IF j <= Len(a) THEN a[j] ELSE b[j - Len(a)]
    BY <1>2, <1>3, ConcatProperties
  <2>2. Len(a) + Len(b) = Len(s) - 1 /\ Len(a) = i - 1
    BY <1>1, <1>2, <1>3
  <2> QED
    BY <2>1, <2>2
<1>6. DOMAIN (a \o b) = 1..Len(s) - 1
  BY <1>5
<1>7. ASSUME NEW j \in 1..Len(s) - 1
      PROVE  /\ j < i => j \in DOMAIN s /\ (a \o b)[j] = s[j]
             /\ j >= i => j + 1 \in DOMAIN s /\ (a \o b)[j] = s[j + 1]
  <2>1. CASE j < i
    BY <1>1, <1>2, <1>5, <2>1
  <2>2. CASE j >= i
    <3> DEFINE m == j - (i - 1)
    <3>1. m \in 1..Len(s) - i /\ i + m = j + 1 /\ j + 1 \in DOMAIN s
      BY <1>1, <2>2
    <3>2. (a \o b)[j] = b[m]
      BY <1>1, <1>5, <2>2
    <3> HIDE DEF m
    <3>3. b[m] = s[j + 1]
      BY <1>3, <3>1
    <3> QED
      BY <1>1, <2>2, <3>1, <3>2, <3>3
  <2> QED
    BY <1>1, <2>1, <2>2
<1>8. \A j \in DOMAIN s : /\ j < i => j \in 1..Len(s) - 1
                          /\ j > i => j - 1 \in 1..Len(s) - 1
  BY <1>1
<1> QED
  BY <1>4, <1>5, <1>6, <1>7, <1>8

(* The session keeps what the user wants. *)
LEMMA Saved ==
    ASSUME NEW g \in Gui
    PROVE  Quiet(g, SaveBreakpoints(g))
<1>1. PICK stored : stored = [i \in DOMAIN g.rows |-> Wish(g.rows[i])]
  OBVIOUS
<1>2. ASSUME NEW i \in DOMAIN g.rows PROVE Wish(g.rows[i]) \in WishRow
  BY RowIs DEF Wish, WishRow
<1>3. stored \in [1..Len(g.rows) -> WishRow] /\ Len(g.rows) \in Nat
  BY <1>1, <1>2, GuiSequences
<1>4. stored \in Seq(WishRow)
  BY <1>3
<1>5. g \in GuiRecord
  BY GuiFields
<1>6. SaveBreakpoints(g) = With(g, g.rows, g.removed, stored)
  BY <1>1, <1>5 DEF SaveBreakpoints, With, GuiRecord
<1> QED
  BY <1>4, <1>6, WithQuiet, GuiSequences

(* A row is appended. *)
LEMMA BreakpointSet ==
    ASSUME NEW g \in Gui, NEW loc \in Locations
    PROVE  Quiet(g, SetBreakpoint(g, loc))
<1>1. PICK row, rows : /\ row = Row([loc |-> loc, condition |-> Empty, ignoreCount |-> Empty])
                       /\ rows = Append(g.rows, row)
  OBVIOUS
<1>2. row \in TableRow
  BY <1>1 DEF Row, TableRow, Unset, Empty, Places
<1>3. rows \in Seq(TableRow)
  BY <1>1, <1>2, GuiSequences
<1>4. PICK h : h = [g EXCEPT !.rows = rows]
  OBVIOUS
<1>5. Quiet(g, h) /\ h \in Gui
  BY <1>3, <1>4, RowsQuiet, QuietGui
<1>6. SetBreakpoint(g, loc) = SaveBreakpoints(h)
  BY <1>1, <1>4, Zenon DEF SetBreakpoint
<1> QED
  BY <1>5, <1>6, Saved, QuietThenQuiet

(* A row goes, and its number to the removed ones. *)
LEMMA BreakpointRemoved ==
    ASSUME NEW g \in Gui, NEW i \in DOMAIN g.rows
    PROVE  Quiet(g, RemoveBreakpoint(g, i))
<1>1. PICK rows, removed : /\ rows = RemoveAt(g.rows, i)
                           /\ removed = Append(g.removed, g.rows[i].number)
  OBVIOUS
<1>2. rows \in Seq(TableRow)
  BY <1>1, GuiSequences, RemovedAt
<1>3. removed \in Seq(Int)
  BY <1>1, GuiSequences, RowIs
<1>4. PICK h : h = [g EXCEPT !.rows = rows, !.removed = removed]
  OBVIOUS
<1>5. g \in GuiRecord
  BY GuiFields
<1>6. h = With(g, rows, removed, g.stored)
  BY <1>4, <1>5 DEF With, GuiRecord
<1>7. Quiet(g, h) /\ h \in Gui
  BY <1>2, <1>3, <1>6, GuiSequences, WithQuiet, QuietGui
<1>8. RemoveBreakpoint(g, i) = SaveBreakpoints(h)
  BY <1>1, <1>4 DEF RemoveBreakpoint
<1> QED
  BY <1>7, <1>8, Saved, QuietThenQuiet

(* The rows are loaded again. *)
LEMMA AllPending ==
    ASSUME NEW g \in Gui
    PROVE  LET h == SetAllPending(g) IN Quiet(g, h) /\ h.status = g.status
<1>1. PICK rows : rows = [i \in DOMAIN g.stored |-> Row(g.stored[i])]
  OBVIOUS
<1>2. ASSUME NEW i \in DOMAIN g.stored PROVE Row(g.stored[i]) \in TableRow
  <2>1. g.stored[i] \in WishRow
    BY GuiSequences
  <2> QED
    BY <2>1 DEF Row, WishRow, TableRow, Unset, Empty, Places
<1>3. rows \in [1..Len(g.stored) -> TableRow] /\ Len(g.stored) \in Nat
  BY <1>1, <1>2, GuiSequences
<1>4. rows \in Seq(TableRow)
  BY <1>3
<1>5. SetAllPending(g) = [g EXCEPT !.rows = rows]
  BY <1>1 DEF SetAllPending
<1> QED
  BY <1>4, <1>5, RowsQuiet

(* The smallest of some places in a sequence is one of them. *)
LEMMA SmallestIndex ==
    ASSUME NEW s, Len(s) \in Nat, NEW I \in SUBSET (1..Len(s))
    PROVE  LET first == IF I # {} THEN Min(I) ELSE 0
           IN  /\ first \in I \cup {0}
               /\ first = 0 <=> I = {}
               /\ \A i \in I : first <= i
<1>1. I \in SUBSET Nat
  OBVIOUS
<1>2. CASE I # {}
  <2>1. \E n \in I : \A m \in I : n <= m
    BY <1>1, <1>2, Smallest
  <2>2. Min(I) \in I /\ \A i \in I : Min(I) <= i
    BY <2>1 DEF Min
  <2>3. 0 \notin I
    OBVIOUS
  <2> QED
    BY <1>2, <2>2, <2>3
<1>3. CASE I = {}
  BY <1>3
<1> QED
  BY <1>2, <1>3

(* The place of a row that is looked for is one of the table, or none. *)
LEMMA Selected ==
    ASSUME NEW g \in Gui, NEW I \in SUBSET (1..Len(g.rows))
    PROVE  (IF I # {} THEN Min(I) ELSE 0) \in DOMAIN g.rows \cup {0}
<1>1. Len(g.rows) \in Nat /\ DOMAIN g.rows = 1..Len(g.rows)
  BY GuiSequences
<1>2. (IF I # {} THEN Min(I) ELSE 0) \in I \cup {0}
  BY <1>1, SmallestIndex
<1> QED
  BY <1>1, <1>2

(* So for each of the four searches of the code. *)
LEMMA PlacesFound ==
    ASSUME NEW g \in Gui
    PROVE  /\ FirstMultiple(g) \in DOMAIN g.rows \cup {0}
           /\ FirstUnset(g) \in DOMAIN g.rows \cup {0}
           /\ FirstDiffering(g) \in DOMAIN g.rows \cup {0}
           /\ \A loc : IndexOf(g, loc) \in DOMAIN g.rows \cup {0}
<1>1. \A I \in SUBSET (1..Len(g.rows)) :
          (IF I # {} THEN Min(I) ELSE 0) \in DOMAIN g.rows \cup {0}
  BY Selected
<1>2. FirstMultiple(g) \in DOMAIN g.rows \cup {0}
  BY <1>1 DEF FirstMultiple, SelectInSeq
<1>3. FirstUnset(g) \in DOMAIN g.rows \cup {0}
  BY <1>1 DEF FirstUnset, SelectInSeq
<1>4. FirstDiffering(g) \in DOMAIN g.rows \cup {0}
  BY <1>1 DEF FirstDiffering, SelectInSeq
<1>5. \A loc : IndexOf(g, loc) \in DOMAIN g.rows \cup {0}
  BY <1>1 DEF IndexOf, SelectInSeq
<1> QED
  BY <1>2, <1>3, <1>4, <1>5

-----------------------------------------------------------------------------
(* One deletion: gdb is told, or it never knew. *)
LEMMA FirstDeleted ==
    ASSUME NEW g \in Gui, g.removed # <<>>
    PROVE  LET h == DeleteFirst(g) IN Quiet(g, h) /\ h.removed = Tail(g.removed)
<1>1. PICK removed, n : removed = Tail(g.removed) /\ n = Head(g.removed)
  OBVIOUS
<1>2. removed \in Seq(Int) /\ n \in Int
  BY <1>1, GuiSequences
<1>3. PICK f : f = [g EXCEPT !.removed = removed]
  OBVIOUS
<1>4. g \in GuiRecord
  BY GuiFields
<1>5. f = With(g, g.rows, removed, g.stored)
  BY <1>3, <1>4 DEF With, GuiRecord
<1>6. Quiet(g, f) /\ f.removed = removed /\ f \in Gui
  BY <1>2, <1>5, GuiSequences, WithQuiet, QuietGui
<1>7. DeleteFirst(g) \in {f, SendStopped(f, "delete", n, "other", 0)}
  BY <1>1, <1>3 DEF DeleteFirst
<1>8. /\ "delete" \in Kinds /\ n \in Args /\ Takes("delete", n)
      /\ "other" \in Types /\ 0 \in Int
  BY <1>2 DEF Kinds, Args, Takes, Types
<1>9. LET s == SendStopped(f, "delete", n, "other", 0)
      IN  Quiet(f, s) /\ s.removed = f.removed
  BY <1>6, <1>8, StoppedSent, Zenon
<1> QED
  BY <1>1, <1>6, <1>7, <1>9, QuietThenQuiet

(* What one deletion preserves, all of them preserve. *)
LEMMA AllDeleted ==
    ASSUME NEW g \in Gui, NEW P \in SUBSET Gui, g \in P,
           \A a \in P : a.removed # <<>> => DeleteFirst(a) \in P
    PROVE  DeleteRemoved(g) \in P
<1> DEFINE N == Len(g.removed)
           F == [i \in Nat |-> [a \in Gui |-> IF a.removed = <<>> THEN a ELSE DeleteFirst(a)]]
           told[i \in 0..N] == IF i = 0 THEN g ELSE DeleteFirst(told[i - 1])
           IsTold(f) == f = [i \in 0..N |-> IF i = 0 THEN g ELSE DeleteFirst(f[i - 1])]
<1>1. g.removed \in Seq(Int) /\ N \in Nat
  <2>1. g.removed \in Seq(Int)
    BY GuiFields DEF Fields
  <2> QED
    BY <2>1
<1>2. DeleteRemoved(g) = told[N]
  BY Zenon DEF DeleteRemoved
<1>3. ASSUME NEW a \in Gui, a.removed # <<>>
      PROVE  /\ DeleteFirst(a) \in Gui
             /\ Len(a.removed) \in Nat
             /\ Len(DeleteFirst(a).removed) = Len(a.removed) - 1
  <2>1. DeleteFirst(a) \in Gui /\ DeleteFirst(a).removed = Tail(a.removed)
    BY <1>3, FirstDeleted, QuietGui
  <2>2. a.removed \in Seq(Int)
    BY GuiFields DEF Fields
  <2>3. Len(Tail(a.removed)) = Len(a.removed) - 1 /\ Len(a.removed) \in Nat
    BY <1>3, <2>2
  <2> QED
    BY <2>1, <2>3
<1>4. \A a \in Gui : Len(a.removed) = 0 <=> a.removed = <<>>
  <2> TAKE a \in Gui
  <2>1. a.removed \in Seq(Int)
    BY GuiFields DEF Fields
  <2> QED
    BY <2>1
<1> HIDE DEF N
<1>5. \E f : IsTold(f)
  <2>1. F \in [Nat -> [Gui -> Gui]]
    BY <1>3
  <2> HIDE DEF F
  <2>2. PICK f \in [0..N -> Gui] : Iterates(f, g, F, N)
    BY <1>1, <2>1, Iteration
  <2>3. f[0] = g /\ \A i \in 1..N : f[i] = F[i][f[i - 1]]
    BY <2>2 DEF Iterates
  <2> DEFINE Q == {i \in Nat : i <= N => Len(f[i].removed) = N - i}
  <2>4. 0 \in Q
    BY <1>1, <2>3 DEF N
  <2>5. ASSUME NEW i \in Nat, i < N, i \in Q PROVE i + 1 \in Q
    <3>1. f[i] \in Gui /\ Len(f[i].removed) = N - i /\ i + 1 \in 1..N /\ (i + 1) - 1 = i
      BY <1>1, <2>2, <2>5
    <3>2. f[i].removed # <<>>
      BY <1>1, <1>4, <2>5, <3>1
    <3>3. f[i + 1] = F[i + 1][f[i]]
      BY <2>3, <3>1
    <3>4. F[i + 1][f[i]] = DeleteFirst(f[i])
      BY <3>1, <3>2 DEF F
    <3>5. Len(f[i + 1].removed) = Len(f[i].removed) - 1
      BY <1>3, <3>1, <3>2, <3>3, <3>4
    <3>6. (N - i) - 1 = N - (i + 1)
      BY <1>1
    <3> QED
      BY <3>1, <3>5, <3>6
  <2>6. 0..N \subseteq Q
    BY <1>1, <2>4, <2>5, UpTo
  <2>7. ASSUME NEW i \in 0..N, i # 0 PROVE f[i] = DeleteFirst(f[i - 1])
    <3>1. i - 1 \in 0..N /\ i \in 1..N /\ i - 1 < N /\ i \in Nat
      BY <1>1, <2>7
    <3>5. i - 1 \in Q /\ i - 1 <= N
      <4> HIDE DEF Q
      <4>1. i - 1 \in Q
        BY <2>6, <3>1
      <4> QED
        BY <1>1, <3>1, <4>1
    <3>2. f[i - 1] \in Gui /\ Len(f[i - 1].removed) = N - (i - 1)
      BY <2>2, <3>1, <3>5
    <3>3. f[i - 1].removed # <<>>
      BY <1>1, <1>4, <3>1, <3>2
    <3>4. F[i][f[i - 1]] = DeleteFirst(f[i - 1])
      BY <3>1, <3>2, <3>3 DEF F
    <3> QED
      BY <2>3, <3>1, <3>4
  <2>8. \A i \in 0..N : f[i] = IF i = 0 THEN g ELSE DeleteFirst(f[i - 1])
    BY <2>3, <2>7
  <2>9. IsTold(f)
    BY <2>2, <2>8
  <2> QED
    BY <2>9
<1>6. told = CHOOSE f : IsTold(f)
  BY DEF told
<1> HIDE DEF told, F
<1>7. IsTold(told)
  BY <1>5, <1>6
<1>8. \A i \in 0..N : told[i] = IF i = 0 THEN g ELSE DeleteFirst(told[i - 1])
  BY <1>7
<1> DEFINE Q == {i \in Nat : i <= N => told[i] \in P /\ Len(told[i].removed) = N - i}
<1>9. 0 \in Q
  BY <1>1, <1>8 DEF N
<1>10. ASSUME NEW i \in Nat, i < N, i \in Q PROVE i + 1 \in Q
  <2>1. /\ told[i] \in P /\ told[i] \in Gui /\ Len(told[i].removed) = N - i
        /\ i + 1 \in 0..N /\ (i + 1) - 1 = i /\ i + 1 # 0
    BY <1>1, <1>10
  <2>2. told[i].removed # <<>>
    BY <1>1, <1>4, <1>10, <2>1
  <2>3. told[i + 1] = DeleteFirst(told[i])
    BY <1>8, <2>1
  <2>4. told[i + 1] \in P
    BY <2>1, <2>2, <2>3
  <2>6. Len(told[i + 1].removed) = Len(told[i].removed) - 1
    BY <1>3, <2>1, <2>2, <2>3
  <2>7. (N - i) - 1 = N - (i + 1)
    BY <1>1
  <2>5. Len(told[i + 1].removed) = N - (i + 1)
    BY <2>1, <2>6, <2>7
  <2> QED
    BY <2>4, <2>5
<1>11. 0..N \subseteq Q
  BY <1>1, <1>9, <1>10, UpTo
<1>12. told[N] \in P /\ Len(told[N].removed) = 0
  BY <1>1, <1>11
<1> QED
  BY <1>2, <1>4, <1>12

(* All deletions are quiet. *)
LEMMA DeletedQuietly == ASSUME NEW g \in Gui PROVE Quiet(g, DeleteRemoved(g))
<1> DEFINE P == {a \in Gui : Quiet(g, a)}
<1>1. g \in P
  BY QuietRefl
<1>2. ASSUME NEW a \in P, a.removed # <<>> PROVE DeleteFirst(a) \in P
  BY <1>2, FirstDeleted, QuietThenQuiet, QuietGui
<1>3. P \in SUBSET Gui
  OBVIOUS
<1> HIDE DEF P
<1>4. DeleteRemoved(g) \in P
  BY <1>1, <1>2, <1>3, AllDeleted
<1> QED
  BY <1>4 DEF P

(* The start is finished: the inferior is told to run. *)
LEMMA StartupEnds == ASSUME NEW g \in Gui PROVE Quiet(g, NotifyStartupFinished(g))
<1>1. PICK s : s = SetStatus(g, "ready")
  OBVIOUS
<1>2. Quiet(g, s) /\ s \in Gui
  BY <1>1, StatusSet, QuietGui DEF Status
<1>3. NotifyStartupFinished(g) = RunInferior(s)
  BY <1>1 DEF NotifyStartupFinished
<1> QED
  BY <1>2, <1>3, Resuming, QuietThenQuiet

(* The commands about a row of the table are commands. *)
LEMMA RowArgs ==
    ASSUME NEW g \in Gui, NEW i \in DOMAIN g.rows
    PROVE  /\ g.rows[i].loc \in Args /\ g.rows[i].number \in Args
           /\ \A kind \in {"insert", "break"} : Takes(kind, g.rows[i].loc)
           /\ Takes("info", g.rows[i].number)
           /\ \A text \in Nat : \A kind \in {"condition", "ignore"} :
                 /\ Takes(kind, [number |-> g.rows[i].number, text |-> text])
                 /\ [number |-> g.rows[i].number, text |-> text] \in Args
           /\ {"insert", "break", "info", "condition", "ignore"} \subseteq Kinds
           /\ {"BreakInsert", "BreakInsert1", "BreakInfo", "BreakCondition", "BreakIgnore"}
                 \subseteq Types
<1>1. g.rows[i].loc \in Locations /\ g.rows[i].number \in Int
  BY RowIs
<1>2. \A text \in Nat : [number |-> g.rows[i].number, text |-> text] \in Change
  BY <1>1 DEF Change
<1>3. {"insert", "break", "info", "condition", "ignore"} \subseteq Kinds
  BY DEF Kinds
<1>4. {"BreakInsert", "BreakInsert1", "BreakInfo", "BreakCondition", "BreakIgnore"}
         \subseteq Types
  BY DEF Types
<1>5. g.rows[i].loc \in Args /\ g.rows[i].number \in Args
  BY <1>1 DEF Args
<1>6. \A kind \in {"insert", "break"} : Takes(kind, g.rows[i].loc)
  BY <1>1 DEF Takes
<1>7. Takes("info", g.rows[i].number)
  BY DEF Takes
<1>8. \A text \in Nat : \A kind \in {"condition", "ignore"} :
         /\ Takes(kind, [number |-> g.rows[i].number, text |-> text])
         /\ [number |-> g.rows[i].number, text |-> text] \in Args
  BY <1>2 DEF Takes, Args
<1> QED
  BY <1>3, <1>4, <1>5, <1>6, <1>7, <1>8

(* The questions of the synchronization. *)
LEMMA InfoAsked == ASSUME NEW g \in Gui PROVE Quiet(g, AskInfo(g))
<1>1. PICK i : i = FirstMultiple(g)
  OBVIOUS
<1>2. CASE i = 0
  BY <1>1, <1>2, QuietRefl DEF AskInfo
<1>3. CASE i # 0
  <2>1. i \in DOMAIN g.rows
    BY <1>1, <1>3, PlacesFound
  <2>2. PICK number : number = g.rows[i].number
    OBVIOUS
  <2>3. /\ "info" \in Kinds /\ number \in Args /\ Takes("info", number)
        /\ "BreakInfo" \in Types /\ number \in Int /\ FALSE \in BOOLEAN
    BY <2>1, <2>2, RowArgs, RowIs
  <2>4. AskInfo(g) = Post(g, "info", number, "BreakInfo", number, FALSE)
    BY <1>1, <1>3, <2>2 DEF AskInfo
  <2> QED
    BY <2>3, <2>4, Posted, Zenon
<1> QED
  BY <1>2, <1>3

(* The next row is to be inserted. *)
LEMMA InsertAsked == ASSUME NEW g \in Gui PROVE Quiet(g, AskInsert(g))
<1>1. PICK i : i = FirstUnset(g)
  OBVIOUS
<1>2. CASE i = 0
  BY <1>1, <1>2, QuietRefl DEF AskInsert
<1>3. CASE i # 0
  <2>1. i \in DOMAIN g.rows /\ i \in Int /\ Asked \in Int
    <3>1. i \in DOMAIN g.rows
      BY <1>1, <1>3, PlacesFound
    <3>2. i \in Nat
      BY <3>1, RowIs
    <3> QED
      BY <3>1, <3>2 DEF Asked
  <2>2. PICK loc, a : loc = g.rows[i].loc /\ a = SetNumber(g, i, Asked)
    OBVIOUS
  <2>3. /\ "insert" \in Kinds /\ loc \in Args /\ Takes("insert", loc)
        /\ "BreakInsert" \in Types
    BY <2>1, <2>2, RowArgs
  <2>4. Quiet(g, a) /\ a \in Gui
    BY <2>1, <2>2, NumberSet, QuietGui
  <2>5. AskInsert(g) = SendStopped(a, "insert", loc, "BreakInsert", i)
    BY <1>1, <1>3, <2>2 DEF AskInsert
  <2>6. Quiet(a, AskInsert(g))
    BY <2>1, <2>3, <2>4, <2>5, StoppedSent, Zenon
  <2> QED
    BY <2>4, <2>6, QuietThenQuiet
<1> QED
  BY <1>2, <1>3

(* The next condition or ignore count is to be set. *)
LEMMA ChangeAsked == ASSUME NEW g \in Gui PROVE Quiet(g, AskChange(g))
<1>1. PICK i : i = FirstDiffering(g)
  OBVIOUS
<1>2. CASE i = 0
  BY <1>1, <1>2, QuietRefl DEF AskChange
<1>3. CASE i # 0
  <2>1. i \in DOMAIN g.rows /\ i \in Int
    <3>1. i \in DOMAIN g.rows
      BY <1>1, <1>3, PlacesFound
    <3>2. i \in Nat
      BY <3>1, RowIs
    <3> QED
      BY <3>1, <3>2
  <2>2. PICK condition, count :
            /\ condition = [number |-> g.rows[i].number, text |-> g.rows[i].condition]
            /\ count = [number |-> g.rows[i].number, text |-> g.rows[i].ignoreCount]
    OBVIOUS
  <2>3. g.rows[i].condition \in Nat /\ g.rows[i].ignoreCount \in Nat
    BY <2>1, RowIs
  <2>4. /\ condition \in Args /\ Takes("condition", condition)
        /\ count \in Args /\ Takes("ignore", count)
        /\ "condition" \in Kinds /\ "ignore" \in Kinds
        /\ "BreakCondition" \in Types /\ "BreakIgnore" \in Types /\ FALSE \in BOOLEAN
    BY <2>1, <2>2, <2>3, RowArgs
  <2>5. AskChange(g) \in {Post(g, "condition", condition, "BreakCondition", i, FALSE),
                          Post(g, "ignore", count, "BreakIgnore", i, FALSE)}
    BY <1>1, <1>3, <2>2 DEF AskChange
  <2>6. Quiet(g, Post(g, "condition", condition, "BreakCondition", i, FALSE))
    BY <2>1, <2>4, Posted, Zenon
  <2>7. Quiet(g, Post(g, "ignore", count, "BreakIgnore", i, FALSE))
    BY <2>1, <2>4, Posted, Zenon
  <2> QED
    BY <2>5, <2>6, <2>7
<1> QED
  BY <1>2, <1>3

(* attemptBreakpointSynchronization. *)
LEMMA Synchronized ==
    ASSUME NEW g \in Gui
    PROVE  LET k == AttemptBreakpointSynchronization(g) IN Quiet(g, k) /\ k \in Gui
<1>1. PICK h : h = DeleteRemoved(g)
  OBVIOUS
<1>2. Quiet(g, h) /\ h \in Gui
  BY <1>1, DeletedQuietly, QuietGui
<1>3. PICK a : a = AskInfo(h)
  OBVIOUS
<1>4. Quiet(h, a) /\ a \in Gui
  BY <1>2, <1>3, InfoAsked, QuietGui
<1>5. /\ Quiet(h, AskInsert(a)) /\ Quiet(h, AskChange(h))
      /\ Quiet(h, NotifyStartupFinished(h)) /\ Quiet(h, h)
  BY <1>2, <1>4, InsertAsked, QuietThenQuiet, ChangeAsked, StartupEnds, QuietRefl
<1>6. AttemptBreakpointSynchronization(g)
         \in {AskInsert(a), AskChange(h), NotifyStartupFinished(h), h}
  BY <1>1, <1>3, Zenon DEF AttemptBreakpointSynchronization
<1>7. Quiet(h, AttemptBreakpointSynchronization(g))
  BY <1>5, <1>6
<1> QED
  BY <1>2, <1>7, QuietThenQuiet, QuietGui

(* breakpointDataFromOutput. *)
LEMMA DataTaken ==
    ASSUME NEW g \in Gui, NEW i, NEW data \in Seq(Entry)
    PROVE  LET h == TakeData(g, i, data) IN Quiet(g, h) /\ h \in Gui
<1>1. CASE data # <<>> /\ i \in DOMAIN g.rows
  <2>1. PICK b, row : b = data[1] /\ row = Told(g.rows[i], b)
    OBVIOUS
  <2>2. b \in Entry
    BY <1>1, <2>1
  <2>3. g.rows[i] \in TableRow
    BY <1>1, RowIs
  <2>4. row \in TableRow
    <3>1. PICK old, place : /\ old = g.rows[i]
                            /\ place = IF old.place = "known" \/ b.loc \notin Multiple
                                       THEN "known" ELSE "multiple"
      OBVIOUS
    <3>2. place \in Places
      BY <3>1 DEF Places
    <3>3. row = [old EXCEPT !.number = b.number, !.bpCondition = b.condition, !.place = place]
      BY <2>1, <3>1 DEF Told
    <3>4. b.number \in Int /\ b.condition \in Nat
      BY <2>2 DEF Entry
    <3> QED
      BY <2>3, <3>1, <3>2, <3>3, <3>4 DEF TableRow
  <2>5. TakeData(g, i, data) = [g EXCEPT !.rows = [g.rows EXCEPT ![i] = row]]
    BY <1>1, <2>1 DEF TakeData
  <2> QED
    BY <1>1, <2>4, <2>5, RowQuiet, QuietGui
<1>2. CASE ~(data # <<>> /\ i \in DOMAIN g.rows)
  BY <1>2, QuietRefl DEF TakeData
<1> QED
  BY <1>1, <1>2

(* What one line of the table preserves, the whole table preserves. *)
LEMMA WholeTable ==
    ASSUME NEW g \in Gui, NEW table \in Seq(Entry), NEW P \in SUBSET Gui, g \in P,
           \A a \in P : \A i \in DOMAIN table : TakeEntry(a, table[i]) \in P
    PROVE  TakeTable(g, table) \in P
<1> DEFINE N == Len(table)
           F == [i \in Nat |-> [a \in Gui |->
                    IF i \in 1..N THEN TakeEntry(a, table[i]) ELSE a]]
           taken[i \in 0..N] == IF i = 0 THEN g ELSE TakeEntry(taken[i - 1], table[i])
           IsTaken(f) == f = [i \in 0..N |-> IF i = 0 THEN g ELSE TakeEntry(f[i - 1], table[i])]
<1>1. N \in Nat /\ DOMAIN table = 1..N
  OBVIOUS
<1>2. TakeTable(g, table) = taken[N]
  BY Zenon DEF TakeTable
<1>3. ASSUME NEW a \in Gui, NEW i \in DOMAIN table PROVE TakeEntry(a, table[i]) \in Gui
  <2>1. table[i] \in Entry
    OBVIOUS
  <2>2. <<table[i]>> \in Seq(Entry)
    BY <2>1
  <2> QED
    BY <2>2, DataTaken, QuietGui DEF TakeEntry
<1> HIDE DEF N
<1>4. \E f : IsTaken(f)
  <2>1. F \in [Nat -> [Gui -> Gui]]
    BY <1>1, <1>3
  <2> HIDE DEF F
  <2>2. PICK f \in [0..N -> Gui] : Iterates(f, g, F, N)
    BY <1>1, <2>1, Iteration
  <2>3. f[0] = g /\ \A i \in 1..N : f[i] = F[i][f[i - 1]]
    BY <2>2 DEF Iterates
  <2>4. ASSUME NEW i \in 0..N, i # 0 PROVE f[i] = TakeEntry(f[i - 1], table[i])
    <3>1. i \in 1..N /\ i \in Nat /\ i - 1 \in 0..N
      BY <1>1, <2>4
    <3>2. f[i - 1] \in Gui
      BY <2>2, <3>1
    <3>3. F[i][f[i - 1]] = TakeEntry(f[i - 1], table[i])
      BY <3>1, <3>2 DEF F
    <3> QED
      BY <2>3, <3>1, <3>3
  <2>5. \A i \in 0..N : f[i] = IF i = 0 THEN g ELSE TakeEntry(f[i - 1], table[i])
    BY <2>3, <2>4
  <2>6. IsTaken(f)
    BY <2>2, <2>5
  <2> QED
    BY <2>6
<1>5. taken = CHOOSE f : IsTaken(f)
  BY DEF taken
<1> HIDE DEF taken, F
<1>6. IsTaken(taken)
  BY <1>4, <1>5
<1>7. \A i \in 0..N : taken[i] = IF i = 0 THEN g ELSE TakeEntry(taken[i - 1], table[i])
  BY <1>6
<1> DEFINE Q == {i \in Nat : i <= N => taken[i] \in P}
<1>8. 0 \in Q
  BY <1>1, <1>7
<1>9. ASSUME NEW i \in Nat, i < N, i \in Q PROVE i + 1 \in Q
  <2>1. taken[i] \in P /\ i + 1 \in 0..N /\ (i + 1) - 1 = i /\ i + 1 # 0 /\ i + 1 \in DOMAIN table
    BY <1>1, <1>9
  <2>2. taken[i + 1] = TakeEntry(taken[i], table[i + 1])
    BY <1>7, <2>1
  <2>3. taken[i + 1] \in P
    BY <2>1, <2>2
  <2> QED
    BY <2>3
<1>10. 0..N \subseteq Q
  BY <1>1, <1>8, <1>9, UpTo
<1>11. N \in 0..N
  BY <1>1
<1> QED
  BY <1>1, <1>2, <1>10, <1>11

(* handleBreakList. *)
LEMMA TableTaken ==
    ASSUME NEW g \in Gui, NEW table \in Seq(Entry)
    PROVE  LET h == TakeTable(g, table) IN Quiet(g, h) /\ h \in Gui
<1> DEFINE P == {a \in Gui : Quiet(g, a)}
<1>1. g \in P
  BY QuietRefl
<1>2. ASSUME NEW a \in P, NEW i \in DOMAIN table PROVE TakeEntry(a, table[i]) \in P
  <2>1. a \in Gui /\ Quiet(g, a)
    OBVIOUS
  <2>2. PICK b, n : b = table[i] /\ n = FindBreakpoint(a, table[i])
    OBVIOUS
  <2>3. b \in Entry
    BY <2>2
  <2>4. <<b>> \in Seq(Entry)
    BY <2>3
  <2>5. TakeEntry(a, table[i]) = TakeData(a, n, <<b>>)
    BY <2>2 DEF TakeEntry
  <2>6. Quiet(a, TakeEntry(a, table[i]))
    BY <2>1, <2>4, <2>5, DataTaken
  <2> QED
    BY <2>1, <2>6, QuietThenQuiet, QuietGui
<1>3. P \in SUBSET Gui
  OBVIOUS
<1> HIDE DEF P
<1>4. TakeTable(g, table) \in P
  BY <1>1, <1>2, <1>3, WholeTable
<1> QED
  BY <1>4 DEF P

-----------------------------------------------------------------------------
(* The channel, with what was written on its way to gdb.                   *)
Extends(g, q, h, qq) ==
    /\ h.process = g.process
    /\ h.token >= g.token
    /\ qq \in Seq(Command) /\ Len(qq) = Len(q) + (h.token - g.token)
    /\ \A i \in DOMAIN q : qq[i] = q[i]
    /\ \A i \in DOMAIN qq : i > Len(q) => qq[i].token = g.token + (i - Len(q))
    /\ DOMAIN h.cookies = DOMAIN g.cookies \cup g.token + 1..h.token
    /\ \A t \in DOMAIN g.cookies : h.cookies[t] = g.cookies[t]

IsResult(r) == r.record = "result"
TypeOf(g, x) == g.cookies[x.token].type

InOrder(from, q) ==
    /\ \A i, j \in DOMAIN q : i < j => q[i].token < q[j].token
    /\ \A i, j \in DOMAIN from : i < j /\ IsResult(from[i]) /\ IsResult(from[j]) =>
          from[i].token < from[j].token
    /\ \A i \in DOMAIN from : \A j \in DOMAIN q : IsResult(from[i]) => from[i].token < q[j].token

Channel(from, g, q) ==
    /\ \A i \in DOMAIN q : q[i].token \in DOMAIN g.cookies
    /\ \A i \in DOMAIN from : IsResult(from[i]) => from[i].token \in DOMAIN g.cookies
    /\ InOrder(from, q)

(* What is sent extends what is on its way. *)
LEMMA SendsExtends ==
    ASSUME NEW g \in Gui, NEW h, Sends(g, h), NEW q \in Seq(Command)
    PROVE  Extends(g, q \o g.out, h, q \o h.out) /\ q \o g.out \in Seq(Command)
<1>1. h \in Gui /\ g.out \in Seq(Command) /\ h.out \in Seq(Command)
  BY GuiFields DEF Sends, Fields
<1> DEFINE l == Len(q)
           m == Len(g.out)
           n == Len(h.out)
           a == q \o g.out
           b == q \o h.out
<1>2. /\ g.token \in Nat /\ h.token \in Nat /\ m \in Nat /\ n \in Nat /\ l \in Nat
      /\ DOMAIN g.out = 1..m /\ DOMAIN h.out = 1..n /\ DOMAIN q = 1..l
  BY <1>1, GuiNumbers
<1>3. /\ a \in Seq(Command) /\ Len(a) = l + m
      /\ \A i \in 1..l + m : a[i] = IF i <= l THEN q[i] ELSE g.out[i - l]
  BY <1>1, ConcatProperties
<1>4. /\ b \in Seq(Command) /\ Len(b) = l + n
      /\ \A i \in 1..l + n : b[i] = IF i <= l THEN q[i] ELSE h.out[i - l]
  BY <1>1, ConcatProperties
<1>5. n = m + (h.token - g.token) /\ h.token >= g.token
  BY DEF Sends
<1> HIDE DEF l, m, n, a, b
<1>6. DOMAIN a = 1..l + m /\ DOMAIN b = 1..l + n
  BY <1>3, <1>4
<1>7. Len(b) = Len(a) + (h.token - g.token)
  BY <1>2, <1>3, <1>4, <1>5
<1>8. ASSUME NEW i \in DOMAIN a PROVE b[i] = a[i]
  <2>1. i \in 1..l + m /\ i \in 1..l + n
    BY <1>2, <1>5, <1>6
  <2>2. CASE i <= l
    BY <1>3, <1>4, <2>1, <2>2
  <2>3. CASE i > l
    <3>1. i - l \in 1..m
      BY <1>2, <2>1, <2>3
    <3>2. h.out[i - l] = g.out[i - l]
      BY <1>2, <3>1 DEF Sends
    <3>3. a[i] = g.out[i - l] /\ b[i] = h.out[i - l]
      BY <1>2, <1>3, <1>4, <2>1, <2>3
    <3> QED
      BY <3>2, <3>3
  <2> QED
    BY <1>2, <2>1, <2>2, <2>3
<1>9. ASSUME NEW i \in DOMAIN b, i > Len(a)
      PROVE  b[i].token = g.token + (i - Len(a))
  <2> DEFINE j == i - l
  <2>1. i \in 1..l + n /\ i > l + m
    BY <1>3, <1>6, <1>9
  <2>2. j \in 1..n /\ j > m /\ b[i] = h.out[j]
    BY <1>2, <1>4, <2>1
  <2>3. i - Len(a) = j - m
    BY <1>2, <1>3, <2>1
  <2> HIDE DEF j
  <2>4. h.out[j].token = g.token + (j - m)
    BY <1>2, <2>2 DEF Sends, m
  <2> QED
    BY <2>2, <2>3, <2>4
<1>10. Extends(g, a, h, b)
  BY <1>4, <1>7, <1>8, <1>9 DEF Extends, Sends
<1> QED
  BY <1>3, <1>10 DEF a, b

(* What is written leaves the record. *)
Flushed(g) == [g EXCEPT !.out = <<>>, !.interrupt = FALSE]

SameState(g, h) ==
    /\ h.process = g.process /\ h.status = g.status /\ h.token = g.token
    /\ h.barrier = g.barrier /\ h.cookies = g.cookies

(* The record is otherwise the same. *)
LEMMA FlushedIs ==
    ASSUME NEW g \in Gui
    PROVE  /\ Flushed(g) \in Gui /\ SameState(g, Flushed(g))
           /\ Flushed(g).out = <<>> /\ Flushed(g).interrupt = FALSE
<1> DEFINE h == Flushed(g)
<1>1. g \in GuiRecord /\ DOMAIN g.cookies \subseteq 1..g.token /\ g.barrier \in -1..g.token
  BY DEF Gui
<1>2. <<>> \in Seq(Command)
  OBVIOUS
<1>3. h \in GuiRecord
  BY <1>1, <1>2 DEF GuiRecord, Flushed
<1>4. SameState(g, h) /\ h.out = <<>> /\ h.interrupt = FALSE
  BY <1>1 DEF GuiRecord, Flushed, SameState
<1>5. h \in Gui
  BY <1>1, <1>3, <1>4, GuiFrom DEF SameState
<1> QED
  BY <1>4, <1>5

(* So what is on its way is extended by what was sent. *)
LEMMA BecomesExtends ==
    ASSUME NEW g \in Gui, g.out = <<>>, NEW h, Sends(g, h), NEW q \in Seq(Command)
    PROVE  Extends(g, q, Flushed(h), q \o h.out)
<1>1. h \in Gui /\ q \o g.out = q
  BY DEF Sends
<1>2. Extends(g, q, h, q \o h.out)
  BY <1>1, SendsExtends
<1>3. SameState(h, Flushed(h))
  BY <1>1, FlushedIs
<1> QED
  BY <1>2, <1>3 DEF Extends, SameState

(* What Extends says of one command. *)
LEMMA ExtendedAt ==
    ASSUME NEW g \in Gui, NEW q \in Seq(Command), NEW h \in Gui, NEW qq, Extends(g, q, h, qq)
    PROVE  /\ qq \in Seq(Command)
           /\ \A i \in DOMAIN q : i \in DOMAIN qq /\ qq[i] = q[i]
           /\ \A i \in DOMAIN qq : \/ i \in DOMAIN q /\ qq[i] = q[i]
                                   \/ /\ i \notin DOMAIN q
                                      /\ qq[i].token \in g.token + 1..h.token
                                      /\ qq[i].token \in DOMAIN h.cookies
                                     
           /\ \A t \in g.token + 1..h.token : \E i \in DOMAIN qq : qq[i].token = t
           /\ \A i, j \in DOMAIN qq : i < j /\ j \notin DOMAIN q =>
                 \/ i \in DOMAIN q
                 \/ i \notin DOMAIN q /\ qq[i].token < qq[j].token
           /\ \A i, j \in DOMAIN qq : i \in DOMAIN q /\ j \notin DOMAIN q => i < j
           /\ \A i \in DOMAIN q : i \in Nat
           /\ \A i, j \in DOMAIN qq : i \in Nat /\ (i < j /\ j \in DOMAIN q => i \in DOMAIN q)
<1> DEFINE m == Len(q)
           n == Len(qq)
           d == h.token - g.token
<1>1. /\ qq \in Seq(Command) /\ m \in Nat /\ n \in Nat /\ d \in Nat /\ n = m + d
      /\ DOMAIN q = 1..m /\ DOMAIN qq = 1..n /\ g.token \in Nat /\ h.token = g.token + d
  <2>1. g.token \in Nat /\ h.token \in Nat
    BY GuiNumbers
  <2>2. qq \in Seq(Command) /\ h.token >= g.token /\ n = m + d
    BY DEF Extends
  <2>3. d \in Nat /\ h.token = g.token + d
    BY <2>1, <2>2
  <2> QED
    BY <2>1, <2>2, <2>3
<1>2. \A i \in DOMAIN q : qq[i] = q[i]
  BY DEF Extends
<1>3. \A i \in DOMAIN qq : i > m => qq[i].token = g.token + (i - m)
  BY DEF Extends
<1>4. g.token + 1..h.token \subseteq DOMAIN h.cookies
  BY DEF Extends
<1> HIDE DEF m, n, d
<1>5. ASSUME NEW i \in DOMAIN qq, i \notin DOMAIN q
      PROVE  i > m /\ qq[i].token \in g.token + 1..h.token
  <2>1. i > m /\ i <= m + d
    BY <1>1, <1>5
  <2>2. qq[i].token = g.token + (i - m)
    BY <1>3, <2>1
  <2> QED
    BY <1>1, <2>1, <2>2
<1>6. ASSUME NEW t \in g.token + 1..h.token
      PROVE  \E i \in DOMAIN qq : qq[i].token = t
  <2> DEFINE i == m + (t - g.token)
  <2>1. i \in DOMAIN qq /\ i > m /\ g.token + (i - m) = t
    BY <1>1
  <2> HIDE DEF i
  <2> QED
    BY <1>3, <2>1
<1>7. ASSUME NEW i \in DOMAIN qq, NEW j \in DOMAIN qq, i < j, j \notin DOMAIN q
      PROVE  \/ i \in DOMAIN q
             \/ i \notin DOMAIN q /\ qq[i].token < qq[j].token
  <2>1. CASE i \notin DOMAIN q
    <3>1. /\ qq[i].token = g.token + (i - m) /\ qq[j].token = g.token + (j - m)
      BY <1>3, <1>5, <1>7, <2>1
    <3> QED
      BY <1>1, <1>7, <2>1, <3>1
  <2> QED
    BY <2>1
<1>8. /\ \A i, j \in DOMAIN qq : i \in DOMAIN q /\ j \notin DOMAIN q => i < j
      /\ \A i \in DOMAIN q : i \in Nat /\ i \in DOMAIN qq
      /\ \A i, j \in DOMAIN qq : i \in Nat /\ (i < j /\ j \in DOMAIN q => i \in DOMAIN q)
  BY <1>1
<1>9. \A i \in DOMAIN qq : \/ i \in DOMAIN q /\ qq[i] = q[i]
                           \/ /\ i \notin DOMAIN q
                              /\ qq[i].token \in g.token + 1..h.token
                              /\ qq[i].token \in DOMAIN h.cookies
                             
  BY <1>2, <1>3, <1>4, <1>5
<1> QED
  BY <1>1, <1>2, <1>6, <1>7, <1>8, <1>9

(* Sending keeps the tokens in their order and known. *)
LEMMA ChannelKept ==
    ASSUME NEW g \in Gui, NEW q \in Seq(Command), NEW h \in Gui, NEW qq, Extends(g, q, h, qq),
           NEW from, Channel(from, g, q)
    PROVE  Channel(from, h, qq)
<1>1. /\ \A i \in DOMAIN q : i \in DOMAIN qq /\ qq[i] = q[i]
      /\ \A i \in DOMAIN qq : \/ i \in DOMAIN q /\ qq[i] = q[i]
                              \/ /\ i \notin DOMAIN q
                                 /\ qq[i].token \in g.token + 1..h.token
                                 /\ qq[i].token \in DOMAIN h.cookies
                                
      /\ \A i, j \in DOMAIN qq : i < j /\ j \notin DOMAIN q =>
                 \/ i \in DOMAIN q
                 \/ i \notin DOMAIN q /\ qq[i].token < qq[j].token
      /\ \A i, j \in DOMAIN qq : i \in Nat /\ (i < j /\ j \in DOMAIN q => i \in DOMAIN q)
  BY ExtendedAt
<1>2. /\ DOMAIN g.cookies \subseteq DOMAIN h.cookies
      /\ \A t \in DOMAIN g.cookies : h.cookies[t] = g.cookies[t]
  BY DEF Extends
<1>3. g.token \in Nat /\ h.token \in Nat /\ DOMAIN g.cookies \subseteq 1..g.token
  BY GuiNumbers
<1>4. \A t \in DOMAIN g.cookies : \A s \in g.token + 1..h.token : t < s
  BY <1>3
<1>5. /\ \A i \in DOMAIN q : q[i].token \in DOMAIN g.cookies
      /\ \A i \in DOMAIN from : IsResult(from[i]) => from[i].token \in DOMAIN g.cookies
  BY DEF Channel
<1>6. \A i \in DOMAIN qq : qq[i].token \in DOMAIN h.cookies
  BY <1>1, <1>2, <1>5
<1>7. \A i \in DOMAIN from : IsResult(from[i]) => from[i].token \in DOMAIN h.cookies
  BY <1>2, <1>5
<1>8. ASSUME NEW i \in DOMAIN qq, NEW j \in DOMAIN qq, i < j
      PROVE  qq[i].token < qq[j].token
  <2>1. CASE j \in DOMAIN q
    BY <1>1, <1>8, <2>1 DEF Channel, InOrder
  <2>2. CASE j \notin DOMAIN q /\ i \in DOMAIN q
    BY <1>1, <1>4, <1>5, <2>2
  <2>3. CASE j \notin DOMAIN q /\ i \notin DOMAIN q
    BY <1>1, <1>8, <2>3
  <2> QED
    BY <2>1, <2>2, <2>3
<1>9. ASSUME NEW i \in DOMAIN from, NEW j \in DOMAIN qq, IsResult(from[i])
      PROVE  from[i].token < qq[j].token
  <2>1. CASE j \in DOMAIN q
    BY <1>1, <1>9, <2>1 DEF Channel, InOrder
  <2>2. CASE j \notin DOMAIN q
    BY <1>1, <1>4, <1>5, <1>9, <2>2
  <2> QED
    BY <2>1, <2>2
<1>10. InOrder(from, qq)
  BY <1>8, <1>9 DEF Channel, InOrder
<1> QED
  BY <1>6, <1>7, <1>10 DEF Channel

(* The elements of a sequence after Append. *)
LEMMA Appended ==
    ASSUME NEW S, NEW s \in Seq(S), NEW e \in S
    PROVE  LET t == Append(s, e)
           IN  /\ t \in Seq(S) /\ Len(s) + 1 \in DOMAIN t /\ t[Len(s) + 1] = e
               /\ Len(s) \in Nat /\ DOMAIN s = 1..Len(s)
               /\ \A i \in DOMAIN s : i \in DOMAIN t /\ t[i] = s[i] /\ i < Len(s) + 1
               /\ \A i \in DOMAIN t : (i \in DOMAIN s /\ t[i] = s[i]) \/ (i = Len(s) + 1 /\ t[i] = e)
<1>1. Append(s, e) \in Seq(S) /\ Len(Append(s, e)) = Len(s) + 1 /\ Len(s) \in Nat
  OBVIOUS
<1>2. DOMAIN s = 1..Len(s) /\ DOMAIN Append(s, e) = 1..Len(s) + 1
  BY <1>1
<1>3. Append(s, e)[Len(s) + 1] = e /\ \A i \in 1..Len(s) : Append(s, e)[i] = s[i]
  OBVIOUS
<1> QED
  BY <1>1, <1>2, <1>3

(* The elements of a sequence after Tail. *)
LEMMA Tailed ==
    ASSUME NEW S, NEW s \in Seq(S), s # <<>>
    PROVE  LET t == Tail(s)
           IN  /\ t \in Seq(S) /\ 1 \in DOMAIN s /\ Head(s) = s[1] /\ Head(s) \in S
               /\ \A i \in DOMAIN t : i + 1 \in DOMAIN s /\ t[i] = s[i + 1] /\ i \in Nat /\ i # 0
               /\ \A i \in DOMAIN s : i = 1 \/ (i - 1 \in DOMAIN t /\ t[i - 1] = s[i] /\ i > 1 /\ i \in Nat)
<1>1. Tail(s) \in Seq(S) /\ Len(Tail(s)) = Len(s) - 1 /\ Len(s) \in Nat /\ Len(s) > 0
  OBVIOUS
<1>2. DOMAIN s = 1..Len(s) /\ DOMAIN Tail(s) = 1..Len(s) - 1
  BY <1>1
<1>3. \A i \in 1..Len(s) - 1 : Tail(s)[i] = s[i + 1]
  OBVIOUS
<1>4. Head(s) = s[1] /\ 1 \in DOMAIN s
  BY <1>1, <1>2
<1>5. \A i \in DOMAIN s : i = 1 \/ (i - 1 \in DOMAIN Tail(s) /\ i > 1 /\ i \in Nat /\ (i - 1) + 1 = i)
  BY <1>1, <1>2
<1>6. \A i \in DOMAIN Tail(s) : i + 1 \in DOMAIN s /\ i \in Nat /\ i # 0
  BY <1>1, <1>2
<1>7. Head(s) \in S
  BY <1>4
<1> QED
  BY <1>1, <1>2, <1>3, <1>4, <1>5, <1>6, <1>7

-----------------------------------------------------------------------------
(* What the status says of gdb. *)
LiveIn(m, g, q) ==
    m.alive /\ g.process = "running" /\ \A i \in DOMAIN q : q[i].kind # "exit"

StopComes(g, x) == TypeOf(g, x) = "AsyncOutput2" /\ x.token >= g.barrier

RunningInv(m, from, g, q) ==
    LiveIn(m, g, q) /\ g.status = "running" =>
        \/ m.inferior = "running"
        \/ \E i \in DOMAIN from : from[i].record = "stopped"
        \/ \E i \in DOMAIN from : IsResult(from[i]) /\ StopComes(g, from[i])
        \/ \E i \in DOMAIN q : StopComes(g, q[i])

ResumedInv(m, from, g, q) ==
    LiveIn(m, g, q) =>
        \A i \in DOMAIN from : IsResult(from[i]) /\ from[i].class = "running" =>
            m.inferior = "running" \/ \E j \in DOMAIN from : j > i /\ from[j].record = "stopped"

SameProcess(m, mm) ==
    /\ mm.alive = m.alive /\ mm.inferior = m.inferior
    /\ mm.table = m.table /\ mm.next = m.next

(* A gdb that is alive and not told to end was so before. *)
LEMMA LiveBefore ==
    ASSUME NEW g \in Gui, NEW q \in Seq(Command), NEW h \in Gui, NEW qq, Extends(g, q, h, qq),
           NEW m, NEW mm, SameProcess(m, mm), LiveIn(mm, h, qq)
    PROVE  LiveIn(m, g, q)
<1>1. \A i \in DOMAIN q : i \in DOMAIN qq /\ qq[i] = q[i]
  BY ExtendedAt
<1> QED
  BY <1>1 DEF LiveIn, Extends, SameProcess

(* A stop that is to come with an answer stays so unless the barrier       *)
(* rises.                                                                  *)
LEMMA StopComesStill ==
    ASSUME NEW g \in Gui, NEW q, NEW h \in Gui, NEW qq, Extends(g, q, h, qq),
           NEW x, x.token \in DOMAIN g.cookies
    PROVE  /\ h.barrier = g.barrier /\ StopComes(g, x) => StopComes(h, x)
           /\ h.barrier >= g.barrier /\ StopComes(h, x) => StopComes(g, x)
<1>1. TypeOf(h, x) = TypeOf(g, x)
  BY DEF Extends, TypeOf
<1>2. x.token \in Nat /\ g.barrier \in Int /\ h.barrier \in Int
  BY GuiNumbers, CookieOf
<1> QED
  BY <1>1, <1>2 DEF StopComes

(* Sending keeps the truth about "running". *)
LEMMA RunningKept ==
    ASSUME NEW g \in Gui, NEW q \in Seq(Command), NEW h \in Gui, NEW qq, Extends(g, q, h, qq),
           NEW from, Channel(from, g, q),
           NEW m, NEW mm, SameProcess(m, mm),
           h.status = "running" => g.status = "running" /\ h.barrier = g.barrier,
           RunningInv(m, from, g, q)
    PROVE  RunningInv(mm, from, h, qq)
<1> SUFFICES ASSUME LiveIn(mm, h, qq), h.status = "running"
             PROVE  \/ mm.inferior = "running"
                    \/ \E i \in DOMAIN from : from[i].record = "stopped"
                    \/ \E i \in DOMAIN from : IsResult(from[i]) /\ StopComes(h, from[i])
                    \/ \E i \in DOMAIN qq : StopComes(h, qq[i])
  BY DEF RunningInv
<1>1. LiveIn(m, g, q) /\ g.status = "running" /\ h.barrier = g.barrier
  BY LiveBefore
<1>2. \A i \in DOMAIN q : i \in DOMAIN qq /\ qq[i] = q[i]
  BY ExtendedAt
<1>3. /\ \A i \in DOMAIN q : q[i].token \in DOMAIN g.cookies
      /\ \A i \in DOMAIN from : IsResult(from[i]) => from[i].token \in DOMAIN g.cookies
  BY DEF Channel
<1>4. CASE m.inferior = "running"
  BY <1>4 DEF SameProcess
<1>5. CASE \E i \in DOMAIN from : from[i].record = "stopped"
  BY <1>5
<1>6. CASE \E i \in DOMAIN from : IsResult(from[i]) /\ StopComes(g, from[i])
  BY <1>1, <1>3, <1>6, StopComesStill
<1>7. CASE \E i \in DOMAIN q : StopComes(g, q[i])
  BY <1>1, <1>2, <1>3, <1>7, StopComesStill
<1> QED
  BY <1>1, <1>4, <1>5, <1>6, <1>7 DEF RunningInv

(* Sending keeps what an answer "running" says. *)
LEMMA ResumedKept ==
    ASSUME NEW g \in Gui, NEW q \in Seq(Command), NEW h \in Gui, NEW qq, Extends(g, q, h, qq),
           NEW from, NEW m, NEW mm, SameProcess(m, mm), ResumedInv(m, from, g, q)
    PROVE  ResumedInv(mm, from, h, qq)
<1>1. LiveIn(mm, h, qq) => LiveIn(m, g, q)
  BY LiveBefore
<1> QED
  BY <1>1 DEF ResumedInv, SameProcess

-----------------------------------------------------------------------------
(* The channel is as it should be. *)
Base(m, from, g, q) ==
    /\ m \in GdbType /\ from \in Seq(Record) /\ g \in Gui /\ q \in Seq(Command)
    /\ g.out = <<>> /\ ~g.interrupt
    /\ Channel(from, g, q)

(* And so is the status. *)
Rest(m, from, g, q) == RunningInv(m, from, g, q) /\ ResumedInv(m, from, g, q)

(* Whatever is sent, the channel stays so, and no answer "running" is new. *)
LEMMA SendsStep ==
    ASSUME NEW m, NEW from, NEW g, NEW q, Base(m, from, g, q),
           NEW h, Sends(g, h), NEW mm \in GdbType, SameProcess(m, mm)
    PROVE  /\ Base(mm, from, Flushed(h), q \o h.out)
           /\ ResumedInv(m, from, g, q) => ResumedInv(mm, from, Flushed(h), q \o h.out)
           /\ LiveIn(mm, Flushed(h), q \o h.out) => LiveIn(m, g, q)
           /\ Extends(g, q, Flushed(h), q \o h.out)
<1>1. PICK f, qq : f = Flushed(h) /\ qq = q \o h.out
  OBVIOUS
<1>2. from \in Seq(Record) /\ g \in Gui /\ q \in Seq(Command) /\ g.out = <<>> /\ Channel(from, g, q)
  BY DEF Base
<1>3. h \in Gui
  BY DEF Sends
<1>4. f \in Gui /\ f.out = <<>> /\ f.interrupt = FALSE
  BY <1>1, <1>3, FlushedIs
<1>5. Extends(g, q, f, qq)
  BY <1>1, <1>2, BecomesExtends
<1>6. Channel(from, f, qq) /\ qq \in Seq(Command)
  BY <1>2, <1>4, <1>5, ChannelKept DEF Extends
<1>7. Base(mm, from, f, qq)
  BY <1>2, <1>4, <1>6 DEF Base
<1>8. ResumedInv(m, from, g, q) => ResumedInv(mm, from, f, qq)
  BY <1>2, <1>4, <1>5, ResumedKept
<1>9. LiveIn(mm, f, qq) => LiveIn(m, g, q)
  BY <1>2, <1>4, <1>5, LiveBefore
<1> QED
  BY <1>1, <1>5, <1>7, <1>8, <1>9

(* A quiet step of the GUI thread keeps the invariant. *)
LEMMA QuietStep ==
    ASSUME NEW m, NEW from, NEW g, NEW q, Base(m, from, g, q),
           NEW h, Quiet(g, h), NEW mm \in GdbType, SameProcess(m, mm)
    PROVE  /\ Base(mm, from, Flushed(h), q \o h.out)
           /\ Rest(m, from, g, q) => Rest(mm, from, Flushed(h), q \o h.out)
<1>1. PICK f, qq : f = Flushed(h) /\ qq = q \o h.out
  OBVIOUS
<1>2. /\ Base(mm, from, f, qq) /\ Extends(g, q, f, qq)
      /\ ResumedInv(m, from, g, q) => ResumedInv(mm, from, f, qq)
  BY <1>1, SendsStep DEF Quiet
<1>3. g \in Gui /\ q \in Seq(Command) /\ Channel(from, g, q) /\ f \in Gui
  BY <1>2 DEF Base
<1>4. f.status = h.status /\ f.barrier = h.barrier
  BY <1>1, QuietGui, FlushedIs DEF SameState
<1>5. f.status = "running" => g.status = "running" /\ f.barrier = g.barrier
  BY <1>4 DEF Quiet
<1>6. RunningInv(m, from, g, q) => RunningInv(mm, from, f, qq)
  BY <1>2, <1>3, <1>5, RunningKept
<1> QED
  BY <1>1, <1>2, <1>6 DEF Rest

(* What Becomes does to the variables. *)
LEMMA BecomesIs ==
    ASSUME Base(gdb, fromGdb, gui, toGdb), NEW h \in Gui, Becomes(h)
    PROVE  /\ gui' = Flushed(h) /\ toGdb' = toGdb \o h.out
           /\ gdb' \in GdbType /\ SameProcess(gdb, gdb')
<1>1. gdb \in GdbType
  BY DEF Base
<1>2. h.interrupt \in BOOLEAN
  BY GuiFields DEF Fields
<1>3. gdb' = [gdb EXCEPT !.sigint = @ \/ h.interrupt]
  BY DEF Becomes
<1>4. gdb' \in GdbType
  BY <1>1, <1>2, <1>3 DEF GdbType
<1>5. SameProcess(gdb, gdb')
  BY <1>1, <1>3 DEF GdbType, SameProcess
<1> QED
  BY <1>4, <1>5 DEF Becomes, Flushed

(* m_cookieForToken.take: one entry less, and no other change. *)
LEMMA CookieTaken ==
    ASSUME NEW g \in Gui, NEW t \in Nat
    PROVE  LET h == TakeCookie(g, t)
           IN  /\ h \in Gui /\ h.process = g.process /\ h.status = g.status
               /\ h.token = g.token /\ h.barrier = g.barrier
               /\ h.out = g.out /\ h.interrupt = g.interrupt
               /\ DOMAIN h.cookies = DOMAIN g.cookies \ {t}
               /\ \A u \in DOMAIN h.cookies : h.cookies[u] = g.cookies[u]
<1> DEFINE c == [u \in DOMAIN g.cookies \ {t} |-> g.cookies[u]]
           h == [g EXCEPT !.cookies = c]
<1>1. g \in GuiRecord /\ Fields(g)
  BY GuiFields
<1>2. TakeCookie(g, t) = h
  BY DEF TakeCookie
<1>3. c \in Cookies
  <2>1. PICK S \in SUBSET Nat : g.cookies \in [S -> Cookie]
    BY <1>1, CookiesFun DEF Fields
  <2>2. c \in [S \ {t} -> Cookie] /\ S \ {t} \in SUBSET Nat
    BY <2>1
  <2> QED
    BY <2>2, CookiesFun
<1>4. DOMAIN c = DOMAIN g.cookies \ {t} /\ \A u \in DOMAIN c : c[u] = g.cookies[u]
  OBVIOUS
<1> HIDE DEF c
<1>5. h \in GuiRecord
  BY <1>1, <1>3 DEF GuiRecord
<1>6. /\ h.cookies = c /\ h.process = g.process /\ h.status = g.status
      /\ h.token = g.token /\ h.barrier = g.barrier
      /\ h.out = g.out /\ h.interrupt = g.interrupt
  BY <1>1 DEF GuiRecord
<1>7. h \in Gui
  BY <1>1, <1>4, <1>5, <1>6, GuiFrom DEF Fields
<1> QED
  BY <1>2, <1>4, <1>6, <1>7

(* The oldest answer is taken from the pipe, and its command forgotten. *)
LEMMA ResultTaken ==
    ASSUME NEW m, NEW from, NEW g, NEW q, Base(m, from, g, q), from # <<>>,
           IsResult(Head(from))
    PROVE  LET r == Head(from)
               h == TakeCookie(g, r.token)
           IN  /\ r \in Record /\ r.token \in DOMAIN g.cookies
               /\ Base(m, Tail(from), h, q)
<1> DEFINE r == Head(from)
           t == r.token
           h == TakeCookie(g, t)
           tail == Tail(from)
<1>1. /\ m \in GdbType /\ from \in Seq(Record) /\ g \in Gui /\ q \in Seq(Command)
      /\ g.out = <<>> /\ ~g.interrupt /\ Channel(from, g, q)
  BY DEF Base
<1>2. /\ tail \in Seq(Record) /\ 1 \in DOMAIN from /\ r = from[1] /\ r \in Record
      /\ \A i \in DOMAIN tail : i + 1 \in DOMAIN from /\ tail[i] = from[i + 1] /\ i \in Nat /\ i # 0
      /\ \A i \in DOMAIN from : i = 1 \/ (i - 1 \in DOMAIN tail /\ tail[i - 1] = from[i] /\ i > 1 /\ i \in Nat)
  BY <1>1, Tailed
<1>3. t \in Nat /\ t \in DOMAIN g.cookies
  BY <1>1, <1>2 DEF Record, Channel
<1>4. /\ h \in Gui /\ h.out = g.out /\ h.interrupt = g.interrupt
      /\ DOMAIN h.cookies = DOMAIN g.cookies \ {t}
      /\ \A u \in DOMAIN h.cookies : h.cookies[u] = g.cookies[u]
  BY <1>1, <1>3, CookieTaken
<1> HIDE DEF r, h, tail
<1>5. /\ \A i \in DOMAIN from : from[i].token \in Nat
      /\ \A i \in DOMAIN q : q[i].token \in Nat
  <2>1. \A i \in DOMAIN from : from[i] \in Record
    BY <1>1
  <2>2. \A i \in DOMAIN q : q[i] \in Command
    BY <1>1
  <2> QED
    BY <2>1, <2>2 DEF Record, Command
<1>6. \A i \in DOMAIN tail : IsResult(tail[i]) => t < tail[i].token
  <2> SUFFICES ASSUME NEW i \in DOMAIN tail, IsResult(tail[i]) PROVE t < tail[i].token
    OBVIOUS
  <2>1. i + 1 \in DOMAIN from /\ tail[i] = from[i + 1] /\ 1 < i + 1
    BY <1>2
  <2> QED
    BY <1>1, <1>2, <2>1 DEF Channel, InOrder, r
<1>7. \A i \in DOMAIN q : t < q[i].token
  BY <1>1, <1>2 DEF Channel, InOrder, r
<1>9. Channel(tail, h, q)
  <2>1. \A i \in DOMAIN q : q[i].token \in DOMAIN h.cookies
    <3> SUFFICES ASSUME NEW i \in DOMAIN q
                 PROVE  q[i].token \in DOMAIN h.cookies
      OBVIOUS
    <3>1. q[i].token \in DOMAIN g.cookies
      BY <1>1 DEF Channel
    <3>2. q[i].token \in DOMAIN h.cookies
      BY <1>3, <1>4, <1>5, <1>7, <3>1
    <3> QED
      BY <3>2
  <2>2. \A i \in DOMAIN tail : IsResult(tail[i]) => tail[i].token \in DOMAIN h.cookies
    <3> SUFFICES ASSUME NEW i \in DOMAIN tail, IsResult(tail[i])
                 PROVE  tail[i].token \in DOMAIN h.cookies
      OBVIOUS
    <3>1. i + 1 \in DOMAIN from /\ tail[i] = from[i + 1]
      BY <1>2
    <3>2. tail[i].token \in DOMAIN g.cookies /\ tail[i].token \in Nat /\ t < tail[i].token
      BY <1>1, <1>5, <1>6, <3>1 DEF Channel
    <3> QED
      BY <1>3, <1>4, <3>2
  <2>3. InOrder(tail, q)
    <3>1. ASSUME NEW i \in DOMAIN tail, NEW j \in DOMAIN tail, i < j,
                 IsResult(tail[i]), IsResult(tail[j])
          PROVE  tail[i].token < tail[j].token
      <4>1. /\ i + 1 \in DOMAIN from /\ tail[i] = from[i + 1] /\ j + 1 \in DOMAIN from
            /\ tail[j] = from[j + 1] /\ i + 1 < j + 1
        BY <1>2, <3>1
      <4> QED
        BY <1>1, <3>1, <4>1 DEF Channel, InOrder
    <3>2. ASSUME NEW i \in DOMAIN tail, NEW j \in DOMAIN q, IsResult(tail[i])
          PROVE  tail[i].token < q[j].token
      <4>1. i + 1 \in DOMAIN from /\ tail[i] = from[i + 1]
        BY <1>2
      <4> QED
        BY <1>1, <3>2, <4>1 DEF Channel, InOrder
    <3> QED
      BY <1>1, <3>1, <3>2 DEF Channel, InOrder
  <2> QED
    BY <2>1, <2>2, <2>3 DEF Channel
<1>11. Base(m, tail, h, q)
  BY <1>1, <1>2, <1>4, <1>9 DEF Base
<1> QED
  BY <1>2, <1>3, <1>11 DEF r, h, tail

(* So is a *stopped record. *)
LEMMA StopTaken ==
    ASSUME NEW m, NEW from, NEW g, NEW q, Base(m, from, g, q), from # <<>>,
           ~IsResult(Head(from))
    PROVE  /\ Head(from) \in Record
           /\ Base(m, Tail(from), g, q)
<1> DEFINE r == Head(from)
           tail == Tail(from)
<1>1. /\ m \in GdbType /\ from \in Seq(Record) /\ g \in Gui /\ q \in Seq(Command)
      /\ g.out = <<>> /\ ~g.interrupt /\ Channel(from, g, q)
  BY DEF Base
<1>2. /\ tail \in Seq(Record) /\ 1 \in DOMAIN from /\ r = from[1] /\ r \in Record
      /\ \A i \in DOMAIN tail : i + 1 \in DOMAIN from /\ tail[i] = from[i + 1] /\ i \in Nat /\ i # 0
      /\ \A i \in DOMAIN from : i = 1 \/ (i - 1 \in DOMAIN tail /\ tail[i - 1] = from[i] /\ i > 1 /\ i \in Nat)
  BY <1>1, Tailed
<1> HIDE DEF r, tail
<1>3. Channel(tail, g, q)
  <2>1. \A i \in DOMAIN tail : IsResult(tail[i]) => tail[i].token \in DOMAIN g.cookies
    BY <1>1, <1>2 DEF Channel
  <2>2. ASSUME NEW i \in DOMAIN tail, NEW j \in DOMAIN tail, i < j,
               IsResult(tail[i]), IsResult(tail[j])
        PROVE  tail[i].token < tail[j].token
    <3>1. /\ i + 1 \in DOMAIN from /\ tail[i] = from[i + 1] /\ j + 1 \in DOMAIN from
          /\ tail[j] = from[j + 1] /\ i + 1 < j + 1
      BY <1>2, <2>2
    <3> QED
      BY <1>1, <2>2, <3>1 DEF Channel, InOrder
  <2>3. ASSUME NEW i \in DOMAIN tail, NEW j \in DOMAIN q, IsResult(tail[i])
        PROVE  tail[i].token < q[j].token
    BY <1>1, <1>2, <2>3 DEF Channel, InOrder
  <2> QED
    BY <1>1, <2>1, <2>2, <2>3 DEF Channel, InOrder
<1> QED
  BY <1>1, <1>2, <1>3 DEF Base, r, tail

(* A record less in the pipe, and what "running" says still holds of the   *)
(* others.                                                                 *)
LEMMA ResumedTaken ==
    ASSUME NEW m, NEW from \in Seq(Record), from # <<>>, NEW g, NEW q, NEW h,
           h.process = g.process, ResumedInv(m, from, g, q)
    PROVE  /\ ResumedInv(m, Tail(from), h, q)
           /\ LiveIn(m, h, q) /\ IsResult(Head(from)) /\ Head(from).class = "running" =>
                 \/ m.inferior = "running"
                 \/ \E j \in DOMAIN Tail(from) : Tail(from)[j].record = "stopped"
<1> DEFINE tail == Tail(from)
<1>1. LiveIn(m, h, q) => LiveIn(m, g, q)
  BY DEF LiveIn
<1>2. /\ 1 \in DOMAIN from /\ Head(from) = from[1]
      /\ \A i \in DOMAIN tail : i + 1 \in DOMAIN from /\ tail[i] = from[i + 1] /\ i \in Nat /\ i # 0
      /\ \A i \in DOMAIN from : i = 1 \/ (i - 1 \in DOMAIN tail /\ tail[i - 1] = from[i] /\ i > 1 /\ i \in Nat)
  BY Tailed
<1> HIDE DEF tail
<1>3. ASSUME LiveIn(m, g, q), NEW i \in DOMAIN tail, IsResult(tail[i]), tail[i].class = "running",
             m.inferior # "running"
      PROVE  \E j \in DOMAIN tail : j > i /\ tail[j].record = "stopped"
  <2>1. i + 1 \in DOMAIN from /\ tail[i] = from[i + 1] /\ i \in Nat
    BY <1>2, <1>3
  <2>2. PICK j \in DOMAIN from : j > i + 1 /\ from[j].record = "stopped"
    BY <1>3, <2>1 DEF ResumedInv
  <2>3. j # 1
    BY <2>1, <2>2
  <2>4. j - 1 \in DOMAIN tail /\ tail[j - 1] = from[j] /\ j \in Nat /\ j - 1 > i
    BY <1>2, <2>1, <2>2, <2>3
  <2> QED
    BY <2>2, <2>4
<1>4. ASSUME LiveIn(m, g, q), IsResult(Head(from)), Head(from).class = "running",
             m.inferior # "running"
      PROVE  \E j \in DOMAIN tail : tail[j].record = "stopped"
  <2>1. PICK j \in DOMAIN from : j > 1 /\ from[j].record = "stopped"
    BY <1>2, <1>4 DEF ResumedInv
  <2>2. j - 1 \in DOMAIN tail /\ tail[j - 1] = from[j]
    BY <1>2, <2>1
  <2> QED
    BY <2>1, <2>2
<1>5. ResumedInv(m, tail, h, q)
  BY <1>1, <1>3 DEF ResumedInv
<1> QED
  BY <1>1, <1>4, <1>5 DEF tail

(* An answer leaves the pipe, and the status is as true as it was, unless  *)
(* the stop was known by it.                                               *)
LEMMA ResultPopped ==
    ASSUME NEW m, NEW from, NEW g, NEW q, Base(m, from, g, q), from # <<>>,
           IsResult(Head(from)), Rest(m, from, g, q)
    PROVE  LET r == Head(from)
               h == TakeCookie(g, r.token)
               tail == Tail(from)
           IN  /\ ResumedInv(m, tail, h, q)
               /\ ~StopComes(g, r) => RunningInv(m, tail, h, q)
               /\ LiveIn(m, h, q) /\ r.class = "running" =>
                     m.inferior = "running" \/ \E j \in DOMAIN tail : tail[j].record = "stopped"
<1>1. /\ from \in Seq(Record) /\ g \in Gui /\ q \in Seq(Command)
  BY DEF Base
<1>2. PICK r, t, h, tail : /\ r = Head(from) /\ t = r.token /\ h = TakeCookie(g, t)
                           /\ tail = Tail(from)
  OBVIOUS
<1>3. r \in Record /\ t \in DOMAIN g.cookies /\ Base(m, tail, h, q) /\ t \in Nat
  BY <1>2, ResultTaken DEF Record
<1>4. Channel(tail, h, q)
  BY <1>3 DEF Base
<1>5. /\ h.process = g.process /\ h.status = g.status /\ h.barrier = g.barrier
      /\ DOMAIN h.cookies = DOMAIN g.cookies \ {t}
      /\ \A u \in DOMAIN h.cookies : h.cookies[u] = g.cookies[u]
  BY <1>1, <1>2, <1>3, CookieTaken
<1>6. RunningInv(m, from, g, q) /\ ResumedInv(m, from, g, q)
  BY DEF Rest
<1>7. /\ ResumedInv(m, tail, h, q)
      /\ LiveIn(m, h, q) /\ r.class = "running" =>
            m.inferior = "running" \/ \E j \in DOMAIN tail : tail[j].record = "stopped"
  BY <1>1, <1>2, <1>5, <1>6, ResumedTaken
<1>8. /\ 1 \in DOMAIN from /\ r = from[1]
      /\ \A i \in DOMAIN from : i = 1 \/ (i - 1 \in DOMAIN tail /\ tail[i - 1] = from[i])
  BY <1>1, <1>2, Tailed
<1>9. /\ \A i \in DOMAIN q : q[i].token \in DOMAIN h.cookies
      /\ \A i \in DOMAIN tail : IsResult(tail[i]) => tail[i].token \in DOMAIN h.cookies
  BY <1>4 DEF Channel
<1>10. \A x : x.token \in DOMAIN h.cookies => (StopComes(h, x) <=> StopComes(g, x))
  BY <1>5 DEF StopComes, TypeOf
<1>11. ASSUME ~StopComes(g, r) PROVE RunningInv(m, tail, h, q)
  <2> SUFFICES ASSUME LiveIn(m, h, q), h.status = "running"
               PROVE  \/ m.inferior = "running"
                      \/ \E i \in DOMAIN tail : tail[i].record = "stopped"
                      \/ \E i \in DOMAIN tail : IsResult(tail[i]) /\ StopComes(h, tail[i])
                      \/ \E i \in DOMAIN q : StopComes(h, q[i])
    BY DEF RunningInv
  <2>1. LiveIn(m, g, q) /\ g.status = "running"
    BY <1>5 DEF LiveIn
  <2>2. CASE m.inferior = "running"
    BY <2>2
  <2>3. CASE \E i \in DOMAIN from : from[i].record = "stopped"
    <3>1. PICK i \in DOMAIN from : from[i].record = "stopped"
      BY <2>3
    <3>2. i # 1
      BY <1>2, <1>8, <3>1 DEF IsResult
    <3> QED
      BY <1>8, <3>1, <3>2
  <2>4. CASE \E i \in DOMAIN from : IsResult(from[i]) /\ StopComes(g, from[i])
    <3>1. PICK i \in DOMAIN from : IsResult(from[i]) /\ StopComes(g, from[i])
      BY <2>4
    <3>2. i # 1
      BY <1>8, <1>11, <3>1
    <3> QED
      BY <1>8, <1>9, <1>10, <3>1, <3>2
  <2>5. CASE \E i \in DOMAIN q : StopComes(g, q[i])
    BY <1>9, <1>10, <2>5
  <2> QED
    BY <1>6, <2>1, <2>2, <2>3, <2>4, <2>5 DEF RunningInv
<1> QED
  BY <1>2, <1>7, <1>11
-----------------------------------------------------------------------------
(* The records of gdb are handled.  A null pointer is used. *)
LEMMA Faulted == ASSUME NEW g \in Gui PROVE Quiet(g, [g EXCEPT !.fault = TRUE])
<1>1. PICK h : h = [g EXCEPT !.fault = TRUE]
  OBVIOUS
<1>2. g \in GuiRecord
  BY GuiFields
<1>3. h \in GuiRecord /\ SameChannel(g, h) /\ h.barrier = g.barrier /\ h.status = g.status
  BY <1>1, <1>2 DEF GuiRecord, SameChannel
<1> QED
  BY <1>1, <1>3, QuietFields

(* The debugger is left: only the table of breakpoints, the status and the *)
(* wait for gdb change.                                                    *)
LEMMA Finished ==
    ASSUME NEW g \in Gui
    PROVE  LET h == FinishExit(g)
           IN  /\ Quiet(g, h) /\ SameChannel(g, h)
               /\ h.interrupt = g.interrupt /\ h.status = "notReady"
<1>1. PICK rows : rows = [i \in DOMAIN g.stored |-> Row(g.stored[i])]
  OBVIOUS
<1>2. ASSUME NEW i \in DOMAIN g.stored PROVE Row(g.stored[i]) \in TableRow
  <2>1. g.stored[i] \in WishRow
    BY GuiSequences
  <2> QED
    BY <2>1 DEF Row, WishRow, TableRow, Unset, Empty, Places
<1>3. rows \in [1..Len(g.stored) -> TableRow] /\ Len(g.stored) \in Nat
  BY <1>1, <1>2, GuiSequences
<1>4. rows \in Seq(TableRow)
  BY <1>3
<1>5. PICK h : h = [g EXCEPT !.rows = rows, !.status = "notReady", !.exiting = FALSE]
  OBVIOUS
<1>6. FinishExit(g) = h
  <2>1. PICK a : a = SetAllPending(g)
    OBVIOUS
  <2>2. a = [g EXCEPT !.rows = rows]
    BY <1>1, <2>1 DEF SetAllPending
  <2>3. FinishExit(g) = [a EXCEPT !.status = "notReady", !.exiting = FALSE]
    BY <2>1 DEF FinishExit
  <2> QED
    BY <1>5, <2>2, <2>3
<1>7. g \in GuiRecord
  BY GuiFields
<1>8. h \in GuiRecord
  BY <1>4, <1>5, <1>7 DEF GuiRecord, Status
<1>9. /\ SameChannel(g, h) /\ h.barrier = g.barrier
      /\ h.interrupt = g.interrupt /\ h.status = "notReady"
  BY <1>5, <1>7 DEF GuiRecord, SameChannel
<1>10. Quiet(g, h)
  BY <1>8, <1>9, QuietFields
<1> QED
  BY <1>6, <1>9, <1>10

(* exitDebugger. *)
LEMMA Exits == ASSUME NEW g \in Gui PROVE Quiet(g, ExitDebugger(g))
<1>1. CASE g.process = "notRunning"
  BY <1>1, Finished DEF ExitDebugger
<1>2. CASE g.process # "notRunning"
  <2>1. PICK i : i = InterruptInferior(g)
    OBVIOUS
  <2>2. Quiet(g, i) /\ i \in Gui
    BY <2>1, Interrupted, QuietGui
  <2>3. PICK p : p = Post(i, "exit", Nowhere, "invalid", 0, FALSE)
    OBVIOUS
  <2>4. Quiet(i, p) /\ p \in Gui
    BY <2>2, <2>3, GoSent, QuietGui
  <2>5. PICK h : h = [p EXCEPT !.exiting = TRUE]
    OBVIOUS
  <2>6. p \in GuiRecord
    BY <2>4, GuiFields
  <2>7. h \in GuiRecord /\ SameChannel(p, h) /\ h.barrier = p.barrier /\ h.status = p.status
    BY <2>5, <2>6 DEF GuiRecord, SameChannel
  <2>8. Quiet(p, h)
    BY <2>4, <2>7, QuietFields
  <2>9. ExitDebugger(g) = h
    BY <1>2, <2>1, <2>3, <2>5 DEF ExitDebugger
  <2>10. Quiet(i, h)
    BY <2>2, <2>4, <2>8, QuietThenQuiet
  <2> QED
    BY <2>2, <2>9, <2>10, QuietThenQuiet
<1> QED
  BY <1>1, <1>2

(* A stop is handled, and the status is "stopped". *)
LEMMA StopHandled ==
    ASSUME NEW g \in Gui
    PROVE  LET h == HandleAsyncOutput2(g) IN Quiet(g, h) /\ h.status = "stopped"
<1>1. PICK s : s = SetStatus(g, "stopped")
  OBVIOUS
<1>2. Quiet(g, s) /\ s \in Gui /\ s.status = "stopped"
  BY <1>1, StatusSet, QuietGui DEF Status
<1>3. PICK l : l = UpdateLocals(s)
  OBVIOUS
<1>4. Quiet(s, l) /\ l \in Gui /\ l.status = "stopped"
  BY <1>2, <1>3, LocalsAsked, QuietGui
<1>5. StackQueries \in Nat /\ ViewQueries \in Nat /\ TRUE \in BOOLEAN /\ FALSE \in BOOLEAN
  BY QueriesAssumption
<1>6. PICK a : a = Queries(l, StackQueries, TRUE)
  OBVIOUS
<1>7. Quiet(l, a) /\ a \in Gui /\ a.status = "stopped"
  <2>1. Quiet(l, a) /\ a.status = l.status
    BY <1>4, <1>5, <1>6, Queried
  <2> QED
    BY <1>4, <2>1, QuietGui
<1>8. PICK b : b = Queries(a, ViewQueries, FALSE)
  OBVIOUS
<1>9. Quiet(a, b) /\ b.status = a.status
  BY <1>5, <1>7, <1>8, Queried
<1>10. HandleAsyncOutput2(g) = b
  BY <1>1, <1>3, <1>6, <1>8, Zenon DEF HandleAsyncOutput2
<1>11. Quiet(g, l)
  BY <1>2, <1>4, QuietThenQuiet
<1>12. Quiet(g, a)
  BY <1>7, <1>11, QuietThenQuiet
<1>13. Quiet(g, b)
  BY <1>9, <1>12, QuietThenQuiet
<1> QED
  BY <1>7, <1>9, <1>10, <1>13

(* What is quiet may be followed by a synchronization. *)
LEMMA ThenSynchronized ==
    ASSUME NEW g \in Gui, NEW h, Quiet(g, h)
    PROVE  Quiet(g, AttemptBreakpointSynchronization(h))
<1>1. h \in Gui
  BY QuietGui
<1>2. Quiet(h, AttemptBreakpointSynchronization(h))
  BY <1>1, Synchronized
<1> QED
  BY <1>2, QuietThenQuiet

(* handleBreakInsert. *)
LEMMA InsertHandled ==
    ASSUME NEW g \in Gui, NEW index \in Int, NEW r \in Record
    PROVE  Quiet(g, HandleBreakInsert(g, index, r))
<1>1. CASE r.class = "done"
  <2>1. r.data \in Seq(Entry)
    BY DEF Record
  <2>2. Quiet(g, TakeData(g, index, r.data))
    BY <2>1, DataTaken
  <2> QED
    BY <1>1, <2>2, ThenSynchronized DEF HandleBreakInsert
<1>2. CASE r.class # "done" /\ index \in DOMAIN g.rows
  <2>1. PICK loc : loc = g.rows[index].loc
    OBVIOUS
  <2>2. /\ "break" \in Kinds /\ loc \in Args /\ Takes("break", loc)
        /\ "BreakInsert1" \in Types /\ FALSE \in BOOLEAN
    BY <1>2, <2>1, RowArgs DEF Kinds
  <2>3. HandleBreakInsert(g, index, r) = Post(g, "break", loc, "BreakInsert1", index, FALSE)
    BY <1>2, <2>1 DEF HandleBreakInsert
  <2> QED
    BY <2>2, <2>3, Posted, Zenon
<1>3. CASE r.class # "done" /\ index \notin DOMAIN g.rows
  BY <1>3, Faulted DEF HandleBreakInsert
<1> QED
  BY <1>1, <1>2, <1>3

(* handleBreakInsert1. *)
LEMMA Insert1Handled ==
    ASSUME NEW g \in Gui, NEW index \in Int, NEW r \in Record
    PROVE  Quiet(g, HandleBreakInsert1(g, index, r))
<1>1. CASE r.class = "done"
  <2>1. r.data \in Seq(Entry)
    BY DEF Record
  <2>2. Quiet(g, TakeData(g, index, r.data))
    BY <2>1, DataTaken
  <2> QED
    BY <1>1, <2>2, ThenSynchronized DEF HandleBreakInsert1
<1>2. CASE r.class # "done" /\ index \in DOMAIN g.rows
  <2>1. Quiet(g, SetNumber(g, index, Unavailable))
    <3>1. Unavailable \in Int
      BY DEF Unavailable
    <3> QED
      BY <1>2, <3>1, NumberSet
  <2> QED
    BY <1>2, <2>1, ThenSynchronized DEF HandleBreakInsert1
<1>3. CASE r.class # "done" /\ index \notin DOMAIN g.rows
  BY <1>3, Faulted DEF HandleBreakInsert1
<1> QED
  BY <1>1, <1>2, <1>3

(* handleBreakCondition and handleBreakIgnore. *)
LEMMA ChangeHandled ==
    ASSUME NEW g \in Gui, NEW index, NEW r
    PROVE  /\ Quiet(g, HandleBreakCondition(g, index))
           /\ Quiet(g, HandleBreakIgnore(g, index, r))
<1>1. CASE index \in DOMAIN g.rows
  <2>1. PICK c, i : /\ c = [g EXCEPT !.rows[index].bpCondition = g.rows[index].condition]
                    /\ i = [g EXCEPT !.rows[index].bpIgnoreCount = g.rows[index].ignoreCount]
    OBVIOUS
  <2>2. Quiet(g, c) /\ Quiet(g, i)
    BY <1>1, <2>1, Acknowledged
  <2>3. HandleBreakCondition(g, index) = AttemptBreakpointSynchronization(c)
    BY <1>1, <2>1 DEF HandleBreakCondition
  <2>4. HandleBreakIgnore(g, index, r) \in {AttemptBreakpointSynchronization(i), g}
    BY <1>1, <2>1 DEF HandleBreakIgnore
  <2> QED
    BY <2>2, <2>3, <2>4, ThenSynchronized, QuietRefl
<1>2. CASE index \notin DOMAIN g.rows
  BY <1>2, Faulted, QuietRefl DEF HandleBreakCondition, HandleBreakIgnore
<1> QED
  BY <1>1, <1>2

(* handleBreakInfo. *)
LEMMA InfoHandled ==
    ASSUME NEW g \in Gui, NEW number, NEW r
    PROVE  Quiet(g, HandleBreakInfo(g, number, r))
<1>1. PICK i : i = SelectInSeq(g.rows, LAMBDA row : row.number = number)
  OBVIOUS
<1>2. i \in DOMAIN g.rows \cup {0}
  <2>1. \A I \in SUBSET (1..Len(g.rows)) :
            (IF I # {} THEN Min(I) ELSE 0) \in DOMAIN g.rows \cup {0}
    BY Selected
  <2> QED
    BY <1>1, <2>1 DEF SelectInSeq
<1>3. CASE i = 0 \/ r.class # "done"
  <2>1. HandleBreakInfo(g, number, r) = g
    BY <1>1, <1>3 DEF HandleBreakInfo
  <2> QED
    BY <2>1, QuietRefl
<1>4. CASE i # 0 /\ r.class = "done"
  <2>1. i \in DOMAIN g.rows
    BY <1>2, <1>4
  <2>2. PICK h : h = [g EXCEPT !.rows[i].place = "known"]
    OBVIOUS
  <2>3. Quiet(g, h) /\ h \in Gui
    BY <2>1, <2>2, Acknowledged, QuietGui
  <2>4. i \in DOMAIN h.rows
    <3>1. g \in GuiRecord
      BY GuiFields
    <3>2. h.rows = [g.rows EXCEPT ![i] = [g.rows[i] EXCEPT !.place = "known"]]
      BY <2>2, <3>1 DEF GuiRecord
    <3>3. DOMAIN h.rows = DOMAIN g.rows
      BY <3>2
    <3> QED
      BY <2>1, <3>3
  <2>5. PICK n : n = SetNumber(h, i, Unavailable)
    OBVIOUS
  <2>6. Quiet(h, n)
    <3>1. Unavailable \in Int
      BY DEF Unavailable
    <3> QED
      BY <2>3, <2>4, <2>5, <3>1, NumberSet
  <2>7. Quiet(g, n)
    BY <2>3, <2>6, QuietThenQuiet
  <2>8. HandleBreakInfo(g, number, r) \in {AttemptBreakpointSynchronization(n),
                                           AttemptBreakpointSynchronization(h)}
    BY <1>1, <1>4, <2>2, <2>5 DEF HandleBreakInfo
  <2> QED
    BY <2>3, <2>7, <2>8, ThenSynchronized
<1> QED
  BY <1>3, <1>4

(* handleBreakList. *)
LEMMA ListHandled ==
    ASSUME NEW g \in Gui, NEW r \in Record
    PROVE  Quiet(g, AttemptBreakpointSynchronization(TakeTable(g, r.data)))
<1>1. r.data \in Seq(Entry)
  BY DEF Record
<1>2. Quiet(g, TakeTable(g, r.data))
  BY <1>1, TableTaken
<1> QED
  BY <1>2, ThenSynchronized

(* handleExecRun is quiet unless the answer is "running". *)
LEMMA ExecHandled ==
    ASSUME NEW g \in Gui, NEW class, NEW k \in HandleExecRun(g, class)
    PROVE  Sends(g, k) /\ (class # "running" => Quiet(g, k))
<1>1. CASE class = "running"
  <2>1. k = SetStatus(g, "running") /\ "running" \in Status
    BY <1>1 DEF HandleExecRun, Status
  <2> QED
    BY <1>1, <2>1, StatusSet
<1>2. CASE class # "running"
  <2>1. Quiet(g, SetStatus(g, "stopped")) /\ Quiet(g, InterruptInferior(g))
    BY StatusSet, Interrupted DEF Status
  <2>2. Quiet(g, k)
    BY <1>2, <2>1 DEF HandleExecRun
  <2> QED
    BY <2>2 DEF Quiet
<1> QED
  BY <1>1, <1>2

(* handleResult is quiet unless the answer is "running", and after the one *)
(* that reports a stop the status is not "running".                        *)
LEMMA ResultHandled ==
    ASSUME NEW g \in Gui, NEW command \in Cookie, NEW r \in Record,
           NEW k \in HandleResult(g, command, r)
    PROVE  /\ Sends(g, k)
           /\ r.class # "running" =>
                 Quiet(g, k) /\ (command.type = "AsyncOutput2" => k.status # "running")
<1>1. command.cookie \in Int /\ command.type \in Types
  BY DEF Cookie
<1>2. CASE command.type = "exec"
  <2>1. k \in HandleExecRun(g, r.class)
    BY <1>2 DEF HandleResult
  <2> QED
    BY <1>2, <2>1, ExecHandled
<1>3. CASE command.type = "AsyncOutput2"
  <2>1. k = HandleAsyncOutput2(g)
    BY <1>3 DEF HandleResult
  <2> QED
    BY <2>1, StopHandled DEF Quiet
<1>4. CASE command.type = "BreakInsert"
  <2>1. k = HandleBreakInsert(g, command.cookie, r)
    BY <1>4 DEF HandleResult
  <2> QED
    BY <1>1, <1>4, <2>1, InsertHandled DEF Quiet
<1>5. CASE command.type = "BreakInsert1"
  <2>1. k = HandleBreakInsert1(g, command.cookie, r)
    BY <1>5 DEF HandleResult
  <2> QED
    BY <1>1, <1>5, <2>1, Insert1Handled DEF Quiet
<1>6. CASE command.type = "BreakInfo"
  <2>1. k = HandleBreakInfo(g, command.cookie, r)
    BY <1>6 DEF HandleResult
  <2> QED
    BY <1>6, <2>1, InfoHandled DEF Quiet
<1>7. CASE command.type = "BreakCondition"
  <2>1. k = HandleBreakCondition(g, command.cookie)
    BY <1>7 DEF HandleResult
  <2> QED
    BY <1>7, <2>1, ChangeHandled DEF Quiet
<1>8. CASE command.type = "BreakIgnore"
  <2>1. k = HandleBreakIgnore(g, command.cookie, r)
    BY <1>8 DEF HandleResult
  <2> QED
    BY <1>8, <2>1, ChangeHandled DEF Quiet
<1>9. CASE command.type = "BreakList"
  <2>1. k = AttemptBreakpointSynchronization(TakeTable(g, r.data))
    BY <1>9 DEF HandleResult
  <2> QED
    BY <1>9, <2>1, ListHandled DEF Quiet
<1>10. CASE command.type \in {"view", "other", "invalid"}
  <2>1. k = g
    BY <1>10 DEF HandleResult
  <2> QED
    BY <1>10, <2>1, QuietRefl DEF Quiet
<1> QED
  BY <1>1, <1>2, <1>3, <1>4, <1>5, <1>6, <1>7, <1>8, <1>9, <1>10 DEF Types

(* So is handleResultRecord. *)
LEMMA ResultRecord ==
    ASSUME NEW g \in Gui, NEW r \in Record, r.token \in DOMAIN g.cookies,
           NEW k \in HandleResultRecord(g, r)
    PROVE  LET h == TakeCookie(g, r.token)
           IN  /\ Sends(h, k)
               /\ r.class # "running" =>
                     Quiet(h, k) /\ (StopComes(g, r) => k.status # "running")
<1>1. PICK h, command : h = TakeCookie(g, r.token) /\ command = g.cookies[r.token]
  OBVIOUS
<1>2. h \in Gui /\ command \in Cookie /\ r.token \in Nat /\ g.barrier \in Int
  BY <1>1, CookieTaken, CookieOf, GuiNumbers DEF Record
<1>3. CASE r.token < g.barrier
  <2>1. k = h
    BY <1>1, <1>3 DEF HandleResultRecord
  <2>2. ~StopComes(g, r)
    BY <1>2, <1>3 DEF StopComes
  <2> QED
    BY <1>1, <1>2, <2>1, <2>2, QuietRefl DEF Quiet
<1>4. CASE ~(r.token < g.barrier)
  <2>1. PICK a \in HandleResult(h, command, r) :
           k \in IF ~command.synchronized THEN {a}
                 ELSE IF a.pending = 1 THEN UpdateWatchModel2([a EXCEPT !.pending = @ - 1])
                 ELSE {[a EXCEPT !.pending = @ - 1]}
    BY <1>1, <1>4, Zenon DEF HandleResultRecord
  <2>2. /\ Sends(h, a)
        /\ r.class # "running" =>
              Quiet(h, a) /\ (command.type = "AsyncOutput2" => a.status # "running")
    BY <1>2, ResultHandled
  <2>3. a \in Gui
    BY <2>2 DEF Sends
  <2>4. PICK pending \in Int : pending = a.pending - 1
    BY <2>3, GuiNumbers
  <2>5. PICK c : c = [a EXCEPT !.pending = pending]
    OBVIOUS
  <2>6. Quiet(a, c) /\ c.status = a.status /\ c \in Gui
    BY <2>3, <2>5, PendingSet, QuietGui
  <2>7. c = [a EXCEPT !.pending = @ - 1]
    BY <2>4, <2>5
  <2>8. k \in UpdateWatchModel2(c) \cup {a, c}
    BY <2>1, <2>7
  <2>9. Quiet(a, k) /\ k.status = a.status
    <3>1. CASE k = a
      BY <2>3, <3>1, QuietRefl
    <3>2. CASE k = c
      BY <2>6, <3>2
    <3>3. CASE k \in UpdateWatchModel2(c)
      <4>1. Quiet(c, k) /\ k.status = c.status
        BY <2>6, <3>3, WatchModelUpdated
      <4> QED
        BY <2>3, <2>6, <4>1, QuietThenQuiet
    <3> QED
      BY <2>8, <3>1, <3>2, <3>3
  <2>10. Sends(h, k)
    BY <1>2, <2>2, <2>9, SendsThenSends DEF Quiet
  <2>11. StopComes(g, r) => command.type = "AsyncOutput2"
    BY <1>1 DEF StopComes, TypeOf
  <2>12. r.class # "running" => Quiet(h, k)
    BY <1>2, <2>2, <2>9, QuietThenQuiet
  <2> QED
    BY <1>1, <2>2, <2>9, <2>10, <2>11, <2>12
<1> QED
  BY <1>3, <1>4

(* The handling of an answer keeps the invariant: one that may make the    *)
(* status "running" does so while the inferior runs, or with a stop in     *)
(* the pipe.                                                               *)
LEMMA ResultStep ==
    ASSUME NEW m, NEW from, NEW g, NEW q, Base(m, from, g, q), from # <<>>,
           IsResult(Head(from)), NEW k \in HandleResultRecord(g, Head(from)),
           NEW mm \in GdbType, SameProcess(m, mm)
    PROVE  /\ k \in Gui
           /\ Base(mm, Tail(from), Flushed(k), q \o k.out)
           /\ Rest(m, from, g, q) => Rest(mm, Tail(from), Flushed(k), q \o k.out)
<1>1. PICK r, h, tail, f, qq : /\ r = Head(from) /\ h = TakeCookie(g, r.token) /\ tail = Tail(from)
                               /\ f = Flushed(k) /\ qq = q \o k.out
  OBVIOUS
<1>2. r \in Record /\ r.token \in DOMAIN g.cookies /\ Base(m, tail, h, q) /\ g \in Gui
  BY <1>1, ResultTaken DEF Base
<1>3. /\ Sends(h, k)
      /\ r.class # "running" => Quiet(h, k) /\ (StopComes(g, r) => k.status # "running")
  BY <1>1, <1>2, ResultRecord
<1>4. /\ Base(mm, tail, f, qq)
      /\ ResumedInv(m, tail, h, q) => ResumedInv(mm, tail, f, qq)
      /\ LiveIn(mm, f, qq) => LiveIn(m, h, q)
  BY <1>1, <1>2, <1>3, SendsStep
<1>5. k \in Gui /\ f.status = k.status
  BY <1>1, <1>3, FlushedIs DEF Sends, SameState
<1>6. ASSUME Rest(m, from, g, q) PROVE Rest(mm, tail, f, qq)
  <2>1. /\ ResumedInv(m, tail, h, q)
        /\ ~StopComes(g, r) => RunningInv(m, tail, h, q)
        /\ LiveIn(m, h, q) /\ r.class = "running" =>
              m.inferior = "running" \/ \E j \in DOMAIN tail : tail[j].record = "stopped"
    BY <1>1, <1>6, ResultPopped
  <2>2. CASE r.class = "running"
    BY <1>4, <2>1, <2>2 DEF Rest, RunningInv, SameProcess
  <2>3. CASE r.class # "running" /\ StopComes(g, r)
    BY <1>3, <1>4, <1>5, <2>1, <2>3 DEF Rest, RunningInv
  <2>4. CASE r.class # "running" /\ ~StopComes(g, r)
    BY <1>1, <1>2, <1>3, <2>1, <2>4, QuietStep DEF Rest
  <2> QED
    BY <2>2, <2>3, <2>4
<1> QED
  BY <1>1, <1>4, <1>5, <1>6

(* A stop at a breakpoint: the list of breakpoints is asked for, and then  *)
(* what reports the stop.                                                  *)
LEMMA BreakpointHit ==
    ASSUME NEW g \in Gui, NEW h, h = HandleAsyncOutput(g, "breakpoint-hit")
    PROVE  /\ Quiet(g, h) /\ h.barrier = g.barrier
           /\ g.process # "notRunning" =>
                 h.token > g.token /\ h.cookies[h.token].type = "AsyncOutput2"
<1>1. PICK a : a = Queries(g, OtherQueries, FALSE)
  OBVIOUS
<1>2. OtherQueries \in Nat /\ FALSE \in BOOLEAN /\ 0 \in Int
  BY QueriesAssumption
<1>3. Quiet(g, a) /\ a.barrier = g.barrier
  BY <1>1, <1>2, Queried
<1>4. a \in Gui
  BY <1>3, QuietGui
<1>5. /\ "list" \in Kinds /\ "query" \in Kinds /\ Nowhere \in Args
      /\ Takes("list", Nowhere) /\ Takes("query", Nowhere)
      /\ "BreakList" \in Types /\ "AsyncOutput2" \in Types
  BY DEF Kinds, Args, Takes, Types
<1>6. PICK b : b = Post(a, "list", Nowhere, "BreakList", 0, FALSE)
  OBVIOUS
<1>7. Quiet(a, b) /\ b.barrier = a.barrier
  BY <1>2, <1>4, <1>5, <1>6, Posted, Zenon
<1>8. b \in Gui
  BY <1>7, QuietGui
<1>9. h = Post(b, "query", Nowhere, "AsyncOutput2", 0, FALSE)
  BY <1>1, <1>6 DEF HandleAsyncOutput
<1>10. LET p == Post(b, "query", Nowhere, "AsyncOutput2", 0, FALSE)
       IN  /\ Quiet(b, p) /\ p.status = b.status /\ p.barrier = b.barrier
           /\ p.interrupt = b.interrupt /\ p.rows = b.rows /\ p.removed = b.removed
           /\ b.process = "notRunning" => p = b
           /\ b.process # "notRunning" =>
                 SendsAs(b, p, 1, "AsyncOutput2",
                         <<[token |-> b.token + 1, kind |-> "query", arg |-> Nowhere]>>)
  BY <1>2, <1>5, <1>8, Posted, Zenon
<1>11. /\ Quiet(b, h) /\ h.barrier = b.barrier
       /\ b.process # "notRunning" =>
             SendsAs(b, h, 1, "AsyncOutput2",
                     <<[token |-> b.token + 1, kind |-> "query", arg |-> Nowhere]>>)
  BY <1>9, <1>10, Zenon
<1>12. Quiet(g, b)
  BY <1>3, <1>7, QuietThenQuiet
<1>13. Quiet(g, h)
  BY <1>11, <1>12, QuietThenQuiet
<1>14. b.process = g.process /\ b.token >= g.token
  BY <1>12 DEF Quiet, Sends
<1>15. g.token \in Nat /\ b.token \in Nat
  BY <1>8, GuiNumbers
<1>16. ASSUME g.process # "notRunning"
       PROVE  h.token > g.token /\ h.cookies[h.token].type = "AsyncOutput2"
  <2>1. /\ h.token = b.token + 1
        /\ \A t \in b.token + 1..h.token : h.cookies[t].type = "AsyncOutput2"
    BY <1>11, <1>14, <1>16 DEF SendsAs
  <2>2. h.token > g.token /\ h.token \in b.token + 1..h.token
    BY <1>14, <1>15, <2>1
  <2> QED
    BY <2>1, <2>2
<1> QED
  BY <1>3, <1>7, <1>11, <1>13, <1>16

(* The handling of a *stopped record keeps the invariant. *)
LEMMA StopStep ==
    ASSUME NEW m, NEW from, NEW g, NEW q, Base(m, from, g, q), from # <<>>,
           ~IsResult(Head(from)), NEW k, k = HandleAsyncOutput(g, Head(from).class),
           NEW mm \in GdbType, SameProcess(m, mm)
    PROVE  /\ k \in Gui
           /\ Base(mm, Tail(from), Flushed(k), q \o k.out)
           /\ Rest(m, from, g, q) => Rest(mm, Tail(from), Flushed(k), q \o k.out)
<1>1. PICK reason, tail, f, qq : /\ reason = Head(from).class /\ tail = Tail(from)
                                 /\ f = Flushed(k) /\ qq = q \o k.out
  OBVIOUS
<1>2. Base(m, tail, g, q)
  BY <1>1, StopTaken
<1>3. g \in Gui /\ q \in Seq(Command) /\ from \in Seq(Record)
  BY DEF Base
<1>4. CASE reason = "breakpoint-hit"
  <2>1. /\ Quiet(g, k) /\ k.barrier = g.barrier
        /\ g.process # "notRunning" =>
              k.token > g.token /\ k.cookies[k.token].type = "AsyncOutput2"
    BY <1>1, <1>3, <1>4, BreakpointHit
  <2>2. k \in Gui /\ SameState(k, f) /\ f \in Gui
    BY <1>1, <2>1, QuietGui, FlushedIs
  <2>3. /\ Base(mm, tail, f, qq) /\ Extends(g, q, f, qq)
        /\ ResumedInv(m, tail, g, q) => ResumedInv(mm, tail, f, qq)
    BY <1>1, <1>2, <2>1, SendsStep DEF Quiet
  <2>4. RunningInv(mm, tail, f, qq)
    <3> SUFFICES ASSUME LiveIn(mm, f, qq)
                 PROVE  \E i \in DOMAIN qq : StopComes(f, qq[i])
      BY DEF RunningInv
    <3>1. g.process # "notRunning"
      BY <2>3 DEF LiveIn, Extends
    <3>2. /\ f.token > g.token /\ f.cookies[f.token].type = "AsyncOutput2"
          /\ f.barrier = g.barrier
      BY <2>1, <2>2, <3>1 DEF SameState
    <3>3. g.token \in Nat /\ f.token \in Nat /\ g.barrier \in Int /\ g.barrier <= g.token
      BY <1>3, <2>2, GuiNumbers
    <3>4. f.token \in g.token + 1..f.token /\ f.token >= f.barrier
      BY <3>2, <3>3
    <3>5. \A t \in g.token + 1..f.token : \E i \in DOMAIN qq : qq[i].token = t
      BY <1>3, <2>2, <2>3, ExtendedAt
    <3>6. PICK i \in DOMAIN qq : qq[i].token = f.token
      BY <3>4, <3>5
    <3> QED
      BY <3>2, <3>4, <3>6 DEF StopComes, TypeOf
  <2>5. Rest(m, from, g, q) => ResumedInv(m, tail, g, q)
    BY <1>1, <1>3, ResumedTaken DEF Rest
  <2> QED
    BY <1>1, <2>2, <2>3, <2>4, <2>5 DEF Rest
<1>5. CASE reason # "breakpoint-hit"
  <2>1. Quiet(g, k) /\ k.status # "running"
    <3>1. CASE reason = "exited"
      <4>1. PICK s : s = SetStatus(g, "ready")
        OBVIOUS
      <4>2. Quiet(g, s) /\ s.status = "ready" /\ s \in Gui
        BY <1>3, <4>1, StatusSet, QuietGui DEF Status
      <4>3. k = ExitDebugger(s)
        BY <1>1, <3>1, <4>1 DEF HandleAsyncOutput
      <4>4. Quiet(s, k)
        BY <4>2, <4>3, Exits
      <4> QED
        BY <1>3, <4>2, <4>4, QuietThenQuiet DEF Quiet
    <3>2. CASE reason # "exited"
      <4>1. k = HandleAsyncOutput2(g)
        BY <1>1, <1>5, <3>2 DEF HandleAsyncOutput
      <4> QED
        BY <1>3, <4>1, StopHandled
    <3> QED
      BY <3>1, <3>2
  <2>2. k \in Gui /\ f.status = k.status
    BY <1>1, <2>1, QuietGui, FlushedIs DEF SameState
  <2>3. /\ Base(mm, tail, f, qq)
        /\ ResumedInv(m, tail, g, q) => ResumedInv(mm, tail, f, qq)
    BY <1>1, <1>2, <2>1, SendsStep DEF Quiet
  <2>4. Rest(m, from, g, q) => ResumedInv(m, tail, g, q)
    BY <1>1, <1>3, ResumedTaken DEF Rest
  <2> QED
    BY <1>1, <2>1, <2>2, <2>3, <2>4 DEF Rest, RunningInv
<1> QED
  BY <1>4, <1>5

(* gdb reads a command and answers. *)
LEMMA ReadStep ==
    ASSUME NEW m, NEW from, NEW g, NEW q, Base(m, from, g, q), q # <<>>,
           m.inferior # "running", NEW mm \in GdbType, NEW r \in Record, IsResult(r),
           r.token = Head(q).token,
           mm.inferior = "running" => Head(q).kind \in {"run", "continue", "step"},
           r.class = "running" => mm.inferior = "running",
           mm.alive => m.alive /\ Head(q).kind # "exit"
    PROVE  /\ Base(mm, Append(from, r), g, Tail(q))
           /\ Rest(m, from, g, q) => Rest(mm, Append(from, r), g, Tail(q))
<1> DEFINE ff == Append(from, r)
           qq == Tail(q)
           n == Len(from) + 1
<1>1. /\ from \in Seq(Record) /\ q \in Seq(Command) /\ g \in Gui /\ Channel(from, g, q)
      /\ g.out = <<>> /\ ~g.interrupt
  BY DEF Base
<1>2. /\ ff \in Seq(Record) /\ n \in DOMAIN ff /\ ff[n] = r
      /\ Len(from) \in Nat /\ DOMAIN from = 1..Len(from)
      /\ \A i \in DOMAIN from : i \in DOMAIN ff /\ ff[i] = from[i] /\ i < n
      /\ \A i \in DOMAIN ff : (i \in DOMAIN from /\ ff[i] = from[i]) \/ (i = n /\ ff[i] = r)
  BY <1>1, Appended
<1>3. /\ qq \in Seq(Command) /\ 1 \in DOMAIN q /\ Head(q) = q[1]
      /\ \A i \in DOMAIN qq : i + 1 \in DOMAIN q /\ qq[i] = q[i + 1] /\ i \in Nat /\ i # 0
      /\ \A i \in DOMAIN q : i = 1 \/ (i - 1 \in DOMAIN qq /\ qq[i - 1] = q[i] /\ i > 1 /\ i \in Nat)
  BY <1>1, Tailed
<1> HIDE DEF ff, qq, n
<1>4. Channel(ff, g, qq)
  <2>1. \A i \in DOMAIN qq : qq[i].token \in DOMAIN g.cookies
    BY <1>1, <1>3 DEF Channel
  <2>2. \A i \in DOMAIN ff : IsResult(ff[i]) => ff[i].token \in DOMAIN g.cookies
    BY <1>1, <1>2, <1>3 DEF Channel
  <2>3. ASSUME NEW i \in DOMAIN qq, NEW j \in DOMAIN qq, i < j
        PROVE  qq[i].token < qq[j].token
    <3>1. /\ i + 1 \in DOMAIN q /\ qq[i] = q[i + 1] /\ j + 1 \in DOMAIN q /\ qq[j] = q[j + 1]
          /\ i + 1 < j + 1
      BY <1>3, <2>3
    <3> QED
      BY <1>1, <3>1 DEF Channel, InOrder
  <2>4. ASSUME NEW i \in DOMAIN ff, NEW j \in DOMAIN qq, IsResult(ff[i])
        PROVE  ff[i].token < qq[j].token
    <3>1. j + 1 \in DOMAIN q /\ qq[j] = q[j + 1] /\ 1 < j + 1
      BY <1>3
    <3>2. CASE i \in DOMAIN from /\ ff[i] = from[i]
      BY <1>1, <2>4, <3>1, <3>2 DEF Channel, InOrder
    <3>3. CASE i = n /\ ff[i] = r
      BY <1>1, <1>3, <3>1, <3>3 DEF Channel, InOrder
    <3> QED
      BY <1>2, <3>2, <3>3
  <2>5. ASSUME NEW i \in DOMAIN ff, NEW j \in DOMAIN ff, i < j, IsResult(ff[i]), IsResult(ff[j])
        PROVE  ff[i].token < ff[j].token
    <3>1. CASE j \in DOMAIN from /\ ff[j] = from[j]
      <4>1. i \in DOMAIN from /\ ff[i] = from[i]
        BY <1>2, <2>5, <3>1
      <4> QED
        BY <1>1, <2>5, <3>1, <4>1 DEF Channel, InOrder
    <3>2. CASE j = n /\ ff[j] = r
      <4>1. i \in DOMAIN from /\ ff[i] = from[i]
        BY <1>2, <2>5, <3>2
      <4> QED
        BY <1>1, <1>3, <2>5, <3>2, <4>1 DEF Channel, InOrder
    <3> QED
      BY <1>2, <3>1, <3>2
  <2> QED
    BY <2>1, <2>2, <2>3, <2>4, <2>5 DEF Channel, InOrder
<1>6. ASSUME Rest(m, from, g, q) PROVE Rest(mm, ff, g, qq)
  <2>1. RunningInv(m, from, g, q) /\ ResumedInv(m, from, g, q)
    BY <1>6 DEF Rest
  <2>4. LiveIn(mm, g, qq) => LiveIn(m, g, q)
    <3> SUFFICES ASSUME LiveIn(mm, g, qq), NEW i \in DOMAIN q PROVE q[i].kind # "exit"
      BY DEF LiveIn
    <3>1. CASE i = 1
      BY <1>3, <3>1 DEF LiveIn
    <3>2. CASE i # 1
      BY <1>3, <3>2 DEF LiveIn
    <3> QED
      BY <3>1, <3>2
  <2>5. RunningInv(mm, ff, g, qq)
    <3> SUFFICES ASSUME LiveIn(mm, g, qq), g.status = "running"
                 PROVE  \/ mm.inferior = "running"
                        \/ \E i \in DOMAIN ff : ff[i].record = "stopped"
                        \/ \E i \in DOMAIN ff : IsResult(ff[i]) /\ StopComes(g, ff[i])
                        \/ \E i \in DOMAIN qq : StopComes(g, qq[i])
      BY DEF RunningInv
    <3>1. \/ \E i \in DOMAIN from : from[i].record = "stopped"
          \/ \E i \in DOMAIN from : IsResult(from[i]) /\ StopComes(g, from[i])
          \/ \E i \in DOMAIN q : StopComes(g, q[i])
      BY <2>1, <2>4 DEF RunningInv
    <3>2. CASE \E i \in DOMAIN from : from[i].record = "stopped"
      BY <1>2, <3>2
    <3>3. CASE \E i \in DOMAIN from : IsResult(from[i]) /\ StopComes(g, from[i])
      BY <1>2, <3>3
    <3>4. CASE \E i \in DOMAIN q : StopComes(g, q[i])
      <4>1. PICK i \in DOMAIN q : StopComes(g, q[i])
        BY <3>4
      <4>2. CASE i = 1
        <5>1. StopComes(g, r)
          BY <1>3, <4>1, <4>2 DEF StopComes, TypeOf
        <5> QED
          BY <1>2, <5>1
      <4>3. CASE i # 1
        BY <1>3, <4>1, <4>3
      <4> QED
        BY <4>2, <4>3
    <3> QED
      BY <3>1, <3>2, <3>3, <3>4
  <2>6. ResumedInv(mm, ff, g, qq)
    <3> SUFFICES ASSUME LiveIn(mm, g, qq), NEW i \in DOMAIN ff, IsResult(ff[i]),
                        ff[i].class = "running", mm.inferior # "running"
                 PROVE  \E j \in DOMAIN ff : j > i /\ ff[j].record = "stopped"
      BY DEF ResumedInv
    <3>1. i \in DOMAIN from /\ ff[i] = from[i]
      BY <1>2
    <3>2. PICK j \in DOMAIN from : j > i /\ from[j].record = "stopped"
      BY <2>1, <2>4, <3>1 DEF ResumedInv
    <3> QED
      BY <1>2, <3>2
  <2> QED
    BY <2>5, <2>6 DEF Rest
<1>7. Base(mm, ff, g, qq)
  BY <1>1, <1>2, <1>3, <1>4 DEF Base
<1> QED
  BY <1>6, <1>7 DEF ff, qq

(* The inferior stops. *)
LEMMA StopsStep ==
    ASSUME NEW m, NEW from, NEW g, NEW q, Base(m, from, g, q),
           m.inferior = "running", NEW mm \in GdbType, NEW r \in Record, r.record = "stopped",
           mm.inferior # "running", mm.alive => m.alive
    PROVE  /\ Base(mm, Append(from, r), g, q)
           /\ Rest(m, from, g, q) => Rest(mm, Append(from, r), g, q)
<1> DEFINE ff == Append(from, r)
           n == Len(from) + 1
<1>1. /\ from \in Seq(Record) /\ q \in Seq(Command) /\ g \in Gui /\ Channel(from, g, q)
      /\ g.out = <<>> /\ ~g.interrupt
  BY DEF Base
<1>2. /\ ff \in Seq(Record) /\ n \in DOMAIN ff /\ ff[n] = r
      /\ Len(from) \in Nat /\ DOMAIN from = 1..Len(from)
      /\ \A i \in DOMAIN from : i \in DOMAIN ff /\ ff[i] = from[i] /\ i < n
      /\ \A i \in DOMAIN ff : (i \in DOMAIN from /\ ff[i] = from[i]) \/ (i = n /\ ff[i] = r)
  BY <1>1, Appended
<1> HIDE DEF ff, n
<1>3. ~IsResult(r)
  BY DEF IsResult
<1>4. \A i \in DOMAIN ff : IsResult(ff[i]) => i \in DOMAIN from /\ ff[i] = from[i]
  BY <1>2, <1>3
<1>5. Channel(ff, g, q)
  BY <1>1, <1>4 DEF Channel, InOrder
<1>7. ASSUME Rest(m, from, g, q) PROVE Rest(mm, ff, g, q)
  <2>4. RunningInv(mm, ff, g, q)
    BY <1>2 DEF RunningInv
  <2>5. ResumedInv(mm, ff, g, q)
    <3> SUFFICES ASSUME NEW i \in DOMAIN ff, IsResult(ff[i])
                 PROVE  \E j \in DOMAIN ff : j > i /\ ff[j].record = "stopped"
      BY DEF ResumedInv
    <3>1. i < n /\ i \in Nat /\ n \in Nat
      BY <1>2, <1>4 DEF n
    <3> QED
      BY <1>2, <3>1
  <2> QED
    BY <2>4, <2>5 DEF Rest
<1>8. Base(mm, ff, g, q)
  BY <1>1, <1>2, <1>5 DEF Base
<1> QED
  BY <1>7, <1>8 DEF ff

(* gdb crashes. *)
LEMMA CrashStep ==
    ASSUME NEW m, NEW from, NEW g, NEW q, Base(m, from, g, q),
           NEW mm \in GdbType, ~mm.alive, mm.inferior # "running"
    PROVE  /\ Base(mm, from, g, q)
           /\ Rest(m, from, g, q) => Rest(mm, from, g, q)
<1>1. Base(mm, from, g, q)
  BY DEF Base
<1>2. Rest(m, from, g, q) => Rest(mm, from, g, q)
  BY DEF Rest, RunningInv, ResumedInv, LiveIn
<1> QED
  BY <1>1, <1>2

(* The fields of gdb. *)
LEMMA GdbFields ==
    ASSUME NEW m \in GdbType
    PROVE  /\ m.alive \in BOOLEAN /\ m.inferior \in {"none", "stopped", "running"}
           /\ m.sigint \in BOOLEAN /\ m.table \in Seq(Entry) /\ m.next \in Nat
  BY DEF GdbType, Entry

(* An answer is a record. *)
LEMMA ResultIs ==
    ASSUME NEW token \in Nat, NEW class \in Classes, NEW data \in Seq(Entry)
    PROVE  LET r == Result(token, class, data)
           IN  r \in Record /\ IsResult(r) /\ r.token = token /\ r.class = class /\ r.data = data
<1> DEFINE r == Result(token, class, data)
<1>1. r.record = "result" /\ r.token = token /\ r.class = class /\ r.data = data
  BY DEF Result
<1>2. r \in Record
  BY DEF Result, Record
<1> QED
  BY <1>1, <1>2 DEF IsResult

(* So is a *stopped one. *)
LEMMA StoppedIs ==
    ASSUME NEW class \in Classes
    PROVE  Stopped(class) \in Record /\ Stopped(class).record = "stopped"
<1>1. Stopped(class).record = "stopped"
  BY DEF Stopped
<1>2. <<>> \in Seq(Entry) /\ 0 \in Nat
  OBVIOUS
<1>3. Stopped(class) \in Record
  BY <1>2 DEF Stopped, Record
<1> QED
  BY <1>1, <1>3

(* What gdb may do with its breakpoints. *)
LEMMA WithoutIs ==
    ASSUME NEW table \in Seq(Entry), NEW n
    PROVE  Without(table, n) \in Seq(Entry)
<1>1. CASE n \in Numbers(table)
  <2>1. \E i \in DOMAIN table : table[i].number = n
    BY <1>1 DEF Numbers
  <2>2. (CHOOSE i \in DOMAIN table : table[i].number = n) \in DOMAIN table
    BY <2>1
  <2> QED
    BY <1>1, <2>2, RemovedAt DEF Without
<1>2. CASE n \notin Numbers(table)
  BY <1>2 DEF Without
<1> QED
  BY <1>1, <1>2

(* A breakpoint more. *)
LEMMA SetsIs ==
    ASSUME gdb \in GdbType, NEW c, c.arg \in Locations
    PROVE  LET b == New(c.arg)
           IN  /\ b \in Entry /\ <<b>> \in Seq(Entry) /\ Sets(c) \in GdbType
               /\ Sets(c).inferior = gdb.inferior /\ Sets(c).alive = gdb.alive
               /\ Sets(c).table = Append(gdb.table, b) /\ Sets(c).next = gdb.next + 1
<1> DEFINE b == New(c.arg)
<1>1. gdb.table \in Seq(Entry) /\ gdb.next \in Nat
  BY GdbFields
<1>2. b \in Entry
  BY <1>1 DEF Entry, New, Empty
<1>3. Append(gdb.table, b) \in Seq(Entry) /\ gdb.next + 1 \in Nat
  BY <1>1, <1>2
<1>4. Sets(c) = [gdb EXCEPT !.table = Append(@, b), !.next = @ + 1]
  BY DEF Sets
<1>5. Entry = [number : Nat, loc : Locations, condition : Nat]
  BY DEF Entry
<1> HIDE DEF b
<1>6. Sets(c) \in GdbType
  BY <1>3, <1>4, <1>5 DEF GdbType
<1>7. /\ Sets(c).inferior = gdb.inferior /\ Sets(c).alive = gdb.alive
      /\ Sets(c).table = Append(gdb.table, b) /\ Sets(c).next = gdb.next + 1
  BY <1>4 DEF GdbType
<1>8. <<b>> \in Seq(Entry)
  BY <1>2
<1> QED
  BY <1>2, <1>6, <1>7, <1>8 DEF b

(* A breakpoint with another condition, or nothing different. *)
LEMMA ChangedIs ==
    ASSUME gdb \in GdbType, NEW c, c.arg.text \in Nat, NEW m,
           m = IF c.kind = "ignore" THEN gdb
               ELSE [gdb EXCEPT !.table =
                       [i \in DOMAIN @ |-> IF @[i].number # c.arg.number THEN @[i]
                                           ELSE [@[i] EXCEPT !.condition = c.arg.text]]]
    PROVE  m \in GdbType /\ m.inferior = gdb.inferior
<1>1. PICK t, n, x : t = gdb.table /\ n = c.arg.number /\ x = c.arg.text
  OBVIOUS
<1>2. t \in Seq(Entry) /\ x \in Nat
  BY <1>1, GdbFields
<1>3. PICK u : u = [i \in DOMAIN t |-> IF t[i].number # n THEN t[i]
                                      ELSE [t[i] EXCEPT !.condition = x]]
  OBVIOUS
<1>4. \A i \in DOMAIN t : t[i] \in Entry /\ [t[i] EXCEPT !.condition = x] \in Entry
  <2> SUFFICES ASSUME NEW i \in DOMAIN t
               PROVE  t[i] \in Entry /\ [t[i] EXCEPT !.condition = x] \in Entry
    OBVIOUS
  <2>1. t[i] \in Entry
    BY <1>2
  <2> QED
    BY <1>2, <2>1 DEF Entry
<1>5. u \in Seq(Entry)
  BY <1>2, <1>3, <1>4
<1>6. u \in Seq([number : Nat, loc : Locations, condition : Nat])
  BY <1>5 DEF Entry
<1>7. CASE c.kind = "ignore"
  BY <1>7
<1>8. CASE c.kind # "ignore"
  <2>1. m = [gdb EXCEPT !.table = u]
    BY <1>1, <1>3, <1>8
  <2> QED
    BY <1>6, <2>1 DEF GdbType
<1> QED
  BY <1>7, <1>8

(* A gdb that ended. *)
LEMMA DeadIs == DeadGdb \in GdbType /\ DeadGdb.inferior = "none" /\ ~DeadGdb.alive
<1>1. <<>> \in Seq(Entry) /\ 1 \in Nat
  OBVIOUS
<1> QED
  BY <1>1 DEF DeadGdb, FreshGdb, GdbType, Entry

(* A gdb that was started. *)
LEMMA FreshIs == /\ FreshGdb \in GdbType /\ FreshGdb.inferior = "none" /\ FreshGdb.alive
                 /\ FreshGdb.table = <<>> /\ FreshGdb.next = 1
<1>1. <<>> \in Seq(Entry) /\ 1 \in Nat
  OBVIOUS
<1> QED
  BY <1>1 DEF FreshGdb, GdbType, Entry

(* Each command is answered once; what the answer says. *)
ReadsOne(c, r) ==
    /\ gdb' \in GdbType /\ r \in Record /\ IsResult(r) /\ r.token = c.token
    /\ fromGdb' = Append(fromGdb, r)
    /\ gdb'.inferior = "running" => c.kind \in {"run", "continue", "step"}
    /\ r.class = "running" => gdb'.inferior = "running"
    /\ gdb'.alive => gdb.alive /\ c.kind # "exit"

(* All that gdb reads is read so. *)
LEMMA ReadsAre ==
    ASSUME gdb \in GdbType, NEW c \in Command, gdb.inferior # "running", gdb.alive,
           \/ InsertBreakpoint(c) \/ DeleteBreakpoint(c)
           \/ ChangeBreakpoint(c) \/ ListBreakpoints(c)
           \/ Resume(c) \/ Query(c) \/ Exit(c)
    PROVE  \E r : ReadsOne(c, r)
<1>1. /\ c.token \in Nat /\ c.kind \in Kinds /\ Takes(c.kind, c.arg)
      /\ <<>> \in Seq(Entry) /\ {"done", "error", "running", "exit"} \subseteq Classes
      /\ gdb.table \in Seq(Entry)
  BY GdbFields DEF Command, Classes
<1>2. ASSUME NEW class \in {"done", "error", "running", "exit"}, NEW data \in Seq(Entry),
             fromGdb' = Append(fromGdb, Result(c.token, class, data)), gdb' \in GdbType,
             gdb'.inferior = "running" => c.kind \in {"run", "continue", "step"},
             class = "running" => gdb'.inferior = "running",
             gdb'.alive => gdb.alive /\ c.kind # "exit"
      PROVE  \E r : ReadsOne(c, r)
  <2>1. class \in Classes
    BY <1>1, <1>2
  <2> DEFINE r == Result(c.token, class, data)
  <2>2. r \in Record /\ IsResult(r) /\ r.token = c.token /\ r.class = class
    BY <1>1, <2>1, ResultIs
  <2>3. fromGdb' = Append(fromGdb, r)
    BY <1>2
  <2> HIDE DEF r
  <2>4. ReadsOne(c, r)
    BY <1>2, <2>2, <2>3 DEF ReadsOne
  <2> QED
    BY <2>4
<1>3. CASE InsertBreakpoint(c)
  <2>1. c.arg \in Locations /\ c.kind \in {"insert", "break"}
    BY <1>1, <1>3 DEF InsertBreakpoint, Takes
  <2>2. /\ <<New(c.arg)>> \in Seq(Entry) /\ Sets(c) \in GdbType
        /\ Sets(c).inferior = gdb.inferior
    BY <2>1, SetsIs
  <2>3. CASE /\ gdb' = Sets(c)
             /\ fromGdb' = Append(fromGdb, Result(c.token, "done",
                                       <<New(c.arg)>>))
    BY <1>2, <2>1, <2>2, <2>3
  <2>4. CASE fromGdb' = Append(fromGdb, Result(c.token, "error", <<>>)) /\ gdb' = gdb
    BY <1>1, <1>2, <2>1, <2>4
  <2>5. CASE fromGdb' = Append(fromGdb, Result(c.token, "done", <<>>)) /\ gdb' = Sets(c)
    BY <1>1, <1>2, <2>1, <2>2, <2>5
  <2> QED
    BY <1>3, <2>3, <2>4, <2>5 DEF InsertBreakpoint
<1>4. CASE DeleteBreakpoint(c)
  <2> DEFINE class == IF c.arg \in Numbers(gdb.table) THEN "done" ELSE "error"
  <2>1. /\ gdb' = [gdb EXCEPT !.table = Without(@, c.arg)] /\ c.kind = "delete"
        /\ fromGdb' = Append(fromGdb, Result(c.token, class, <<>>))
    BY <1>4 DEF DeleteBreakpoint
  <2>2. class \in {"done", "error"}
    OBVIOUS
  <2>3. Without(gdb.table, c.arg) \in Seq(Entry)
    BY <1>1, WithoutIs DEF Entry
  <2> HIDE DEF class
  <2>4. gdb' \in GdbType /\ gdb'.inferior = gdb.inferior
    BY <2>1, <2>3 DEF GdbType, Entry
  <2> QED
    BY <1>1, <1>2, <2>1, <2>2, <2>4
<1>5. CASE ListBreakpoints(c)
  BY <1>1, <1>2, <1>5 DEF ListBreakpoints
<1>6. CASE Resume(c)
  <2>1. c.kind \in {"run", "continue", "step"}
    BY <1>6 DEF Resume
  <2>2. CASE /\ gdb' = [gdb EXCEPT !.inferior = "running"]
             /\ fromGdb' = Append(fromGdb, Result(c.token, "running", <<>>))
    <3>1. gdb' \in GdbType /\ gdb'.inferior = "running"
      BY <2>2 DEF GdbType
    <3> QED
      BY <1>1, <1>2, <2>1, <2>2, <3>1
  <2>3. CASE fromGdb' = Append(fromGdb, Result(c.token, "error", <<>>)) /\ gdb' = gdb
    BY <1>1, <1>2, <2>1, <2>3
  <2> QED
    BY <1>6, <2>2, <2>3 DEF Resume
<1>7. CASE Query(c)
  BY <1>1, <1>2, <1>7 DEF Query
<1>8. CASE Exit(c)
  BY <1>1, <1>2, <1>8, DeadIs DEF Exit
<1>9. CASE ChangeBreakpoint(c)
  <2>1. c.kind \in {"info", "condition", "ignore"}
    BY <1>9 DEF ChangeBreakpoint
  <2>2. CASE /\ fromGdb' = Append(fromGdb, Result(c.token, "done", <<>>))
             /\ c.kind \in {"condition", "ignore"}
             /\ gdb' = IF c.kind = "ignore" THEN gdb
                       ELSE [gdb EXCEPT !.table =
                               [i \in DOMAIN @ |-> IF @[i].number # c.arg.number THEN @[i]
                                                   ELSE [@[i] EXCEPT !.condition = c.arg.text]]]
    <3>1. c.arg.text \in Nat
      BY <1>1, <2>2 DEF Takes, Change
    <3>2. gdb' \in GdbType /\ gdb'.inferior = gdb.inferior
      BY <2>2, <3>1, ChangedIs
    <3> QED
      BY <1>1, <1>2, <2>1, <2>2, <3>2
  <2>3. CASE fromGdb' = Append(fromGdb, Result(c.token, "done", <<>>)) /\ gdb' = gdb
    BY <1>1, <1>2, <2>1, <2>3
  <2>4. CASE fromGdb' = Append(fromGdb, Result(c.token, "error", <<>>)) /\ gdb' = gdb
    BY <1>1, <1>2, <2>1, <2>4
  <2> QED
    BY <1>9, <2>2, <2>3, <2>4 DEF ChangeBreakpoint
<1> QED
  BY <1>3, <1>4, <1>5, <1>6, <1>7, <1>8, <1>9

(* Reading a command and answering it keeps the invariant. *)
LEMMA GdbReadsKeeps ==
    ASSUME Base(gdb, fromGdb, gui, toGdb), GdbReads, UNCHANGED gui
    PROVE  /\ Base(gdb', fromGdb', gui', toGdb')
           /\ Rest(gdb, fromGdb, gui, toGdb) => Rest(gdb', fromGdb', gui', toGdb')
<1>1. gdb \in GdbType /\ toGdb \in Seq(Command)
  BY DEF Base
<1>2. /\ gdb.alive /\ gdb.inferior # "running" /\ toGdb # <<>> /\ toGdb' = Tail(toGdb)
      /\ gui' = gui
  BY DEF GdbReads
<1> DEFINE c == Head(toGdb)
<1>3. c \in Command
  BY <1>1, <1>2
<1>4. \/ InsertBreakpoint(c) \/ DeleteBreakpoint(c)
      \/ ChangeBreakpoint(c) \/ ListBreakpoints(c)
      \/ Resume(c) \/ Query(c) \/ Exit(c)
  BY DEF GdbReads
<1>5. PICK r : ReadsOne(c, r)
  BY <1>1, <1>2, <1>3, <1>4, ReadsAre
<1>6. /\ gdb' \in GdbType /\ r \in Record /\ IsResult(r) /\ r.token = c.token
      /\ fromGdb' = Append(fromGdb, r)
      /\ gdb'.inferior = "running" => c.kind \in {"run", "continue", "step"}
      /\ r.class = "running" => gdb'.inferior = "running"
      /\ gdb'.alive => gdb.alive /\ c.kind # "exit"
  BY <1>5 DEF ReadsOne
<1>7. /\ Base(gdb', Append(fromGdb, r), gui, Tail(toGdb))
      /\ Rest(gdb, fromGdb, gui, toGdb) => Rest(gdb', Append(fromGdb, r), gui, Tail(toGdb))
  BY <1>2, <1>6, ReadStep
<1> QED
  BY <1>2, <1>6, <1>7

(* So does a stop of the inferior. *)
LEMMA InferiorStopsKeeps ==
    ASSUME Base(gdb, fromGdb, gui, toGdb), InferiorStops, UNCHANGED gui
    PROVE  /\ Base(gdb', fromGdb', gui', toGdb')
           /\ Rest(gdb, fromGdb, gui, toGdb) => Rest(gdb', fromGdb', gui', toGdb')
<1>1. gdb \in GdbType
  BY DEF Base
<1>2. gdb.inferior = "running" /\ gdb.alive /\ gui' = gui /\ toGdb' = toGdb
  BY DEF InferiorStops
<1>3. \E r \in Record : r.record = "stopped" /\ fromGdb' = Append(fromGdb, r)
  <2>1. {"breakpoint-hit", "exited", "signal-received"} \subseteq Classes
    BY DEF Classes
  <2>2. \E class \in {"breakpoint-hit", "exited", "signal-received"} :
            fromGdb' = Append(fromGdb, Stopped(class))
    BY DEF InferiorStops, HitBreakpoint, EndInferior, SignalStops
  <2> QED
    BY <2>1, <2>2, StoppedIs
<1>4. gdb' \in GdbType /\ gdb'.inferior # "running" /\ gdb'.alive = gdb.alive
  <2>1. CASE HitBreakpoint
    BY <1>1, <2>1 DEF HitBreakpoint, GdbType
  <2>2. CASE EndInferior
    BY <1>1, <2>2 DEF EndInferior, GdbType
  <2>3. CASE SignalStops
    BY <1>1, <2>3 DEF SignalStops, GdbType
  <2> QED
    BY <2>1, <2>2, <2>3 DEF InferiorStops
<1>5. PICK r \in Record : r.record = "stopped" /\ fromGdb' = Append(fromGdb, r)
  BY <1>3
<1>6. /\ Base(gdb', Append(fromGdb, r), gui, toGdb)
      /\ Rest(gdb, fromGdb, gui, toGdb) => Rest(gdb', Append(fromGdb, r), gui, toGdb)
  BY <1>2, <1>4, <1>5, StopsStep
<1> QED
  BY <1>2, <1>5, <1>6

(* So does a crash. *)
LEMMA GdbCrashesKeeps ==
    ASSUME Base(gdb, fromGdb, gui, toGdb), GdbCrashes, UNCHANGED gui
    PROVE  /\ Base(gdb', fromGdb', gui', toGdb')
           /\ Rest(gdb, fromGdb, gui, toGdb) => Rest(gdb', fromGdb', gui', toGdb')
<1>1. /\ gdb' = DeadGdb /\ toGdb' = toGdb /\ fromGdb' = fromGdb /\ gui' = gui
  BY DEF GdbCrashes
<1>2. /\ Base(DeadGdb, fromGdb, gui, toGdb)
      /\ Rest(gdb, fromGdb, gui, toGdb) => Rest(DeadGdb, fromGdb, gui, toGdb)
  BY DeadIs, CrashStep
<1> QED
  BY <1>1, <1>2

(* Steps of the GUI thread that send, and wait for nothing. *)
LEMMA QuietKeeps ==
    ASSUME Base(gdb, fromGdb, gui, toGdb), NEW h \in Gui, Quiet(gui, h), Becomes(h),
           UNCHANGED fromGdb
    PROVE  /\ Base(gdb', fromGdb', gui', toGdb')
           /\ Rest(gdb, fromGdb, gui, toGdb) => Rest(gdb', fromGdb', gui', toGdb')
<1>1. /\ gui' = Flushed(h) /\ toGdb' = toGdb \o h.out
      /\ gdb' \in GdbType /\ SameProcess(gdb, gdb') /\ fromGdb' = fromGdb
  BY BecomesIs
<1> QED
  BY <1>1, QuietStep

(* So does the handling of a record, answer or stop. *)
LEMMA HandleResponseKeeps ==
    ASSUME Base(gdb, fromGdb, gui, toGdb), HandleResponse
    PROVE  /\ Base(gdb', fromGdb', gui', toGdb')
           /\ Rest(gdb, fromGdb, gui, toGdb) => Rest(gdb', fromGdb', gui', toGdb')
<1> DEFINE r == Head(fromGdb)
<1>1. fromGdb # <<>> /\ fromGdb' = Tail(fromGdb)
  BY DEF HandleResponse
<1>2. r \in Record
  BY <1>1 DEF Base
<1>3. CASE IsResult(r)
  <2>1. r.record # "stopped"
    BY <1>3 DEF IsResult
  <2>2. PICK k \in HandleResultRecord(gui, r) : Becomes(k)
    BY <2>1 DEF HandleResponse
  <2>3. gui \in Gui /\ r.token \in DOMAIN gui.cookies
    BY <1>1, <1>3, ResultTaken DEF Base
  <2>4. k \in Gui
    BY <1>2, <2>2, <2>3, ResultRecord DEF Sends
  <2>5. /\ gui' = Flushed(k) /\ toGdb' = toGdb \o k.out
        /\ gdb' \in GdbType /\ SameProcess(gdb, gdb')
    BY <2>2, <2>4, BecomesIs
  <2>6. /\ Base(gdb', Tail(fromGdb), Flushed(k), toGdb \o k.out)
        /\ Rest(gdb, fromGdb, gui, toGdb) =>
               Rest(gdb', Tail(fromGdb), Flushed(k), toGdb \o k.out)
    BY <1>1, <1>3, <2>2, <2>5, ResultStep
  <2> QED
    BY <1>1, <2>5, <2>6
<1>4. CASE ~IsResult(r)
  <2> DEFINE k == HandleAsyncOutput(gui, r.class)
  <2>1. r.record = "stopped"
    BY <1>2, <1>4 DEF IsResult, Record
  <2>2. Becomes(k)
    BY <2>1 DEF HandleResponse
  <2>3. SameProcess(gdb, gdb) /\ gdb \in GdbType
    BY DEF SameProcess, Base
  <2> HIDE DEF k
  <2>4. k = HandleAsyncOutput(gui, r.class)
    BY DEF k
  <2>5. k \in Gui
    BY <1>1, <1>4, <2>3, <2>4, StopStep
  <2>6. /\ gui' = Flushed(k) /\ toGdb' = toGdb \o k.out
        /\ gdb' \in GdbType /\ SameProcess(gdb, gdb')
    BY <2>2, <2>5, BecomesIs
  <2>7. /\ Base(gdb', Tail(fromGdb), Flushed(k), toGdb \o k.out)
        /\ Rest(gdb, fromGdb, gui, toGdb) =>
               Rest(gdb', Tail(fromGdb), Flushed(k), toGdb \o k.out)
    BY <1>1, <1>4, <2>4, <2>6, StopStep
  <2> QED
    BY <1>1, <2>6, <2>7
<1> QED
  BY <1>3, <1>4

(* So does the posted synchronization. *)
LEMMA TimerSynchronizesKeeps ==
    ASSUME Base(gdb, fromGdb, gui, toGdb), TimerSynchronizes
    PROVE  /\ Base(gdb', fromGdb', gui', toGdb')
           /\ Rest(gdb, fromGdb, gui, toGdb) => Rest(gdb', fromGdb', gui', toGdb')
<1> DEFINE s == [gui EXCEPT !.timer = FALSE]
           k == AttemptBreakpointSynchronization(s)
<1>1. gui \in Gui
  BY DEF Base
<1>2. gui \in GuiRecord
  BY <1>1, GuiFields
<1>3. s \in GuiRecord
  BY <1>2 DEF GuiRecord
<1>4. SameChannel(gui, s) /\ s.barrier = gui.barrier /\ s.status = gui.status
  BY <1>2 DEF GuiRecord, SameChannel
<1>5. Becomes(k) /\ UNCHANGED fromGdb
  BY DEF TimerSynchronizes
<1> HIDE DEF s
<1>6. Quiet(gui, s)
  BY <1>1, <1>3, <1>4, QuietFields
<1> HIDE DEF k
<1>7. Quiet(gui, k)
  BY <1>1, <1>6, ThenSynchronized DEF k
<1>8. k \in Gui
  BY <1>7, QuietGui
<1> QED
  BY <1>5, <1>7, <1>8, QuietKeeps

(* gdb has ended, and nothing is read or answered any more. *)
LEMMA LeavingKeeps ==
    ASSUME Base(gdb, fromGdb, gui, toGdb),
           gui' = FinishExit([gui EXCEPT !.process = "notRunning"]), toGdb' = <<>>,
           gdb' = gdb, fromGdb' = fromGdb
    PROVE  /\ Base(gdb', fromGdb', gui', toGdb')
           /\ Rest(gdb, fromGdb, gui, toGdb) => Rest(gdb', fromGdb', gui', toGdb')
<1> DEFINE s == [gui EXCEPT !.process = "notRunning"]
           h == FinishExit(s)
<1>1. gui \in Gui /\ gui.out = <<>> /\ ~gui.interrupt /\ Channel(fromGdb, gui, toGdb)
  BY DEF Base
<1>2. gui \in GuiRecord /\ DOMAIN gui.cookies \subseteq 1..gui.token /\ gui.barrier \in -1..gui.token
  BY <1>1 DEF Gui
<1>3. s \in GuiRecord
  BY <1>2 DEF GuiRecord
<1>4. /\ s.cookies = gui.cookies /\ s.token = gui.token /\ s.barrier = gui.barrier
      /\ s.out = gui.out /\ s.interrupt = gui.interrupt /\ s.process = "notRunning"
  BY <1>2 DEF GuiRecord
<1>5. s \in Gui
  BY <1>2, <1>3, <1>4, GuiFrom
<1>6. gui' = h
  OBVIOUS
<1> HIDE DEF s
<1>7. Quiet(s, h) /\ SameChannel(s, h) /\ h.interrupt = s.interrupt
  BY <1>5, Finished
<1>8. h \in Gui
  BY <1>7, QuietGui
<1> HIDE DEF h
<1>9. Channel(fromGdb, h, <<>>)
  BY <1>1, <1>4, <1>7 DEF Channel, InOrder, SameChannel
<1>10. Base(gdb, fromGdb, h, <<>>)
  <2>1. <<>> \in Seq(Command)
    OBVIOUS
  <2> QED
    BY <1>1, <1>4, <1>7, <1>8, <1>9, <2>1 DEF Base, SameChannel
<1>11. h.process = "notRunning"
  BY <1>4, <1>7 DEF SameChannel
<1>12. Rest(gdb, fromGdb, h, <<>>)
  BY <1>11 DEF Rest, RunningInv, ResumedInv, LiveIn
<1> QED
  BY <1>6, <1>10, <1>12

(* So does the end of exitDebugger, *)
LEMMA ExitReturnsKeeps ==
    ASSUME Base(gdb, fromGdb, gui, toGdb), ExitReturns
    PROVE  /\ Base(gdb', fromGdb', gui', toGdb')
           /\ Rest(gdb, fromGdb, gui, toGdb) => Rest(gdb', fromGdb', gui', toGdb')
  BY LeavingKeeps DEF ExitReturns

(* the end of gdb by itself, *)
LEMMA GdbFinishedKeeps ==
    ASSUME Base(gdb, fromGdb, gui, toGdb), GdbFinished
    PROVE  /\ Base(gdb', fromGdb', gui', toGdb')
           /\ Rest(gdb, fromGdb, gui, toGdb) => Rest(gdb', fromGdb', gui', toGdb')
  BY LeavingKeeps DEF GdbFinished

(* What changes the record quietly and sends nothing keeps it too. *)
LEMMA SilentKeeps ==
    ASSUME Base(gdb, fromGdb, gui, toGdb), NEW h, Quiet(gui, h),
           h.out = gui.out, h.interrupt = gui.interrupt, gui' = h, UNCHANGED gdbVars
    PROVE  /\ Base(gdb', fromGdb', gui', toGdb')
           /\ Rest(gdb, fromGdb, gui, toGdb) => Rest(gdb', fromGdb', gui', toGdb')
<1>1. gui.out = <<>> /\ ~gui.interrupt /\ gdb \in GdbType /\ toGdb \in Seq(Command)
  BY DEF Base
<1>2. gdb' = gdb /\ toGdb' = toGdb /\ fromGdb' = fromGdb
  BY DEF gdbVars
<1>3. SameProcess(gdb, gdb)
  BY DEF SameProcess
<1>4. h \in Gui
  BY QuietGui
<1>5. h.out = <<>> /\ h.interrupt = FALSE /\ toGdb \o h.out = toGdb
  BY <1>1, <1>4, GuiFields DEF Fields
<1>6. Flushed(h) = h
  BY <1>4, <1>5 DEF Flushed, Gui, GuiRecord
<1>7. /\ Base(gdb, fromGdb, Flushed(h), toGdb \o h.out)
      /\ Rest(gdb, fromGdb, gui, toGdb) => Rest(gdb, fromGdb, Flushed(h), toGdb \o h.out)
  BY <1>1, <1>3, QuietStep
<1> QED
  BY <1>2, <1>5, <1>6, <1>7

(* So does the end of the patience with gdb, *)
LEMMA ExitTimesOutKeeps ==
    ASSUME Base(gdb, fromGdb, gui, toGdb), ExitTimesOut
    PROVE  /\ Base(gdb', fromGdb', gui', toGdb')
           /\ Rest(gdb, fromGdb, gui, toGdb) => Rest(gdb', fromGdb', gui', toGdb')
<1> DEFINE h == FinishExit(gui)
<1>1. gui \in Gui
  BY DEF Base
<1>2. Quiet(gui, h) /\ SameChannel(gui, h) /\ h.interrupt = gui.interrupt
  BY <1>1, Finished
<1>3. gui' = h /\ UNCHANGED gdbVars
  BY DEF ExitTimesOut
<1> HIDE DEF h
<1> QED
  BY <1>2, <1>3, SilentKeeps DEF SameChannel

(* the edit of a condition, *)
LEMMA UserEditsKeeps ==
    ASSUME Base(gdb, fromGdb, gui, toGdb), UserEdits
    PROVE  /\ Base(gdb', fromGdb', gui', toGdb')
           /\ Rest(gdb, fromGdb, gui, toGdb) => Rest(gdb', fromGdb', gui', toGdb')
<1>1. gui \in Gui /\ gui \in GuiRecord
  BY GuiFields DEF Base
<1>2. PICK i \in DOMAIN gui.rows, condition \in Nat, ignoreCount \in Nat :
          EditCondition(i, condition, ignoreCount)
  BY QueriesAssumption DEF UserEdits, Empty
<1> DEFINE h == [gui EXCEPT !.rows[i].condition = condition,
                            !.rows[i].ignoreCount = ignoreCount]
<1>3. Quiet(gui, h)
  BY <1>1, RowEdited
<1>4. h.out = gui.out /\ h.interrupt = gui.interrupt
  BY <1>1 DEF GuiRecord
<1>5. gui' = h /\ UNCHANGED gdbVars
  BY <1>2 DEF EditCondition
<1> HIDE DEF h
<1> QED
  BY <1>3, <1>4, <1>5, SilentKeeps

(* and saving the breakpoints. *)
LEMMA AboutToSaveSessionKeeps ==
    ASSUME Base(gdb, fromGdb, gui, toGdb), AboutToSaveSession
    PROVE  /\ Base(gdb', fromGdb', gui', toGdb')
           /\ Rest(gdb, fromGdb, gui, toGdb) => Rest(gdb', fromGdb', gui', toGdb')
<1> DEFINE h == SaveBreakpoints(gui)
<1>1. gui \in Gui /\ gui \in GuiRecord
  BY GuiFields DEF Base
<1>2. Quiet(gui, h)
  BY <1>1, Saved
<1>3. h.out = gui.out /\ h.interrupt = gui.interrupt
  BY <1>1 DEF GuiRecord, SaveBreakpoints
<1>4. gui' = h /\ UNCHANGED gdbVars
  BY DEF AboutToSaveSession
<1> HIDE DEF h
<1> QED
  BY <1>2, <1>3, <1>4, SilentKeeps

(* A new gdb gets new pipes. *)
LEMMA StartNewDebuggerKeeps ==
    ASSUME Base(gdb, fromGdb, gui, toGdb), NEW external \in {FALSE, External},
           StartNewDebugger(external)
    PROVE  /\ Base(gdb', fromGdb', gui', toGdb')
           /\ Rest(gdb, fromGdb, gui, toGdb) => Rest(gdb', fromGdb', gui', toGdb')
<1> DEFINE a == [gui EXCEPT !.process = "running", !.external = external]
           b == Queries(a, OtherQueries, FALSE)
           s == SetAllPending(b)
           k == [s EXCEPT !.timer = TRUE, !.status = "startingUp"]
<1>1. gui \in Gui /\ gui.out = <<>> /\ gui.interrupt = FALSE /\ Channel(fromGdb, gui, toGdb)
  BY GuiFields DEF Base, Fields
<1>2. gui \in GuiRecord /\ DOMAIN gui.cookies \subseteq 1..gui.token /\ gui.barrier \in -1..gui.token
  BY <1>1 DEF Gui
<1>3. a \in Gui
  <2>1. external \in BOOLEAN
    BY QueriesAssumption
  <2>2. a \in GuiRecord
    BY <1>2, <2>1 DEF GuiRecord
  <2>3. a.cookies = gui.cookies /\ a.token = gui.token /\ a.barrier = gui.barrier
    BY <1>2 DEF GuiRecord
  <2> QED
    BY <1>2, <2>2, <2>3, GuiFrom
<1>4. /\ a.out = gui.out /\ a.interrupt = gui.interrupt /\ a.status = gui.status
  BY <1>2 DEF GuiRecord
<1>5. /\ fromGdb' = <<>> /\ gdb' = FreshGdb /\ toGdb' = b.out
      /\ gui.status \in {"notReady", "ready"}
      /\ gui' = [s EXCEPT !.timer = TRUE, !.status = "startingUp", !.out = <<>>]
  BY DEF StartNewDebugger
<1> HIDE DEF a
<1>6. Base(FreshGdb, <<>>, a, <<>>)
  <2>1. Channel(<<>>, a, <<>>)
    BY DEF Channel, InOrder
  <2>2. <<>> \in Seq(Command) /\ <<>> \in Seq(Record)
    OBVIOUS
  <2> QED
    BY <1>1, <1>3, <1>4, <2>1, <2>2, FreshIs DEF Base
<1>7. Rest(FreshGdb, <<>>, a, <<>>)
  BY <1>4, <1>5 DEF Rest, RunningInv, ResumedInv
<1>8. Quiet(a, b) /\ b.interrupt = FALSE
  <2>1. OtherQueries \in Nat /\ FALSE \in BOOLEAN
    BY QueriesAssumption
  <2> QED
    BY <1>1, <1>3, <1>4, <2>1, Queried
<1>9. b \in Gui /\ b \in GuiRecord
  BY <1>8, QuietGui, GuiFields
<1> HIDE DEF b
<1>10. Quiet(b, s)
  BY <1>9, AllPending
<1>11. s.out = b.out /\ s.interrupt = FALSE
  BY <1>8, <1>9 DEF SetAllPending, GuiRecord
<1>12. s \in Gui /\ s \in GuiRecord
  BY <1>10, QuietGui, GuiFields
<1> HIDE DEF s
<1>13. k \in GuiRecord
  BY <1>12 DEF GuiRecord, Status
<1>14. /\ SameChannel(s, k) /\ k.barrier = s.barrier /\ k.out = s.out
       /\ k.status = "startingUp" /\ k.interrupt = FALSE
  BY <1>11, <1>12 DEF GuiRecord, SameChannel
<1>15. gui' = Flushed(k)
  BY <1>5, <1>11, <1>12 DEF Flushed, GuiRecord
<1> HIDE DEF k
<1>16. Quiet(s, k)
  BY <1>12, <1>13, <1>14, QuietFields
<1>17. Quiet(a, s)
  BY <1>3, <1>8, <1>10, QuietThenQuiet
<1>18. Quiet(a, k)
  BY <1>3, <1>16, <1>17, QuietThenQuiet
<1>19. toGdb' = <<>> \o k.out
  <2>1. k.out \in Seq(Command)
    BY <1>18, QuietGui, GuiFields DEF Fields
  <2> QED
    BY <1>5, <1>11, <1>14, <2>1
<1>20. SameProcess(FreshGdb, FreshGdb)
  BY DEF SameProcess
<1>21. /\ Base(FreshGdb, <<>>, Flushed(k), <<>> \o k.out)
       /\ Rest(FreshGdb, <<>>, a, <<>>) => Rest(FreshGdb, <<>>, Flushed(k), <<>> \o k.out)
  BY <1>6, <1>18, <1>20, FreshIs, QuietStep
<1> QED
  BY <1>5, <1>7, <1>15, <1>19, <1>21

(* The user lets the inferior go on. *)
LEMMA ResumesKeeps ==
    ASSUME Base(gdb, fromGdb, gui, toGdb), ContinueExec \/ Step \/ RunToLine
    PROVE  /\ Base(gdb', fromGdb', gui', toGdb')
           /\ Rest(gdb, fromGdb, gui, toGdb) => Rest(gdb', fromGdb', gui', toGdb')
<1>1. gui \in Gui
  BY DEF Base
<1>2. PICK h \in {ContinueInferior(gui), StepExec(gui), RunToLineExec(gui)} :
          Becomes(h) /\ UNCHANGED fromGdb
  BY DEF ContinueExec, Step, RunToLine
<1>3. Quiet(gui, h)
  BY <1>1, Resuming
<1>4. h \in Gui
  BY <1>3, QuietGui
<1> QED
  BY <1>2, <1>3, <1>4, QuietKeeps

(* The user interrupts it, or leaves. *)
LEMMA InterruptDebuggingRequestKeeps ==
    ASSUME Base(gdb, fromGdb, gui, toGdb), InterruptDebuggingRequest
    PROVE  /\ Base(gdb', fromGdb', gui', toGdb')
           /\ Rest(gdb, fromGdb, gui, toGdb) => Rest(gdb', fromGdb', gui', toGdb')
<1>1. gui \in Gui
  BY DEF Base
<1>2. CASE gui.status = "running"
  <2> DEFINE s == SetStatus(gui, "stopRequested")
             h == InterruptInferior(s)
  <2>1. Quiet(gui, s)
    BY <1>1, StatusSet DEF Status
  <2>2. Becomes(h) /\ UNCHANGED fromGdb
    BY <1>2 DEF InterruptDebuggingRequest
  <2>3. s \in Gui
    BY <2>1, QuietGui
  <2> HIDE DEF s
  <2>4. Quiet(s, h)
    BY <2>3, Interrupted
  <2> HIDE DEF h
  <2>5. Quiet(gui, h)
    BY <1>1, <2>1, <2>4, QuietThenQuiet
  <2>6. h \in Gui
    BY <2>5, QuietGui
  <2> QED
    BY <2>2, <2>5, <2>6, QuietKeeps
<1>3. CASE gui.status # "running"
  <2>1. Becomes(ExitDebugger(gui)) /\ UNCHANGED fromGdb
    BY <1>3 DEF InterruptDebuggingRequest
  <2>2. Quiet(gui, ExitDebugger(gui))
    BY <1>1, Exits
  <2>3. ExitDebugger(gui) \in Gui
    BY <2>2, QuietGui
  <2> QED
    BY <2>1, <2>2, <2>3, QuietKeeps
<1> QED
  BY <1>2, <1>3

(* The user sets a breakpoint, or takes one away. *)
LEMMA ToggleBreakpointKeeps ==
    ASSUME Base(gdb, fromGdb, gui, toGdb), NEW loc \in Locations, ToggleBreakpoint(loc)
    PROVE  /\ Base(gdb', fromGdb', gui', toGdb')
           /\ Rest(gdb, fromGdb, gui, toGdb) => Rest(gdb', fromGdb', gui', toGdb')
<1>1. gui \in Gui
  BY DEF Base
<1> DEFINE i == IndexOf(gui, loc)
<1>2. i \in DOMAIN gui.rows \cup {0}
  BY <1>1, PlacesFound
<1>3. UNCHANGED fromGdb
  BY DEF ToggleBreakpoint
<1>4. \/ i = 0 /\ Becomes(AttemptBreakpointSynchronization(SetBreakpoint(gui, loc)))
      \/ i # 0 /\ Becomes(AttemptBreakpointSynchronization(RemoveBreakpoint(gui, i)))
  BY DEF ToggleBreakpoint
<1> HIDE DEF i
<1>5. PICK a : Quiet(gui, a) /\ Becomes(AttemptBreakpointSynchronization(a))
  <2>1. Quiet(gui, SetBreakpoint(gui, loc))
    BY <1>1, BreakpointSet
  <2>2. i # 0 => Quiet(gui, RemoveBreakpoint(gui, i))
    BY <1>1, <1>2, BreakpointRemoved
  <2> QED
    BY <1>4, <2>1, <2>2
<1> DEFINE k == AttemptBreakpointSynchronization(a)
<1>6. Quiet(gui, k)
  BY <1>1, <1>5, ThenSynchronized
<1>7. k \in Gui
  BY <1>6, QuietGui
<1>8. Becomes(k)
  BY <1>5
<1> HIDE DEF k
<1> QED
  BY <1>3, <1>6, <1>7, <1>8, QuietKeeps

(* The user deletes a row. *)
LEMMA DeleteRowKeeps ==
    ASSUME Base(gdb, fromGdb, gui, toGdb), NEW i \in DOMAIN gui.rows, DeleteRow(i)
    PROVE  /\ Base(gdb', fromGdb', gui', toGdb')
           /\ Rest(gdb, fromGdb, gui, toGdb) => Rest(gdb', fromGdb', gui', toGdb')
<1>1. gui \in Gui
  BY DEF Base
<1>2. Becomes(RemoveBreakpoint(gui, i)) /\ UNCHANGED fromGdb
  BY DEF DeleteRow
<1>3. Quiet(gui, RemoveBreakpoint(gui, i))
  BY <1>1, BreakpointRemoved
<1>4. RemoveBreakpoint(gui, i) \in Gui
  BY <1>3, QuietGui
<1> QED
  BY <1>2, <1>3, <1>4, QuietKeeps

(* The user looks at another frame. *)
LEMMA ActivateFrameKeeps ==
    ASSUME Base(gdb, fromGdb, gui, toGdb), ActivateFrame
    PROVE  /\ Base(gdb', fromGdb', gui', toGdb')
           /\ Rest(gdb, fromGdb, gui, toGdb) => Rest(gdb', fromGdb', gui', toGdb')
<1> DEFINE s == Queries(gui, 1, FALSE)
           h == UpdateLocals(s)
<1>1. gui \in Gui
  BY DEF Base
<1>2. Quiet(gui, s) /\ s.status = gui.status
  BY <1>1, Queried
<1>3. gui.status = "stopped" /\ Becomes(h) /\ UNCHANGED fromGdb
  BY DEF ActivateFrame
<1>4. s \in Gui
  BY <1>2, QuietGui
<1> HIDE DEF s
<1>5. Quiet(s, h)
  BY <1>2, <1>3, <1>4, LocalsAsked
<1> HIDE DEF h
<1>6. Quiet(gui, h)
  BY <1>1, <1>2, <1>5, QuietThenQuiet
<1>7. h \in Gui
  BY <1>6, QuietGui
<1> QED
  BY <1>3, <1>6, <1>7, QuietKeeps

(* The user expands an item of the views. *)
LEMMA UpdateWatchModelKeeps ==
    ASSUME Base(gdb, fromGdb, gui, toGdb), UpdateWatchModel
    PROVE  /\ Base(gdb', fromGdb', gui', toGdb')
           /\ Rest(gdb, fromGdb, gui, toGdb) => Rest(gdb', fromGdb', gui', toGdb')
<1> DEFINE s == [gui EXCEPT !.pending = 0]
<1>1. gui \in Gui
  BY DEF Base
<1>2. Quiet(gui, s)
  BY <1>1, PendingSet
<1>3. PICK h \in UpdateWatchModel2(s) : Becomes(h)
  BY DEF UpdateWatchModel
<1>4. UNCHANGED fromGdb
  BY DEF UpdateWatchModel
<1>5. s \in Gui
  BY <1>2, QuietGui
<1> HIDE DEF s
<1>6. Quiet(s, h)
  BY <1>3, <1>5, WatchModelUpdated
<1>7. Quiet(gui, h)
  BY <1>1, <1>2, <1>6, QuietThenQuiet
<1>8. h \in Gui
  BY <1>7, QuietGui
<1> QED
  BY <1>3, <1>4, <1>7, <1>8, QuietKeeps

(* The views are asked for anew; if that is done while the inferior runs,  *)
(* a stop may be dropped.                                                  *)
LEMMA SetCustomDumpersWantedKeeps ==
    ASSUME Base(gdb, fromGdb, gui, toGdb), SetCustomDumpersWanted
    PROVE  /\ Base(gdb', fromGdb', gui', toGdb')
           /\ "dumpers" \notin Careless /\ Rest(gdb, fromGdb, gui, toGdb) =>
                  Rest(gdb', fromGdb', gui', toGdb')
<1> DEFINE h == UpdateLocals(gui)
           f == Flushed(h)
           qq == toGdb \o h.out
<1>1. gui \in Gui
  BY DEF Base
<1>2. Sends(gui, h) /\ h.status = gui.status
  BY <1>1, LocalsAsked
<1>3. Becomes(h) /\ fromGdb' = fromGdb
  BY DEF SetCustomDumpersWanted
<1>4. h \in Gui
  BY <1>2 DEF Sends
<1> HIDE DEF h
<1>5. /\ gui' = f /\ toGdb' = qq /\ gdb' \in GdbType /\ SameProcess(gdb, gdb')
  BY <1>3, <1>4, BecomesIs
<1>6. /\ Base(gdb', fromGdb, f, qq)
      /\ ResumedInv(gdb, fromGdb, gui, toGdb) => ResumedInv(gdb', fromGdb, f, qq)
      /\ LiveIn(gdb', f, qq) => LiveIn(gdb, gui, toGdb)
  BY <1>2, <1>5, SendsStep
<1>7. f.status = gui.status
  BY <1>2, <1>4, FlushedIs DEF SameState
<1> HIDE DEF f, qq
<1>8. ASSUME "dumpers" \notin Careless, Rest(gdb, fromGdb, gui, toGdb)
      PROVE  Rest(gdb', fromGdb, f, qq)
  <2>1. toGdb = <<>> /\ fromGdb = <<>> /\ gdb.inferior = "stopped"
    BY <1>8 DEF SetCustomDumpersWanted
  <2>2. RunningInv(gdb, fromGdb, gui, toGdb) /\ ResumedInv(gdb, fromGdb, gui, toGdb)
    BY <1>8 DEF Rest
  <2>3. DOMAIN toGdb = {} /\ DOMAIN fromGdb = {}
    BY <2>1
  <2>4. RunningInv(gdb', fromGdb, f, qq)
    BY <1>6, <1>7, <2>1, <2>2, <2>3 DEF RunningInv
  <2> QED
    BY <1>6, <2>2, <2>4 DEF Rest
<1> QED
  BY <1>3, <1>5, <1>6, <1>8

IInv == Base(gdb, fromGdb, gui, toGdb)
StopsKnown == Rest(gdb, fromGdb, gui, toGdb)

(* Before the first debugger. *)
LEMMA InitHolds == Init => IInv /\ StopsKnown
<1> SUFFICES ASSUME Init PROVE IInv /\ StopsKnown
  OBVIOUS
<1>1. gdb = DeadGdb /\ toGdb = <<>> /\ fromGdb = <<>>
  BY DEF Init
<1>2. /\ gui.process = "notRunning" /\ gui.token = 0 /\ gui.barrier = -1
      /\ gui.cookies = <<>> /\ gui.out = <<>> /\ gui.interrupt = FALSE
  BY DEF Init
<1>3. gui \in GuiRecord
  <2>1. <<>> \in Cookies
    <3>1. <<>> \in [{} -> Cookie] /\ {} \in SUBSET Nat
      OBVIOUS
    <3> QED
      BY <3>1, CookiesFun
  <2>2. /\ <<>> \in Seq(TableRow) /\ <<>> \in Seq(Command) /\ <<>> \in Seq(Int)
        /\ <<>> \in Seq(WishRow) /\ 0 \in Nat /\ -1 \in Int /\ 0 \in Int
    OBVIOUS
  <2>3. "notReady" \in Status
    BY DEF Status
  <2> QED
    BY <2>1, <2>2, <2>3 DEF Init, GuiRecord
<1>4. DOMAIN gui.cookies \subseteq 1..gui.token /\ gui.barrier \in -1..gui.token
  <2>1. DOMAIN gui.cookies = {}
    BY <1>2
  <2> QED
    BY <1>2, <2>1
<1>5. gui \in Gui
  BY <1>3, <1>4, GuiFrom
<1>6. Channel(<<>>, gui, <<>>)
  BY DEF Channel, InOrder
<1>7. <<>> \in Seq(Command) /\ <<>> \in Seq(Record)
  OBVIOUS
<1>8. IInv
  BY <1>1, <1>2, <1>5, <1>6, <1>7, DeadIs DEF IInv, Base
<1>9. RunningInv(gdb, <<>>, gui, <<>>) /\ ResumedInv(gdb, <<>>, gui, <<>>)
  BY <1>2 DEF RunningInv, ResumedInv, LiveIn
<1> QED
  BY <1>1, <1>8, <1>9 DEF StopsKnown, Rest

(* Every step keeps the types and the channel, and also the rest if the    *)
(* user does not take the risk "dumpers".                                  *)
LEMMA NextKeeps ==
    ASSUME IInv, [Next]_vars
    PROVE  IInv' /\ ("dumpers" \notin Careless /\ StopsKnown => StopsKnown')
<1>1. Base(gdb, fromGdb, gui, toGdb)
  BY DEF IInv
<1>2. SUFFICES /\ Base(gdb', fromGdb', gui', toGdb')
               /\ "dumpers" \notin Careless /\ Rest(gdb, fromGdb, gui, toGdb) =>
                      Rest(gdb', fromGdb', gui', toGdb')
  BY DEF IInv, StopsKnown
<1>3. CASE HandleResponse
  BY <1>1, <1>3, HandleResponseKeeps
<1>4. CASE TimerSynchronizes
  BY <1>1, <1>4, TimerSynchronizesKeeps
<1>5. CASE ExitReturns
  BY <1>1, <1>5, ExitReturnsKeeps
<1>6. CASE ExitTimesOut
  BY <1>1, <1>6, ExitTimesOutKeeps
<1>7. CASE GdbFinished
  BY <1>1, <1>7, GdbFinishedKeeps
<1>8. ASSUME NEW external \in {FALSE, External}, StartNewDebugger(external)
      PROVE  /\ Base(gdb', fromGdb', gui', toGdb')
             /\ Rest(gdb, fromGdb, gui, toGdb) => Rest(gdb', fromGdb', gui', toGdb')
  BY <1>1, <1>8, StartNewDebuggerKeeps
<1>9. CASE ContinueExec \/ Step \/ RunToLine
  BY <1>1, <1>9, ResumesKeeps
<1>10. CASE InterruptDebuggingRequest
  BY <1>1, <1>10, InterruptDebuggingRequestKeeps
<1>11. ASSUME NEW loc \in Locations, ToggleBreakpoint(loc)
       PROVE  /\ Base(gdb', fromGdb', gui', toGdb')
              /\ Rest(gdb, fromGdb, gui, toGdb) => Rest(gdb', fromGdb', gui', toGdb')
  BY <1>1, <1>11, ToggleBreakpointKeeps
<1>12. ASSUME NEW i \in DOMAIN gui.rows, DeleteRow(i)
       PROVE  /\ Base(gdb', fromGdb', gui', toGdb')
              /\ Rest(gdb, fromGdb, gui, toGdb) => Rest(gdb', fromGdb', gui', toGdb')
  BY <1>1, <1>12, DeleteRowKeeps
<1>13. CASE UserEdits
  BY <1>1, <1>13, UserEditsKeeps
<1>14. CASE AboutToSaveSession
  BY <1>1, <1>14, AboutToSaveSessionKeeps
<1>15. CASE SetCustomDumpersWanted
  BY <1>1, <1>15, SetCustomDumpersWantedKeeps
<1>16. CASE ActivateFrame
  BY <1>1, <1>16, ActivateFrameKeeps
<1>17. CASE UpdateWatchModel
  BY <1>1, <1>17, UpdateWatchModelKeeps
<1>18. CASE GdbStep
  <2>1. UNCHANGED gui /\ (GdbReads \/ InferiorStops \/ GdbCrashes)
    BY <1>18 DEF GdbStep
  <2> QED
    BY <1>1, <2>1, GdbReadsKeeps, InferiorStopsKeeps, GdbCrashesKeeps
<1>19. CASE UNCHANGED vars
  <2>1. gui' = gui /\ gdb' = gdb /\ toGdb' = toGdb /\ fromGdb' = fromGdb
    BY <1>19 DEF vars
  <2> QED
    BY <1>1, <2>1
<1> QED
  BY <1>3, <1>4, <1>5, <1>6, <1>7, <1>8, <1>9, <1>10, <1>11, <1>12, <1>13, <1>14, <1>15,
     <1>16, <1>17, <1>18, <1>19
     DEF Next, DebuggerStep

(* The channel is always as it should be. *)
LEMMA IInvAlways == Spec => []IInv
<1>1. Init => IInv
  BY InitHolds
<1>2. IInv /\ [Next]_vars => IInv'
  BY NextKeeps
<1> QED
  BY <1>1, <1>2, PTL DEF Spec

(* So is the rest, unless the user takes the risk. *)
LEMMA StopsAlwaysKnown ==
    ASSUME "dumpers" \notin Careless PROVE Spec => [](IInv /\ StopsKnown)
<1>1. Init => IInv /\ StopsKnown
  BY InitHolds
<1>2. IInv /\ StopsKnown /\ [Next]_vars => (IInv /\ StopsKnown)'
  BY NextKeeps
<1> QED
  BY <1>1, <1>2, PTL DEF Spec

(* The variables have their types: tokens, barrier and cookies of the      *)
(* channel fit each other, every answer finds the cookie of its command,   *)
(* and what an operation collected was written when the event loop gets    *)
(* control again.                                                          *)
THEOREM DebuggerTypeCorrect == Spec => []DebuggerTypeOK
<1>1. IInv => DebuggerTypeOK
  <2> SUFFICES ASSUME IInv PROVE DebuggerTypeOK
    OBVIOUS
  <2>1. /\ gdb \in GdbType /\ gui \in Gui /\ gui.out = <<>> /\ ~gui.interrupt
        /\ Channel(fromGdb, gui, toGdb)
    BY DEF IInv, Base
  <2>2. Fields(gui)
    BY <2>1, GuiFields
  <2>3. \A i \in DOMAIN gui.rows : gui.rows[i].loc \in Locations
    <3>1. \A i \in DOMAIN gui.rows : gui.rows[i] \in TableRow
      BY <2>2 DEF Fields
    <3> QED
      BY <3>1 DEF TableRow
  <2>4. /\ \A i \in DOMAIN toGdb : toGdb[i].token \in DOMAIN gui.cookies
        /\ \A i \in DOMAIN fromGdb :
               fromGdb[i].record = "result" => fromGdb[i].token \in DOMAIN gui.cookies
    BY <2>1 DEF Channel, IsResult
  <2> QED
    BY <2>1, <2>2, <2>3, <2>4 DEF DebuggerTypeOK, Fields
<1> QED
  BY <1>1, IInvAlways, PTL

(* With nothing on its way in either direction the status "running" is     *)
(* true of gdb's inferior: no order of the answer to a resumption, a stop, *)
(* and the interruptions that other commands cause leaves the button that  *)
(* interrupts on for an inferior that is not running.                      *)
THEOREM RunningTruly ==
    ASSUME "dumpers" \notin Careless PROVE Spec => []RunningIsRunning
<1>1. IInv /\ StopsKnown => RunningIsRunning
  <2> SUFFICES ASSUME StopsKnown, Live, toGdb = <<>>, fromGdb = <<>>, gui.status = "running"
               PROVE  gdb.inferior = "running"
    BY DEF RunningIsRunning
  <2>1. LiveIn(gdb, gui, toGdb)
    BY DEF Live, LiveIn
  <2>2. RunningInv(gdb, fromGdb, gui, toGdb)
    BY DEF StopsKnown, Rest
  <2>3. DOMAIN toGdb = {} /\ DOMAIN fromGdb = {}
    OBVIOUS
  <2> QED
    BY <2>1, <2>2, <2>3 DEF RunningInv
<1> QED
  BY <1>1, StopsAlwaysKnown, PTL
===============================================================================
