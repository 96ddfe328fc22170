------------------------------ MODULE GdbProcess ------------------------------
(***************************************************************************)
(* gdb and the program it debugs, seen from GdbEngine: what gdb reads from *)
(* its standard input, what it answers, and when the inferior stops.       *)
(*                                                                         *)
(* gdb is not part of the repository.  The module says what src/plugins/   *)
(* debugger/gdbengine.cpp expects of it: commands are read in their order, *)
(* and only while the inferior does not run; each is answered once, with   *)
(* its token; *stopped records come without one.                           *)
(***************************************************************************)
EXTENDS Naturals, Sequences, SequencesExt, FiniteSets

CONSTANTS
    Locations,      \* lines of source files that may get a breakpoint
    Unresolved,     \* those that -break-insert cannot find (a library not loaded)
    Multiple,       \* those with code at several addresses (a constructor)
    Unreadable,     \* those whose "info break" prints a text GdbEngine cannot read
    Refused         \* kinds of commands about a breakpoint gdb may answer with an error

ASSUME LocationsAssumption ==
    /\ Unresolved \subseteq Locations
    /\ Unreadable \subseteq Multiple /\ Multiple \subseteq Locations
    /\ Refused \subseteq {"info", "condition", "ignore"}

VARIABLES
    gdb,            \* the process: see GdbType
    toGdb,          \* commands written and not yet read
    fromGdb         \* records printed and not yet handled

gdbVars == <<gdb, toGdb, fromGdb>>

Nowhere == <<>>                     \* the argument of a command that has none

(* The commands GdbEngine sends, as far as they differ in their effect.    *)
Kinds == {"insert", "break", "info", "condition", "ignore", "delete", "list",
          "run", "continue", "step", "query", "exit"}

Empty == 0                          \* a condition or an ignore count that is not there

GdbType ==
    [alive    : BOOLEAN,
     inferior : {"none", "stopped", "running"},
     sigint   : BOOLEAN,                        \* SIGINT is on its way
     table    : Seq([number : Nat, loc : Locations, condition : Nat]),
     next     : Nat]                            \* the next breakpoint's number

FreshGdb == [alive |-> TRUE, inferior |-> "none", sigint |-> FALSE,
             table |-> <<>>, next |-> 1]

DeadGdb == [FreshGdb EXCEPT !.alive = FALSE]

(* token^class,data and *stopped,reason="class"; data is a breakpoint table. *)
Result(token, class, data) ==
    [record |-> "result", token |-> token, class |-> class, data |-> data]
Stopped(reason) ==
    [record |-> "stopped", token |-> 0, class |-> reason, data |-> <<>>]

Numbers(table) == {table[i].number : i \in DOMAIN table}
Without(table, n) ==
    IF n \in Numbers(table)
    THEN RemoveAt(table, CHOOSE i \in DOMAIN table : table[i].number = n)
    ELSE table

-----------------------------------------------------------------------------
(* What gdb does with one command: its new state and the answer.           *)

New(loc) == [number |-> gdb.next, loc |-> loc, condition |-> Empty]

Sets(c) ==
    [gdb EXCEPT !.table = Append(@, New(c.arg)), !.next = @ + 1]

(* -break-insert answers with the breakpoint, or not at all for a location *)
(* it cannot resolve; the command line's "break" makes it pending and says *)
(* so in words only.                                                       *)
InsertBreakpoint(c) ==
    \/ /\ c.kind = "insert" /\ c.arg \notin Unresolved
       /\ gdb' = Sets(c)
       /\ fromGdb' = Append(fromGdb,
              Result(c.token, "done", <<New(c.arg)>>))
    \/ /\ c.kind = "insert" /\ c.arg \in Unresolved
       /\ fromGdb' = Append(fromGdb, Result(c.token, "error", <<>>))
       /\ UNCHANGED gdb
    \/ /\ c.kind = "break"
       /\ gdb' = Sets(c)
       /\ fromGdb' = Append(fromGdb, Result(c.token, "done", <<>>))
    \/ /\ c.kind = "break"
       /\ fromGdb' = Append(fromGdb, Result(c.token, "error", <<>>))
       /\ UNCHANGED gdb

DeleteBreakpoint(c) ==
    /\ c.kind = "delete"
    /\ gdb' = [gdb EXCEPT !.table = Without(@, c.arg)]
    /\ fromGdb' = Append(fromGdb, Result(c.token,
                     IF c.arg \in Numbers(gdb.table) THEN "done" ELSE "error", <<>>))

(* What a command says of the breakpoint that has its number.              *)
ChangeBreakpoint(c) ==
    \/ /\ c.kind \in {"condition", "ignore"} /\ c.arg.number \in Numbers(gdb.table)
       /\ gdb' = IF c.kind = "ignore" THEN gdb
                 ELSE [gdb EXCEPT !.table =
                         [i \in DOMAIN @ |-> IF @[i].number # c.arg.number THEN @[i]
                                             ELSE [@[i] EXCEPT !.condition = c.arg.text]]]
       /\ fromGdb' = Append(fromGdb, Result(c.token, "done", <<>>))
    \/ /\ c.kind = "info" /\ c.arg \in Numbers(gdb.table)
       /\ fromGdb' = Append(fromGdb, Result(c.token, "done", <<>>))
       /\ UNCHANGED gdb
    \/ /\ c.kind \in {"info", "condition", "ignore"}
       /\ \/ c.kind \in Refused
          \/ (IF c.kind = "info" THEN c.arg ELSE c.arg.number) \notin Numbers(gdb.table)
       /\ fromGdb' = Append(fromGdb, Result(c.token, "error", <<>>))
       /\ UNCHANGED gdb

ListBreakpoints(c) ==
    /\ c.kind = "list"
    /\ fromGdb' = Append(fromGdb, Result(c.token, "done", gdb.table))
    /\ UNCHANGED gdb

(* -exec-run starts the inferior, -exec-continue and the steps resume it.  *)
Resume(c) ==
    /\ c.kind \in {"run", "continue", "step"}
    /\ \/ /\ gdb.inferior = IF c.kind = "run" THEN "none" ELSE "stopped"
          /\ gdb' = [gdb EXCEPT !.inferior = "running"]
          /\ fromGdb' = Append(fromGdb, Result(c.token, "running", <<>>))
       \/ /\ c.kind # "continue" \/ gdb.inferior = "none"
          /\ fromGdb' = Append(fromGdb, Result(c.token, "error", <<>>))
          /\ UNCHANGED gdb

Query(c) ==
    /\ c.kind = "query"
    /\ fromGdb' = Append(fromGdb, Result(c.token, "done", <<>>))
    /\ UNCHANGED gdb

Exit(c) ==
    /\ c.kind = "exit"
    /\ gdb' = DeadGdb
    /\ fromGdb' = Append(fromGdb, Result(c.token, "exit", <<>>))

GdbReads ==
    /\ gdb.alive /\ gdb.inferior # "running"
    /\ toGdb # <<>>
    /\ LET c == Head(toGdb)
       IN \/ InsertBreakpoint(c) \/ DeleteBreakpoint(c)
          \/ ChangeBreakpoint(c) \/ ListBreakpoints(c)
          \/ Resume(c) \/ Query(c) \/ Exit(c)
    /\ toGdb' = Tail(toGdb)

-----------------------------------------------------------------------------
(* The inferior stops: at a breakpoint, after a step or by a signal, or it *)
(* ends.  A SIGINT that is on its way stops it sooner or later, one that   *)
(* comes while it is stopped after it was resumed.                         *)
HitBreakpoint ==
    /\ gdb.table # <<>>
    /\ gdb' = [gdb EXCEPT !.inferior = "stopped"]
    /\ fromGdb' = Append(fromGdb, Stopped("breakpoint-hit"))

EndInferior ==
    /\ gdb' = [gdb EXCEPT !.inferior = "none", !.sigint = FALSE]
    /\ fromGdb' = Append(fromGdb, Stopped("exited"))

SignalStops ==
    /\ gdb' = [gdb EXCEPT !.inferior = "stopped", !.sigint = FALSE]
    /\ fromGdb' = Append(fromGdb, Stopped("signal-received"))

InferiorStops ==
    /\ gdb.alive /\ gdb.inferior = "running"
    /\ HitBreakpoint \/ EndInferior \/ SignalStops
    /\ UNCHANGED toGdb

(* gdb crashes, and the inferior with it.                                  *)
GdbCrashes ==
    /\ gdb.alive
    /\ gdb' = DeadGdb
    /\ UNCHANGED <<toGdb, fromGdb>>
=============================================================================
