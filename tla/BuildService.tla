---------------------------- MODULE BuildService ----------------------------
(***************************************************************************)
(* What the build manager promises to the rest of the IDE, without its     *)
(* threads, watchers, posted events and counters: the steps of a build are *)
(* executed one at a time, in the order of submission and each with the    *)
(* configuration it was submitted with; a step is started only when the    *)
(* one before it succeeded; when one fails, or the build is cancelled, all *)
(* those still pending are dropped; and every build is reported exactly    *)
(* once, as a success only when all of its steps succeeded.                *)
(***************************************************************************)
EXTENDS Integers, Sequences

CONSTANTS
    Entry,      \* a build step together with a build configuration
    NoEntry,    \* no step is current
    Requests    \* the sequences of entries that are submitted at once

VARIABLES
    pending,    \* entries that wait for the current one
    current,    \* the entry being worked on, or NoEntry
    outcome,    \* how far the current entry is
    report      \* the last report: its parity (turn) and its verdict (ok)

svars == <<pending, current, outcome, report>>

Outcomes == {"none", "executing", "succeeded", "failed"}

Init ==
    /\ pending = <<>>
    /\ current = NoEntry
    /\ outcome = "none"
    /\ report = [turn |-> 0, ok |-> FALSE]

Report(verdict) == report' = [turn |-> 1 - report.turn, ok |-> verdict]

(* Entry Head(q) is taken up: it either executes or cannot be started. *)
TakeUp(q) ==
    /\ current' = Head(q)
    /\ pending' = Tail(q)
    /\ outcome' \in {"executing", "failed"}

(* More work joins the build that is going on. *)
Join(r) ==
    /\ current # NoEntry
    /\ pending' = pending \o r
    /\ UNCHANGED <<current, outcome, report>>

(* Work is submitted while nothing is built: the first entry is taken up. *)
Start(r) ==
    /\ current = NoEntry
    /\ r # <<>>
    /\ TakeUp(r)
    /\ UNCHANGED report

(* A submission without any entry is a build that succeeds at once. *)
StartNothing ==
    /\ current = NoEntry
    /\ Report(TRUE)
    /\ UNCHANGED <<pending, current, outcome>>

Execute ==
    /\ outcome = "executing"
    /\ outcome' \in {"succeeded", "failed"}
    /\ UNCHANGED <<pending, current, report>>

(* Only a success leads to the next entry. *)
Advance ==
    /\ outcome = "succeeded"
    /\ pending # <<>>
    /\ TakeUp(pending)
    /\ UNCHANGED report

GoIdle ==
    /\ current' = NoEntry
    /\ outcome' = "none"

Complete ==
    /\ outcome = "succeeded"
    /\ pending = <<>>
    /\ GoIdle
    /\ Report(TRUE)
    /\ UNCHANGED pending

(* A failure or the user ends the build, never while an entry executes. *)
Abort ==
    /\ current # NoEntry
    /\ outcome # "executing"
    /\ GoIdle
    /\ pending' = <<>>
    /\ Report(FALSE)

Next ==
    \/ \E r \in Requests : Join(r) \/ Start(r)
    \/ StartNothing
    \/ Execute
    \/ Advance
    \/ Complete
    \/ Abort

Spec == Init /\ [][Next]_svars
=============================================================================
