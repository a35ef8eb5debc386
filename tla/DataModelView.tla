---------------------------- MODULE DataModelView ----------------------------
(***************************************************************************)
(* What a router promises of its copy of the data model, whichever         *)
(* controllers feed it: the copy is at all times the model as it was after *)
(* some committed raft entry, on the timeline it names, and never a        *)
(* mixture.  It moves on by the next change of the log it follows, or is   *)
(* replaced as a whole.                                                    *)
(***************************************************************************)
EXTENDS Integers, Sequences

CONSTANT Timelines      \* the databases there have been, by number

VARIABLES
    history,    \* [Timelines -> the committed log]
    timeline,   \* the one in use
    copy        \* the router's model: timelineId, index and contents

vars == <<history, timeline, copy>>

Unnamed == 0    \* the timeline of a copy that names none

\* The changes that the first n entries of a log made.
Prefix(log, n) == {<<log[i].timeline, i>> : i \in {j \in 1 .. n : log[j].model}}

Follows(t) ==
    /\ copy.timelineId \in {t, Unnamed}
    /\ copy.index <= Len(history[t])
    /\ copy.contents = Prefix(history[t], copy.index)

Init ==
    /\ history \in [Timelines -> Seq([timeline : Timelines, model : BOOLEAN])]
    /\ timeline = 1
    /\ copy = [timelineId |-> Unnamed, index |-> 0, contents |-> {}]

\* An entry is committed on the timeline in use.
Commit ==
    /\ \E model \in BOOLEAN : history' = [history EXCEPT ![timeline] =
          Append(@, [timeline |-> timeline, model |-> model])]
    /\ UNCHANGED <<timeline, copy>>

\* A backup, an earlier part of the log, becomes a timeline of its own; the
\* entries that follow it may count on as entries without a change.
Branch ==
    /\ timeline' = timeline + 1
    /\ \E n \in 1 .. Len(history[timeline]), len \in 1 .. Len(history[timeline]) + 1 :
          /\ n <= len
          /\ history' = [history EXCEPT ![timeline'] =
                [i \in 1 .. len |-> IF i <= n THEN history[timeline][i]
                                    ELSE [timeline |-> timeline, model |-> FALSE]]]
    /\ UNCHANGED copy

\* The copy takes in the next change of the log that it follows.
Advance ==
    \E t \in Timelines : \E n \in copy.index + 1 .. Len(history[t]) :
        /\ Follows(t)
        /\ history[t][n].model /\ \A i \in copy.index + 1 .. n - 1 : ~history[t][i].model
        /\ copy' = [copy EXCEPT !.index = n, !.contents = Prefix(history[t], n)]
        /\ UNCHANGED <<history, timeline>>

\* The copy is replaced, by a newer one, an older one, or nothing.
Replace ==
    /\ \E t \in Timelines, name \in Timelines \cup {Unnamed} :
          \E n \in 0 .. Len(history[t]) :
             /\ copy' = [timelineId |-> name, index |-> n, contents |-> Prefix(history[t], n)]
             /\ name \in {t, Unnamed}
    /\ UNCHANGED <<history, timeline>>

Next == Commit \/ Branch \/ Advance \/ Replace

Spec == Init /\ [][Next]_vars
=============================================================================
