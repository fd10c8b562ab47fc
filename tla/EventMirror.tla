---------------------------- MODULE EventMirror ----------------------------
(***************************************************************************)
(* What the desktop promises of a cloud run: the events of a run form an   *)
(* append-only log, and what the mirror of the run shows is at any time a  *)
(* prefix of it that only grows.  CloudMirror implements this.             *)
(***************************************************************************)
EXTENDS Naturals, Sequences

CONSTANTS
    Run,
    Event       \* what identifies an event in the log of its run

VARIABLES
    log,        \* the events of each run, in the order they were recorded
    copy        \* what the mirror of each run shows

Init ==
    /\ log = [r \in Run |-> <<>>]
    /\ copy = [r \in Run |-> <<>>]

\* An event is recorded behind all the others.
Record(r) ==
    /\ \E e \in Event : log' = [log EXCEPT ![r] = Append(@, e)]
    /\ UNCHANGED copy

\* The mirror takes over some of the events that come next, none left out.
Extend(r) ==
    /\ \E n \in Len(copy[r]) + 1 .. Len(log[r]) :
           copy' = [copy EXCEPT ![r] = SubSeq(log[r], 1, n)]
    /\ UNCHANGED log

Next == \E r \in Run : Record(r) \/ Extend(r)

Spec == Init /\ [][Next]_<<log, copy>>
=============================================================================
