----------------------------- MODULE MCEvidenceLoop -----------------------------
EXTENDS EvidenceLoop

CONSTANTS c1, x, y, a1

\* A small change with a literal, a change that runs a command, a question
MCObjective ==
  {[changes |-> TRUE, executes |-> FALSE, reads |-> FALSE, literal |-> x, criterion |-> {c1}, plan |-> "TRIVIAL"],
   [changes |-> TRUE, executes |-> TRUE, reads |-> FALSE, literal |-> NoText, criterion |-> {}, plan |-> "STANDARD"],
   [changes |-> FALSE, executes |-> FALSE, reads |-> TRUE, literal |-> NoText, criterion |-> {}, plan |-> "STANDARD"]}

Holds(absent, text, about) == [absent |-> absent, text |-> text, criteria |-> about]

MCCheck == {NoCheck, Holds(FALSE, x, {c1}), Holds(FALSE, y, {}), Holds(TRUE, NoText, {c1})}

MCDecision ==
  [action : {"delegate"}, task : {"IMPLEMENTATION"}, criteria : {{c1}}, check : MCCheck,
   commands : {{}, {Registered}}, shows : {FALSE}, cites : {FALSE}]
  \cup
  [action : {"delegate"}, task : {"REVIEW", "TEAM"}, criteria : {{}}, check : {NoCheck},
   commands : {{}}, shows : {FALSE}, cites : {FALSE}]
  \cup
  [action : {"verify"}, task : {"IMPLEMENTATION"}, criteria : {{c1}}, check : {NoCheck},
   commands : {{}, {Registered}, {Unregistered}}, shows : BOOLEAN, cites : {FALSE}]
  \cup
  [action : {"done"}, task : {"IMPLEMENTATION"}, criteria : {{c1}}, check : {NoCheck, Holds(TRUE, NoText, {c1})},
   commands : {{}}, shows : {FALSE}, cites : BOOLEAN]
  \cup {NoRound}
=============================================================================
