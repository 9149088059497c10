------------------------------- MODULE MCGoals -------------------------------
EXTENDS Goals, TLC

CONSTANTS q1, q2, e1, e2

ExecSymmetry == Permutations(Execs)

\* Two questions over a board on which few things happen, and one question over
\* a board on which everything does.
MCShapes ==
    [early : BOOLEAN, asks : {{q1, q2}}, updates : {{"completed"}}]
    \cup [early : {FALSE}, asks : {{q1}}, updates : {TaskStatuses}]
\* A board only.
GateShapes == [early : {FALSE}, asks : {{}}, updates : {{}}]
=============================================================================
