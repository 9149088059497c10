------------------------------ MODULE MCApprovals ------------------------------
EXTENDS Approvals

CONSTANTS c1, c2, c3, s1, s2

MCFamily == [s \in Scopes |-> s1]

Shape(scopes, outer, early, width) ==
    [scope |-> [c \in Calls |-> IF c = c1 THEN scopes[1]
                                ELSE IF c = c2 THEN scopes[2] ELSE scopes[3]],
     outer |-> outer, early |-> early, width |-> width]

\* One call at a time or one scope only, and answers to a waiting run.
CarefulShapes ==
    {Shape(<<s1, s2, s1>>, o, FALSE, 1) : o \in {{}, {c2}}}
    \cup {Shape(<<s1, s1, s1>>, o, FALSE, 3) : o \in {{}, {c1, c2, c3}}}

\* Calls side by side, and answers at any moment.
HastyShapes ==
    {Shape(<<s1, s2, s1>>, {}, TRUE, 2), Shape(<<s1, s1, s2>>, {c1, c2}, TRUE, 2)}

MCShapes == CarefulShapes \cup HastyShapes

\* Three calls side by side at the permission gate, two of them alike.
SharedShapes == {Shape(<<s1, s1, s2>>, {c1, c2, c3}, FALSE, 3)}
=============================================================================
