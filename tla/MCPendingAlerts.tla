---------------------------- MODULE MCPendingAlerts ----------------------------
EXTENDS PendingAlerts

CONSTANTS a, b

\* Two alerts of a member behind a run of its own, one of another beside them.
QueueAudience == <<{{a}}, {{a}, {b}}, {{a}}>>

\* Both are busy with the first message when the second one comes.
BusyAudience == <<{{a, b}}, {{a, b}}>>
=============================================================================
