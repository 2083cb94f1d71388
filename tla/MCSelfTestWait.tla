--------------------------- MODULE MCSelfTestWait ---------------------------
EXTENDS SelfTestWait

\* Two pods: the first one and its replacement.
MCPods == {"p1", "p2"}

\* The API server lists the replacement first: its name sorts before.
MCListOrder == <<"p2", "p1">>

\* Four 750 ms intervals: time for a pod to start, fail and be replaced.
MCDeadline == 4
=============================================================================
