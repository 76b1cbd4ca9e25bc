------------------------- MODULE MC_ThreadLifecycle -------------------------
EXTENDS ThreadLifecycle

\* join(), and join(ms, nanos) with a negative ms, nanos past 999999, and a
\* valid pair.
MCJoinArgs == {<<>>, <<-1, 0>>, <<1, 1000000>>, <<1, 0>>}

\* Priorities below, at and above the bounds.
MCPriorityArgs == {0, 1, 10, 11}
====
