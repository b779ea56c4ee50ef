------------------------------ MODULE MCA2dpSink ------------------------------
(* Model-checking instances of A2dpSink: one presser and at most two        *)
(* configurations, the second with a smaller queue limit than the first.    *)
EXTENDS A2dpSink

MCLimit == [c \in 0..MaxConfigs |-> IF c = 2 THEN 1 ELSE 2]

\* For the liveness run: a queue that one packet fills.
MCLimitOne == [c \in 0..MaxConfigs |-> 1]

=============================================================================
