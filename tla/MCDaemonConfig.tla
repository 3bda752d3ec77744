-------------------------- MODULE MCDaemonConfig ---------------------------
\* DaemonConfig with two things another program may leave in a file: a key the pages do not
\* manage, and text that does not parse.
EXTENDS DaemonConfig

MCOthers == {[own |-> NoKey, foreign |-> f] : f \in Foreign} \cup {Broken}
=============================================================================
