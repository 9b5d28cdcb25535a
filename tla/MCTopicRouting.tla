--------------------------- MODULE MCTopicRouting ---------------------------
(* Small instances of TopicRouting: two patterns match the topic.  With two *)
(* instances of the module ShareIsBound does not hold.                     *)
EXTENDS TopicRouting

CONSTANTS p1, kA, kB, t1

OneProcess == {p1}
OnePattern == {kA}
TwoPatterns == {kA, kB}
OneTopic == {t1}
Either == Patterns \X Topics
=============================================================================
