----------------------- MODULE MCSubscriptionRegistry -----------------------
(* Instances of SubscriptionRegistry for TLC.                              *)
EXTENDS SubscriptionRegistry

CONSTANTS c1, c2, p1, p2, s1, s2

MCCallers2 == {c1, c2}
MCPatterns == {p1, p2}
MCSubIds2 == {s1, s2}
\* Notice with unique identifiers, the other domains with reused ones.
MCModes == {<<TRUE, FALSE>>, <<FALSE, TRUE>>}
=============================================================================
