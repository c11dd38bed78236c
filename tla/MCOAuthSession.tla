--------------------------- MODULE MCOAuthSession ---------------------------
EXTENDS OAuthSession

CONSTANTS t1, t2, cloud, enterprise

\* The constraint of the run: the properties claim nothing of what follows an overlap.
UntilOverlap == ~history.overlapped
=============================================================================
