------------------------ MODULE MCSessionLifecycle ------------------------
\* Small instances of SessionLifecycle for TLC.
EXTENDS SessionLifecycle

CONSTANTS r1, r2
MCTwo == {r1, r2}
=============================================================================
