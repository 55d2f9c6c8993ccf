------------------------- MODULE MCServerRebuild --------------------------
EXTENDS ServerRebuild

CONSTANTS j1, j2
===========================================================================
