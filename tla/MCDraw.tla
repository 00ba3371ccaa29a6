-------------------------------- MODULE MCDraw --------------------------------
EXTENDS Draw
=============================================================================
