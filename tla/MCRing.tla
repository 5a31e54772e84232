------------------------------- MODULE MCRing -------------------------------
EXTENDS Ring

ModeAsks == {ERROR_PATTERN, IDLE_PATTERN}
NoAsks == {}
=============================================================================
