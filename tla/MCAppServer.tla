---------------------------- MODULE MCAppServer ----------------------------
EXTENDS AppServer

\* A turn's request and the interrupt that races it.
TurnAndInterrupt == {"turn", "interrupt"}
OneCall == {"call"}
OneNote == {"note"}
============================================================================
