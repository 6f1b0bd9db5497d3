------------------------- MODULE MCBootstrapService -------------------------
\* Two worker processes: one of the running harness, and one that a harness
\* that died has left behind.
EXTENDS BootstrapService

TwoSlots == {1, 2}
=============================================================================
