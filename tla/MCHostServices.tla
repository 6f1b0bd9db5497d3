--------------------------- MODULE MCHostServices ---------------------------
\* Two attempts of two sources, so that one may follow, fail after or race the
\* other, and two feature requests.
EXTENDS HostServices

TwoSources == {"s1", "s2"}
=============================================================================
