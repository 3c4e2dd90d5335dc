---------------------------- MODULE MCProbeScope ----------------------------
EXTENDS ProbeScope
=============================================================================
