---------------------------- MODULE MCLinkWatch ----------------------------
EXTENDS LinkWatch
=============================================================================
