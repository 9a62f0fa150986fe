---------------------------- MODULE MCPublished ----------------------------
EXTENDS Published
=============================================================================
