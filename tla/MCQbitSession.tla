--------------------------- MODULE MCQbitSession ---------------------------
EXTENDS QbitSession
=============================================================================
