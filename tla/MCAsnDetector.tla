--------------------------- MODULE MCAsnDetector ---------------------------
EXTENDS AsnDetector

\* Two addresses of the primary provider (it has two networks), one of the
\* backup's.
MCAsnOf == <<11, 12, 13>>
MCOrgOf == [n \in {11, 12, 13} |-> IF n = 13 THEN 22 ELSE 21]
=============================================================================
