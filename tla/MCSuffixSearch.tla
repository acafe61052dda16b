---------------------------- MODULE MCSuffixSearch ----------------------------
\* Constants for TLC: texts of the letters b and c, and patterns of a, b, c.
EXTENDS SuffixSearch

CONSTANTS MaxText, MaxPattern

Strings(letters, max) == UNION {[1 .. k -> letters] : k \in 0 .. max}

MCTexts    == Strings({98, 99}, MaxText)
MCPatterns == Strings({97, 98, 99}, MaxPattern)
=============================================================================
