----------------------------- MODULE MCNodeLoop -----------------------------
EXTENDS NodeLoop

\* no backup entry: the cascade is the main entry, then plaintext
NoAlts == <<>>
=============================================================================
