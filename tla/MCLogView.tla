----------------------------- MODULE MCLogView -----------------------------
EXTENDS LogView
=============================================================================
