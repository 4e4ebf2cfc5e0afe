----------------------------- MODULE MCSession -----------------------------
EXTENDS HidpSession
=============================================================================
