--------------------------- MODULE MCBecomeMouse ---------------------------
EXTENDS BecomeMouse
=============================================================================
