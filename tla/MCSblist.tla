------------------------------ MODULE MCSblist ------------------------------
\* Sblist for TLC; the configuration gives the constants their values.
EXTENDS Sblist
=============================================================================
