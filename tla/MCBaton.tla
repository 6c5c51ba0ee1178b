------------------------------- MODULE MCBaton -------------------------------
EXTENDS Baton
=============================================================================
