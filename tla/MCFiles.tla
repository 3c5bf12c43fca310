------------------------------ MODULE MCFiles ------------------------------
EXTENDS Registrator, TLC
=============================================================================
