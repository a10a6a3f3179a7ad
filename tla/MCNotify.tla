------------------------------ MODULE MCNotify ------------------------------
EXTENDS Notify
=============================================================================
