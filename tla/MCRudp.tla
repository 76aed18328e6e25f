------------------------------- MODULE MCRudp -------------------------------
EXTENDS RudpTransfer
=============================================================================
