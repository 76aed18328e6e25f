----------------------------- MODULE MCRudpFifo -----------------------------
EXTENDS RudpFifo
=============================================================================
