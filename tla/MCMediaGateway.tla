--------------------------- MODULE MCMediaGateway ---------------------------
EXTENDS MediaGateway

CONSTANTS d1, d2

MCCandidates == <<d1, d2>>
=============================================================================
