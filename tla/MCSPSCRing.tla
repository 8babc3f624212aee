---------------------------- MODULE MCSPSCRing ----------------------------
EXTENDS SPSCRing

CONSTANTS v1, v2

MCValues == {v1, v2}
=============================================================================
