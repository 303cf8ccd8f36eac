---------------------------- MODULE MCOneShotBridge ----------------------------
EXTENDS OneShotBridge
===============================================================================
