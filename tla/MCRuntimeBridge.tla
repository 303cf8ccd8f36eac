---------------------------- MODULE MCRuntimeBridge ----------------------------
EXTENDS RuntimeBridge

AllFaults == {"spawn", "crash", "garbage"}
NoFaults == {}
===============================================================================
