---------------------------- MODULE MCWbBusLive ----------------------------
\* The instances of MCWbBus for the liveness properties of WbBusLive.
EXTENDS MCWbBus, WbBusLive
=============================================================================
