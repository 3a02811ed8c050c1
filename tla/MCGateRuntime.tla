---------------------------- MODULE MCGateRuntime ----------------------------
EXTENDS GateRuntimeProperties
=============================================================================
