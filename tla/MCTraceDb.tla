------------------------------ MODULE MCTraceDb ------------------------------
EXTENDS TraceDb
==============================================================================
