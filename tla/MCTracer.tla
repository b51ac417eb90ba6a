------------------------------ MODULE MCTracer ------------------------------
EXTENDS Tracer
==============================================================================
