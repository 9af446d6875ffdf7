---------------------------- MODULE MCTelemetry ----------------------------
EXTENDS Telemetry
============================================================================
