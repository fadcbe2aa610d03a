-------------------------- MODULE MCTelemetryBuffer --------------------------
(* Instances of TelemetryBuffer for TLC.                                    *)
EXTENDS TelemetryBuffer

CONSTANTS timer, api
=============================================================================
