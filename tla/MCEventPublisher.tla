--------------------------- MODULE MCEventPublisher -------------------------
(* Small instances of the event publisher for TLC.                         *)
EXTENDS EventPublisher
=============================================================================
