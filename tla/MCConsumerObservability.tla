----------------------- MODULE MCConsumerObservability -----------------------
(* A small instance of the observability of a consumer for TLC.            *)
EXTENDS ConsumerObservability
=============================================================================
