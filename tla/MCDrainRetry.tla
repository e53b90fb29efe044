----------------------------- MODULE MCDrainRetry -----------------------------
(* One websocket call of three tries against one draining container. *)
EXTENDS DrainRetry
WebsocketOnly == {"ws"} \X (1 .. 3)
=============================================================================
