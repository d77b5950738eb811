-------------------------------- MODULE MCQq --------------------------------
(* The instance of QqGateway that TLC checks: two executions of connect,    *)
(* one send, two sockets.                                                   *)
EXTENDS QqGateway
=============================================================================
