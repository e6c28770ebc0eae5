----------------------------- MODULE MCUartDma -----------------------------
(* Instance of UartDma for model checking.                                  *)
EXTENDS UartDma
=============================================================================
