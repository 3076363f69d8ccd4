------------------------------ MODULE MCUartLink -------------------------------
EXTENDS UartLink

(* A READ, a command of two frames, an upload with a frame long enough to  *)
(* keep the bridge busy.                                                   *)
MCBatches == {<<0>>, <<1, 1>>, <<2, 1>>}
=============================================================================
