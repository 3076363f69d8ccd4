---- MODULE MCAcquisition ----
(* A live view and a scan on one camera, another scan on a second camera.  *)
EXTENDS Acquisition, TLC
CONSTANTS live, scan, other, A, B
MCCamera == live :> A @@ scan :> A @@ other :> B
====
