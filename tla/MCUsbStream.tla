---------------------------- MODULE MCUsbStream ----------------------------
(* Model checking of UsbStream with small buffers.                         *)
EXTENDS UsbStream
=============================================================================
