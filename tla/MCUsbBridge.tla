---------------------------- MODULE MCUsbBridge ----------------------------
(* Instances of UsbBridge for TLC: see the .cfg files for the bounds.      *)
EXTENDS UsbBridge
=============================================================================
