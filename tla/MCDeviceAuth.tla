---------------------------- MODULE MCDeviceAuth ----------------------------
(* Instances of DeviceAuth for TLC.                                        *)
EXTENDS DeviceAuth, TLC
=============================================================================
