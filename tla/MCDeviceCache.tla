---------------------------- MODULE MCDeviceCache ---------------------------
(* Devices and names are model values.  There are no symmetry sets: the    *)
(* run checks liveness.                                                    *)
EXTENDS DeviceCache
=============================================================================
