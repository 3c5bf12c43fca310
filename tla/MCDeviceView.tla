--------------------------- MODULE MCDeviceView ---------------------------
(* Two devices (1, 4) with a channel each (2, 5), and a third device (3).  *)
EXTENDS DeviceView

MCParent == << 0, 1, 0, 0, 4 >>
=============================================================================
