---------------------------- MODULE MCCfgWriter ----------------------------
(***************************************************************************)
(* Two lines: the master m with the sensors a and b, and the master n.     *)
(* With halves of two bits, the low half of the serial number of m has its *)
(* highest bit clear in MCLine and set in MCSpoiled.                       *)
(***************************************************************************)
EXTENDS CfgWriter, TLC

CONSTANTS a, b, m, n

MCLine == (a :> 5) @@ (b :> 5) @@ (m :> 5) @@ (n :> 9)
MCSpoiled == (a :> 6) @@ (b :> 6) @@ (m :> 6) @@ (n :> 9)
MCNode == (a :> 2) @@ (b :> 3) @@ (m :> 0) @@ (n :> 0)
=============================================================================
