----------------------------- MODULE MCCrawler -----------------------------
(***************************************************************************)
(* A device (1) with a channel (2), and a controller (3) with a sensor (4) *)
(* that the server shows as a channel.                                     *)
(***************************************************************************)
EXTENDS Crawler

MCParent == << 0, 1, 0, 3 >>
MCAbove == << {0}, {0, 1}, {0}, {0, 3} >>
=============================================================================
