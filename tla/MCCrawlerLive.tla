--------------------------- MODULE MCCrawlerLive ---------------------------
(* A device (1) with one channel (2), and a controller (3).                *)
EXTENDS Crawler

MCParent == << 0, 1, 0 >>
MCAbove == << {0}, {0, 1}, {0} >>
=============================================================================
