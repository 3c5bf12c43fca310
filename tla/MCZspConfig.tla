----------------------------- MODULE MCZspConfig -----------------------------
(***************************************************************************)
(* A recorder with two slots of two channels, and the documents that       *)
(* differ in what the code looks at: nodes that are missing, slots without *)
(* serial numbers, files that cannot be read.                              *)
(***************************************************************************)
EXTENDS ZspConfig, TLC

Chan4 == 0 .. 3
FullDoc ==
  [freq |-> 1, minutes |-> TRUE, start |-> "auto", eth |-> TRUE, out |-> 1,
   icp |-> {1}, kod |-> [c \in Chan4 |-> 1], serial |-> [s \in 0 .. 1 |-> s],
   slots |-> [s \in 0 .. 1 |-> [exc |-> s, gain |-> [i \in 0 .. 1 |-> i]]],
   chan |-> [c \in Chan4 |-> [name |-> 1, tenso |-> 1]]]
\* No tenso slots, no Ethernet, no start of the recording, no settings.
PoorDoc ==
  [FullDoc EXCEPT !.start = NoNode, !.eth = FALSE, !.slots = [s \in {} |-> s],
                  !.serial = [s \in 0 .. 1 |-> NoNode],
                  !.chan = [c \in Chan4 |-> [name |-> 1, tenso |-> NoNode]]]

DocsMC == {FullDoc, PoorDoc, Broken, Outdated}
StatesMC == {[test |-> 1]}
MetasMC == {[code |-> 1, freq |-> 1], NoDoc}
==============================================================================
