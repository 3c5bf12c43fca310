----------------------------- MODULE MCTensoDlg -----------------------------
EXTENDS TensoDlg, TLC

CONSTANTS g1, g2
MCSelections == {<< g1 >>, << g1, g2 >>}
MCResistance == (0 :> 20) @@ (1 :> 19) @@ (2 :> 19) @@ (3 :> 16) @@ (4 :> 11) @@ (5 :> 3)
MCShift == (g1 :> 1) @@ (g2 :> 0)
MCBridges == {[slope |-> s, zero |-> z] : s \in {-1, 1}, z \in {-3, 5, 10}}
MCStored ==
  {[c \in {g1, g2} |-> [mode |-> IF c = g1 THEN m ELSE 0,
                        pot1 |-> IF c = g1 THEN 3 ELSE 4, pot2 |-> 0]] : m \in {0, 2}}
=============================================================================
