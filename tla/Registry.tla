------------------------------ MODULE Registry ------------------------------
(***************************************************************************)
(* What the factory promises to the rest of the program: a set of known    *)
(* objects that is closed under parents, some of which are waited for, and *)
(* some of those reported as failed.  An indicator tells whether anything  *)
(* is waited for.  Objects are found one at a time, together with their    *)
(* ancestors, and lost in sets that leave no child behind.                 *)
(***************************************************************************)
EXTENDS Integers

CONSTANTS N, Above

VARIABLES known, waited, failed, indicator

vars == << known, waited, failed, indicator >>

Path == 1..N

Init ==
  /\ known = {} /\ waited = {} /\ failed = {}
  /\ indicator = FALSE

\* p is found; if it was waited for it may have answered, and a wait for it
\* may begin.
Find(p) ==
  /\ known' = known \cup {p} \cup (Above[p] \ {0})
  /\ \/ waited' = waited /\ failed' = failed
     \/ waited' = waited \cup {p} /\ failed' = failed
     \/ waited' = waited \ {p} /\ failed' = failed \ {p}

\* The objects of S are lost, and the waits for them with them.
Lose(S) ==
  /\ \A p \in known : Above[p] \cap S # {} => p \in S
  /\ known' = known \ S
  /\ waited' = waited \ S
  /\ failed' = failed \ S

\* The waits for S have lasted too long.
GiveUp(S) ==
  /\ S \subseteq waited
  /\ failed' = failed \cup S
  /\ UNCHANGED << known, waited >>

Next ==
  /\ \/ \E p \in Path : Find(p)
     \/ \E S \in SUBSET Path : Lose(S) \/ GiveUp(S)
  /\ indicator' = (waited' # {})

Spec == Init /\ [][Next]_vars
=============================================================================
