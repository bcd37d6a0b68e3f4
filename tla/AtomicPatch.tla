----------------------------- MODULE AtomicPatch -----------------------------
(***************************************************************************)
(* What applypatch promises of the files an update patches, one after the  *)
(* other: "safe (the original file is not touched until we have the        *)
(* desired replacement for it) and idempotent (it's okay to run this       *)
(* program multiple times)".  However often the update is interrupted and  *)
(* run again, a file is the old one until it is the new one.  The code     *)
(* does not keep the promise for the files of Losable, nor from the first  *)
(* file on that the script may pass over when it has failed (Passable).    *)
(***************************************************************************)
EXTENDS Naturals

CONSTANTS N,        (* the files are 1 to N, in the order of the script       *)
          Losable, Passable

VARIABLE contents  (* of each file: the source, the target, or nothing usable *)

Files == 1..N

Init == contents = [f \in Files |-> "source"]

\* The file becomes the target at once, when those before it have.
Apply(f) ==
  /\ contents[f] = "source"
  /\ \A g \in 1..(f - 1) : contents[g] = "target" \/ g \in Passable
  /\ contents' = [contents EXCEPT ![f] = "target"]

Lose(f) ==
  /\ f \in Losable \/ \E g \in Passable : g <= f
  /\ contents[f] = "source"
  /\ contents' = [contents EXCEPT ![f] = "lost"]

Next == \E f \in Files : Apply(f) \/ Lose(f)

Spec == Init /\ [][Next]_contents

=============================================================================
