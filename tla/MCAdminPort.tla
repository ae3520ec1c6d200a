---------------------------- MODULE MCAdminPort -----------------------------
(***************************************************************************)
(* Instances of AdminPort: two clients and one plugin; or one client, a    *)
(* file that is replaced or damaged, and one or two plugins in that file.  *)
(***************************************************************************)
EXTENDS AdminPort

CONSTANTS c1, c2, p1, p2, f1

Path(f, g) == [p \in {p1, p2} |-> IF p = p1 THEN f ELSE g]

MCScenarios ==
  {[clients |-> {c1, c2}, path |-> Path(f1, "none"), files |-> {}],
   [clients |-> {c1}, path |-> Path(f1, "none"), files |-> {f1}],
   [clients |-> {c1}, path |-> Path(f1, f1), files |-> {f1}]}

=============================================================================
