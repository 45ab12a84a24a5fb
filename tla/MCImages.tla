------------------------------ MODULE MCImages -------------------------------
(* Two processes and two tags.  Users call two commands and edit files, or *)
(* two in different directories, or three commands.                        *)
EXTENDS ImageBuild, TLC

CONSTANTS p1, p2, t1, t2, d1, d2, e, c, d, r, y, MaxBlobs

MCProcs == {p1, p2}
MCTags == {t1, t2}
MCBlobs == 0 .. MaxBlobs
MCImages == {<<>>} \cup {<<a>> : a \in MCBlobs} \cup {<<a, b>> : a, b \in MCBlobs}
MCDigests == {<<1>>}
MCSteps == {e, c, d, r, y}
MCKind ==
  e :> "meta" @@ c :> "copy" @@ d :> "copy" @@ r :> "run" @@ y :> "python"
MCRecipes == {<<c>>, <<c, e, d>>, <<e, r>>, <<c, y>>}
MCDirs == {d1, d2}
MCWorkloads ==
  {[recipes |-> {<<c, e, d>>, <<e, r>>, <<c, y>>}, dirs |-> {d1}, calls |-> 2,
    builds |-> {1, 2}, edits |-> 0],
   [recipes |-> {<<c>>}, dirs |-> {d1}, calls |-> 2, builds |-> {1, 2}, edits |-> 1],
   [recipes |-> {<<c>>}, dirs |-> {d1, d2}, calls |-> 2, builds |-> {1, 2}, edits |-> 0],
   [recipes |-> {<<c>>}, dirs |-> {d1}, calls |-> 3, builds |-> {1, 2}, edits |-> 0],
   [recipes |-> {<<c>>}, dirs |-> {d1}, calls |-> 3, builds |-> {1, 3}, edits |-> 0]}
Symmetry == Permutations(MCProcs) \cup Permutations(MCTags)
==============================================================================
