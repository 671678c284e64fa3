------------------------ MODULE MCDescriptorArea ------------------------
(* A LOCAL and a GLOBAL area with the same name, and two items in all. *)
EXTENDS DescriptorArea, TLC

CONSTANTS A, Global, N

MCDescriptors == {<<A, N>>, <<Global, N>>}

\* Nothing treats one scope differently from another.
Symmetry == Permutations({A, Global})

MCCounts == {2}

MCSettings ==
  {"TYPE" :> "INTEGER" @@ "DATA" :> "int",
   "TYPE" :> "DATETIME" @@ "CODE" :> 1 @@ "INDICATOR" :> 0 @@ "DATA" :> "other",
   "TYPE" :> "DATETIME" @@ "CODE" :> 6,
   "INDICATOR" :> -1,
   "INDICATOR" :> 0}

MCTargets == {<<"int">>, <<"other">>, <<"int", "other">>, <<"other", "int">>}

MCTexts ==
  {[params |-> 2, columns |-> <<"INTEGER">>],
   [params |-> 1, columns |-> <<"DATETIME", "INTEGER">>]}
============================================================================
