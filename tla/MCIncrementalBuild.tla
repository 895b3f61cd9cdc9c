-------------------------- MODULE MCIncrementalBuild --------------------------
(***************************************************************************)
(* Instances of IncrementalBuild.                                          *)
(***************************************************************************)
EXTENDS IncrementalBuild

CONSTANTS a, b1, c

MCFile == {a, b1, c}
MCOrder == <<a, b1, c>>

\* c uses b1, and b1 may use a, with a cascading use or not.
MCUses ==
  (a :> {{}}) @@
  (b1 :> {{}, {Use(a, TRUE)}, {Use(a, FALSE)}}) @@
  (c :> {{Use(b1, FALSE)}})

\* Two files, of which one uses the other.
MCTwoFiles == {a, b1}
MCTwoOrder == <<a, b1>>
MCTwoUses == (a :> {{}}) @@ (b1 :> {{Use(a, FALSE)}})
=============================================================================
