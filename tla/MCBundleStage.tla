--------------------------- MODULE MCBundleStage ----------------------------
(* Instances of BundleStage for TLC. *)
EXTENDS BundleStage

Mode(live, dry, review) == [live |-> live, dry |-> dry, review |-> review]

Distinct == [b \in Bundles |-> b]
AnyFlow == {"continue", "skip", "error"}
NoActions == {}
AnyMode == {Mode(TRUE, FALSE, FALSE), Mode(FALSE, FALSE, TRUE), Mode(FALSE, TRUE, FALSE)}
OnTerminal == {Mode(TRUE, FALSE, FALSE)}
Either == {TRUE, FALSE}
=============================================================================
