----------------------------- MODULE MCCampaign -----------------------------
(* Instances of Campaign for TLC. *)
EXTENDS Campaign

Call(cmd, names, flags, window, cap) ==
  [cmd |-> cmd, names |-> names, auto |-> "auto" \in flags, plan |-> "plan" \in flags,
   review |-> "review" \in flags, every |-> "every" \in flags, window |-> window, cap |-> cap]

AllCalls ==
  {Call("all", {}, {}, "none", 1), Call("all", {}, {"every"}, "set", 9),
   Call("all", {"a"}, {}, "none", 9), Call("all", {"all"}, {}, "none", 9),
   Call("all", {"all", "a"}, {}, "none", 9),
   Call("all", {}, {"auto"}, "set", 9), Call("all", {}, {"auto"}, "bad", 9),
   Call("all", {}, {"auto", "plan"}, "none", 9), Call("all", {"a"}, {"auto"}, "none", 9),
   Call("report", {}, {"auto", "review"}, "none", 9),
   Call("report", {"a"}, {"review"}, "none", 9), Call("report", {}, {}, "none", 9)}

PlainCall == {Call("all", {}, {}, "none", 9)}
TwoRoles == {"a", "b"}
=============================================================================
