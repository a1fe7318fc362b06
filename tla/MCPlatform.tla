----------------------------- MODULE MCPlatform -----------------------------
(* Instances of Platform for TLC.                                          *)
EXTENDS Platform

RunJobs == (0 .. MaxMs) \X (1 .. MaxTests)

\* Bound: requests meet each other, or their tests meet crashes and retries.  No
\* fair action is kept from happening by it, since a test that is run may pass.
Requested == {p \in Posts : state[p] # None}
OneTrouble ==
  \/ crashes = 0 /\ failed = {}
  \/ \E p \in Posts : Requested \subseteq {p}

MCSpec ==
  PlatformInit /\ [][PlatformNext /\ OneTrouble']_platformVars /\ PlatformFairness
=============================================================================
