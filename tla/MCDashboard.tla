------------------------------ MODULE MCDashboard ------------------------------
(* GitHub, and two Forgejo instances or two spellings of one. *)
EXTENDS Dashboard, TLC

CONSTANTS github, codeberg, second

MCPlaces == {github, codeberg, second}
MCGitHub == {github}
MCBare == (github :> "") @@ (codeberg :> "codeberg") @@ (second :> "codeberg")
MCOtherBare == (github :> "") @@ (codeberg :> "codeberg") @@ (second :> "other")
=============================================================================
