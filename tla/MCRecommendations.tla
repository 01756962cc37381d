-------------------------- MODULE MCRecommendations --------------------------
(* Instances of Recommendations for TLC.                                    *)
EXTENDS Recommendations
=============================================================================
