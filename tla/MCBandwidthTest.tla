-------------------------- MODULE MCBandwidthTest --------------------------
(***************************************************************************)
(* Instances of BandwidthTest for TLC.  A unit of time stands for 60       *)
(* seconds with the default values.                                        *)
(***************************************************************************)
EXTENDS BandwidthTest, TLC

AgentSymmetry == Permutations(Agents)
=============================================================================
