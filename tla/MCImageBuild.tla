---------------------------- MODULE MCImageBuild ----------------------------
(* Instances of ImageBuild for TLC.                                        *)
EXTENDS ImageBuild
=============================================================================
