---------------------------- MODULE MCMetaServer ----------------------------
(***************************************************************************)
(* Instances of MetaServer for TLC.                                        *)
(***************************************************************************)
EXTENDS MetaServer
=============================================================================
