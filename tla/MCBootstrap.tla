---------------------------- MODULE MCBootstrap ------------------------------
(* Bootstrap over all directories of a few short files.                     *)
EXTENDS Bootstrap
=============================================================================
