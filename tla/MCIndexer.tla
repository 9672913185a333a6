----------------------------- MODULE MCIndexer ------------------------------
(* Two files, so that one embed() call can cover both.                     *)
EXTENDS Indexer
CONSTANTS a, b
MCPaths == {a, b}
MCOnePath == {a}
=============================================================================
