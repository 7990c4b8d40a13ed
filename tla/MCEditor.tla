------------------------------ MODULE MCEditor ------------------------------
(* Editor.tla on a small editor.                                             *)
EXTENDS Editor

\* a recorded flow graph is imported as it was
MCImported == [g \in Graphs |-> [n \in Graphs |-> n]]
MCScriptOf == [g \in Graphs |-> "top_block"]
=============================================================================
