--------------------------- MODULE MCParsePipeline ---------------------------
(***************************************************************************)
(* Three open files in two panes, one of them behind another, for TLC.     *)
(***************************************************************************)
EXTENDS ParsePipeline

CONSTANTS a, b, c

MCTabs == {a, b, c}
MCPaneOf == [t \in MCTabs |-> IF t = c THEN 2 ELSE 1]
MCFirst == <<a, c>>
================================================================================
