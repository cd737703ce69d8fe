---------------------------- MODULE MCPreferences ----------------------------
(***************************************************************************)
(* What is kept from one start to the next, on small instances: the        *)
(* preferences, and the layout of the panes, which a session keeps.  They  *)
(* share no state, so a behaviour is of one of them.  One prefix with one  *)
(* shipped row, one plain chord, and files with notes, a row that frees a  *)
(* chord, a clash and a chord spelled twice.                               *)
(***************************************************************************)
EXTENDS Preferences

CONSTANTS Regions, Targets, MaxIds   \* PaneLayout's

VARIABLES kept,    \* what moves: the preferences or the layout
          layout, order, current, nextId, region, dragging   \* PaneLayout's

layoutVars == <<layout, order, current, nextId, region, dragging>>

Tiles == INSTANCE PaneLayout

KeptInit ==
    /\ kept \in {"preferences", "layout"}
    /\ Init
    /\ Tiles!Init
    /\ kept = "preferences" => region = CHOOSE r \in Regions : TRUE
    /\ kept = "layout" => keysFile = Absent /\ configFile = Absent

KeptNext ==
    \/ kept = "preferences" /\ Next /\ UNCHANGED <<kept, layoutVars>>
    \/ kept = "layout" /\ Tiles!Next /\ UNCHANGED <<kept, vars>>

KeptSpec == KeptInit /\ [][KeptNext]_<<kept, vars, layoutVars>>

\* A wide screen, one with the dock open, and one too small for anything; the
\* pointer goes past both ends and somewhere between.
MCRegions == {[x |-> 0, y |-> 0, w |-> 33, h |-> 11],
              [x |-> 5, y |-> 1, w |-> 23, h |-> 8],
              [x |-> 0, y |-> 1, w |-> 2, h |-> 1]}
MCTargets == {0, 12, 40}

MCDefaults == (<<"k", "x">> :> "search") @@ (<<"x">> :> "cut")

MCKeyFiles == {Absent,
               Table(<<Line(<<"k", "x">>, Unbound, {"note"}, {}),
                       Line(<<"x">>, "search", {}, {"why"})>>, {}),
               Table(<<Line(<<"k">>, "cut", {}, {})>>, {"last"})}
MCKeyEdits == {Unreadable,
               Table(<<Line(<<"x">>, "search", {}, {}),
                       Line(<<"x", " ">>, "cut", {"note"}, {})>>, {})}

MCSettingFiles == {Absent,
                   Table(<<Line("theme", "gone", {"note"}, {}),
                           Line("color_depth", "24bit", {}, {"why"}),
                           Line("indent_width", "17", {"wide"}, {}),
                           Section("language", "more", {"servers"})>>, {"last"})}
MCSettingEdits == {Absent, Broken}
-----------------------------------------------------------------------------
\* The panes and their rules tile the region, the tree names every pane once
\* and is what a session accepts, and the arrows lead everywhere (pane.rs;
\* panes.rs, focus_neighbour; session.rs, from_toml).
LayoutSound == kept = "layout" => Tiles!LayoutSound

\* A rule that is moved goes to its cell, or as far as what is beside it
\* allows, and can be put back (pane.rs, place_rule).
RuleMovesAlone == [][kept = "layout" => Tiles!RuleMovesAlone]_layoutVars
=============================================================================
