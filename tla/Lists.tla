-------------------------------- MODULE Lists --------------------------------
(***************************************************************************)
(* The two lists that narrow as the user types and whose answers come when *)
(* they come: the picker's, from the finding thread, and the completion's, *)
(* from a language server.  While the picker is up it has the keys, so a   *)
(* behaviour is of one of them; for the other it is a float.               *)
(***************************************************************************)
EXTENDS Finder, Completion, Replies

VARIABLE typing      \* where the user types: "picker" or "editor"

listsVars == <<typing, vars, completionVars>>

ListsInit ==
    /\ typing \in {"picker", "editor"}
    /\ Init
    /\ CompletionInit
    /\ typing = "picker" => offers = "completion"

ListsNext ==
    \/ typing = "picker" /\ Next /\ UNCHANGED <<typing, completionVars>>
    \/ typing = "editor" /\ CompletionNext /\ UNCHANGED <<typing, vars>>

\* The thread runs, the loop reads and ends its batches, servers answer.
ListsSpec ==
    /\ ListsInit /\ [][ListsNext]_listsVars
    /\ WF_vars(typing = "picker" /\ Take) /\ WF_vars(typing = "picker" /\ Work)
    /\ WF_vars(typing = "picker" /\ HandleFound)
    /\ CompletionFairness

-----------------------------------------------------------------------------
\* What is found is told as it is, so is what a server answers, whichever of
\* the shapes it may send it in, and neither float hides what it is about:
\* all four are about inputs and not about states, and are checked once.
\* (reply.rs: "a client that handles only the first works against exactly one
\* server".)
AnswersAreRead ==
    typing = "picker" /\ generation = 0 /\ picker = Closed =>
        SearchIsHonest /\ RankIsOrder /\ RepliesAreRead /\ PlacedRoundTheCaret

\* The picker's list and its choice are those of the query on screen, its
\* paths of the last walk; the completion list's are those of the word before
\* the caret, and a word typed is asked about until it is answered.
\* (complete.rs: "closing it when the caret has left the word or nothing
\* matches"; "the word is asked about again".)
ListsFit == ChoiceIsARow /\ RankedFromTheWalk /\ ListFitsTheWord /\ WordIsAsked

\* A picker left open gets its list, and a user who rests is asked for no more.
ListsSettle == EventuallyListed /\ EventuallyQuiet
=============================================================================
