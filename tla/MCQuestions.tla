----------------------------- MODULE MCQuestions -----------------------------
(***************************************************************************)
(* Two files of two servers that number their requests alike, or one file  *)
(* of a server that crashes once, or one that the keys may leave.          *)
(***************************************************************************)
EXTENDS Questions

CONSTANTS a, b, srv, srw

TwoAlike ==
    [serverOf |-> [d \in {a, b} |-> IF d = a THEN srv ELSE srw],
     kinds |-> {"hover", "codeAction"}, mayLeave |-> FALSE,
     maxLives |-> 1, maxId |-> 3]

OneRestarted ==
    [serverOf |-> [d \in {a} |-> srv],
     kinds |-> {"codeAction", "rename"}, mayLeave |-> FALSE,
     maxLives |-> 2, maxId |-> 3]

OneLeft ==
    [serverOf |-> [d \in {a} |-> srv],
     kinds |-> Kinds, mayLeave |-> TRUE,
     maxLives |-> 1, maxId |-> 3]

MCSetups == {TwoAlike, OneRestarted, OneLeft}
================================================================================
