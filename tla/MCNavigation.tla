---------------------------- MODULE MCNavigation ----------------------------
(* Three goals for a queue of two; a recovery that gives up and one that     *)
(* succeeds differ by the length of the cascade against the retry limit.     *)
EXTENDS NavigationNode

MCCascade == <<"wait", "replan">>
=============================================================================
