------------------------------- MODULE MCMcClient -------------------------------
(* Small instances of McClient for TLC. *)
EXTENDS McClient, TLC

\* one segment carries any whole answer
WholeAnswers == {HeadLen + ErrLen}

\* an answer can break inside its head, before the length field, or behind it
BrokenAnswers == {11, HeadLen}

\* tasks play the same role
TaskSymmetry == Permutations(Tasks)
================================================================================
