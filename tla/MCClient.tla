------------------------------ MODULE MCClient ------------------------------
(***************************************************************************)
(* The ways of using the node that Client is checked for.                  *)
(***************************************************************************)
EXTENDS Client

Way(level, reader, keeps) == [level |-> level, reader |-> reader, keeps |-> keeps]

\* Ways in which the node is never held up for ever.
SoundUses ==
    {Way(level, reader, FALSE) : level \in {"Debug", "Info", "Warning"}, reader \in {"task", "dropped"}}
    \cup {Way("Warning", "between", FALSE)}

OneTask == {Way("Info", "between", FALSE)}
Kept == {Way("Info", "task", TRUE)}
=============================================================================
