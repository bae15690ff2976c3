---------------------------- MODULE MCBlockQueue ----------------------------
(***************************************************************************)
(* BlockQueue with a few blocks and clients; stray is a block of no chain. *)
(***************************************************************************)
EXTENDS BlockQueue

CONSTANTS b1, b2, b3, c1, c2, stray

\* One block is queued a second time, after it was sent or taken out.
MCMaxAdds == [h \in Block |-> IF h = b1 THEN 2 ELSE 1]
=============================================================================
