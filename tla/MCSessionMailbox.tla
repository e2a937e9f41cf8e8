------------------------- MODULE MCSessionMailbox -------------------------
(* SessionMailbox for TLC: tasks and prompts are interchangeable. *)
EXTENDS SessionMailbox, TLC

MailboxSymmetry == Permutations(Tasks) \cup Permutations(Prompts)
=============================================================================
