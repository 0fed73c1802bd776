--------------------------- MODULE MCPresenceProofs ---------------------------
(* The instances of BroadcastPresence with the inductive invariant of its proofs. *)
EXTENDS MCBroadcastPresence, BroadcastPresenceProofs
===============================================================================
