----------------------------- MODULE MCTelegramGate -----------------------------
(***************************************************************************)
(* Two requests at a time and a wait of a few seconds.                     *)
(***************************************************************************)
EXTENDS TelegramGate

=============================================================================
