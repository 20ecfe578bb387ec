-------------------------- MODULE MCWhatsAppOutbox --------------------------
(* WhatsAppOutbox for TLC: one event of each job and two invocations. *)
EXTENDS WhatsAppOutbox
=============================================================================
