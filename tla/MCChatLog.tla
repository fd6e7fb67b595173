----------------------------- MODULE MCChatLog -----------------------------
(* Small instances of ChatLog for TLC.                                       *)
EXTENDS ChatLog
=============================================================================
