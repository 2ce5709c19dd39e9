-------------------------- MODULE MCChatCompletion --------------------------
(* Instances of ChatCompletion for TLC.  The requests are model values that *)
(* the configurations choose, those that stream among them.                 *)
EXTENDS ChatCompletion
=============================================================================
