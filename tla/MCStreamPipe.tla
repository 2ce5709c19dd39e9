---------------------------- MODULE MCStreamPipe ----------------------------
(* One stream, over every body of a few lines.                             *)
EXTENDS StreamPipe

MCSymbols == {"nl", "crlf", "delta", "odd", "warped", "junk", "done", "comment"}
=============================================================================
