------------------------------ MODULE MCShell -------------------------------
(* Lines of at most two characters behind a prompt of one, on a screen of two rows: a line wraps, and
   the next prompt scrolls.  In MCShell.cfg commands write nothing; in MCShellBrowse.cfg they leave
   text in front of the prompt. *)
EXTENDS Shell, TLC

MCPrompt == <<">">>
\* A text that leaves the cursor inside a row.
MCOutputs == {<<"o">>}
MCNoOutput == {<<>>}
MCComplaint == <<NewLine, "o", NewLine>>
MCUnknown == <<"o">>
=============================================================================
