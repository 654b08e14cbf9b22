----------------------------- MODULE MCStartup ------------------------------
(* Three commands, two of them in one bucket. *)
EXTENDS Startup, TLC

MCCommands == <<"alloc", "help", "mem">>
MCBucket == [name \in {"alloc", "help", "mem"} |-> IF name = "help" THEN 1 ELSE 2]
=============================================================================
