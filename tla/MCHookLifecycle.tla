---------------------------- MODULE MCHookLifecycle ----------------------------
(* HookLifecycle with two hooks and one command.                             *)
EXTENDS HookLifecycle

MCHookOrder == <<"lease4_select", "pkt4_send">>
=============================================================================
