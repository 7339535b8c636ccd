---------------------------- MODULE MCDemoProcess ---------------------------
(* The messages the properties tell apart, one of them below info. *)
EXTENDS DemoProcess

MCDebugging == {"debug"}
MCPlain == {"info", "error", "failure", "aborting", "unverified", "no memory"}
=============================================================================
