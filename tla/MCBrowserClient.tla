-------------------------- MODULE MCBrowserClient --------------------------
(* A finite instance of BrowserClient for TLC.                             *)
EXTENDS BrowserClient
=============================================================================
