--------------------------- MODULE MCBrowserHost ---------------------------
(* A TLC instance of BrowserHost.                                           *)
EXTENDS BrowserHost
=============================================================================
