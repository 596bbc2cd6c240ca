-------------------------- MODULE MCBrowserManager --------------------------
(* browser.Manager with profiles p1, behind an authenticated SOCKS5 proxy,  *)
(* and p2, both on a runtime whose settings ask for the safe-GPU fallback.  *)
EXTENDS BrowserManager

CONSTANTS p1, p2
=============================================================================
