------------------------------- MODULE MCWebApp -------------------------------
(* The instance of WebApp that TLC checks: its constants are in MCWebApp.cfg. *)
EXTENDS WebApp
===============================================================================
