-------------------------- MODULE MCDesktopSession --------------------------
(* Two pinned apps, one app that the Copilot creates and one file; enough   *)
(* logins for a session that follows another one.                           *)
EXTENDS DesktopSession, TLC

CONSTANTS a1, a2

DefaultApps == <<a1, a2>>

=============================================================================
