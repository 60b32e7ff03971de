-------------------------- MODULE MCBrowserAccount --------------------------
(* A small instance of BrowserAccount for TLC. *)
EXTENDS BrowserAccount, TLC

CONSTANTS ann, annsName, skis

\* ann has an account and wishes for nothing yet.
KnownNames  == ann :> annsName
KnownWishes == ann :> {}
=============================================================================
