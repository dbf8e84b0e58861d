-------------------------- MODULE MCGitHubDispatch --------------------------
(* A small instance of GitHubDispatch for TLC.                             *)
EXTENDS GitHubDispatch, TLC

=============================================================================
