---------------------------- MODULE MCActionLog ----------------------------
(* TLC instances of the action log.                                        *)
EXTENDS ActionLogProperties, TLC

ActionsAlike == Permutations(Action)

=============================================================================
