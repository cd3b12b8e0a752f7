---------------------------- MODULE MCSeqStream ----------------------------
(* TLC instances of the writer and its subscriptions.                      *)
EXTENDS SeqStreamProperties

=============================================================================
