---------------------------- MODULE MCWorkQueue ----------------------------
(***************************************************************************)
(* WorkQueue on two producers and two consumers.                           *)
(***************************************************************************)
EXTENDS WorkQueue

\* Once every producer has submitted its MaxSubmits requests and the consumers
\* wait, only spurious wake-ups remain: the bound stops the producers, not the
\* code.
=============================================================================
