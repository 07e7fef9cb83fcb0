------------------------- MODULE MCProducerConsumer --------------------------
(***************************************************************************)
(* Instances of ProducerConsumer for TLC.                                  *)
(***************************************************************************)
EXTENDS ProducerConsumer

MCMutexes == {"resrc_mutex"}
=============================================================================
