--------------------------- MODULE MCReadersWriter ---------------------------
(***************************************************************************)
(* Instances of ReadersWriter for TLC, with the three readers of the       *)
(* source.                                                                 *)
(***************************************************************************)
EXTENDS ReadersWriter

MCMutexes == {"resrc_mutex", "Nreader_count_mutex"}
=============================================================================
