---------------------------- MODULE MCEtlPipeline ----------------------------
(* EtlPipeline for TLC: one of three messages does not parse. *)
EXTENDS EtlPipeline

MCInvalid == {2}
===============================================================================
