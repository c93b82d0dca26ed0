--------------------------- MODULE MCJobPipeline ----------------------------
(***************************************************************************)
(* Instances of JobPipeline for TLC.  Ids are model values; the jobs, the  *)
(* activations and the siblings are bounded by the requests.               *)
(***************************************************************************)
EXTENDS JobPipeline
=============================================================================
