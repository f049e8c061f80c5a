----------------------------- MODULE MCMachine ------------------------------
(* Machine on the files of LpcSamples. *)
EXTENDS Machine, LpcSamples

\* (Concatenation makes TLC compute the sequences once.)
MCImages     == <<>> \o Each(ImageOf, MachineSources)
=============================================================================
