------------------------------ MODULE MCExamples -----------------------------
(* Two windows and two buffers less than what is sent; an answer that fits   *)
(* into its buffer with a part to spare and one that does not.               *)
EXTENDS Examples
=============================================================================
