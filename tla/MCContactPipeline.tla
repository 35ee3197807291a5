------------------------- MODULE MCContactPipeline -------------------------
(* ContactPipeline on small instances.  Two submissions are enough: they    *)
(* meet only in a crash.                                                    *)
EXTENDS ContactPipeline

CONSTANTS c1, c2

TwoContacts == {c1, c2}
=============================================================================
