--------------------------- MODULE MCConfigStore ---------------------------
(* Two files, two contents, and batches that store both files in either order. *)
EXTENDS ConfigStore

CONSTANTS f1, f2, c1, c2

MCBatches == { <<[file |-> f, content |-> c], [file |-> g, content |-> c]>> :
                 <<f, g, c>> \in {<<f1, f2, c1>>, <<f2, f1, c2>>} }
=============================================================================
