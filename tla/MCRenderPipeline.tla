-------------------------- MODULE MCRenderPipeline --------------------------
(* Actors and messages are model values; those of a kind are interchangeable. *)
EXTENDS RenderPipeline, TLC

Symmetry == Permutations(EventConsumers) \cup Permutations(DeviceConsumers)
              \cup Permutations(Messages)
=============================================================================
