--------------------------- MODULE MCConfigEntry ---------------------------
(* ConfigEntry for TLC: flows and host keys are interchangeable. *)
EXTENDS ConfigEntry, TLC

Interchangeable == Permutations(Flows) \cup Permutations(Keys)
=============================================================================
