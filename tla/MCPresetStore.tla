--------------------------- MODULE MCPresetStore ---------------------------
(* PresetStore over a few collections; see the README.                      *)
EXTENDS PresetStore
=============================================================================
