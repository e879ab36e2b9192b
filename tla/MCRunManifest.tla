----------------------------- MODULE MCRunManifest -----------------------------
(* RunManifest with the flaws a generated batch may have. *)
EXTENDS RunManifest

MCFindings == {{}, {"group", "rows"}, {"queue", "identity"}}
===============================================================================
