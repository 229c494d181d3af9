---------------------------- MODULE MCSharedRuns -----------------------------
(* Small instances of SharedRuns for TLC. *)
EXTENDS SharedRuns
=============================================================================
