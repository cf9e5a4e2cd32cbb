----------------------------- MODULE MCTaskLists -----------------------------
(* A fork, a new thread, a sibling, and what clone refuses.                *)
EXTENDS TaskLists
CallsDef == {{}, {"VM", "FS", "FILES", "SIGHAND", "THREAD"}, {"PARENT", "FILES"}}
=============================================================================
