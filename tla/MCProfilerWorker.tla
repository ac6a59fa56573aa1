--------------------------- MODULE MCProfilerWorker ---------------------------
(* Two items, two connections, frames of three entries, up to two items at *)
(* a time; on demand only, two of two and one at a time.                   *)
EXTENDS ProfilerWorker
=============================================================================
