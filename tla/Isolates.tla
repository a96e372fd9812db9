------------------------------ MODULE Isolates ------------------------------
(***************************************************************************)
(* The isolates the worker runs in (src/wrangler.toml): the variables of a *)
(* TypeScript module exist once in each of them, and KV is what they share.*)
(***************************************************************************)
CONSTANT Isolate        \* bound: isolates alive at once
=============================================================================
