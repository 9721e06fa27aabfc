----------------------------- MODULE MCAdapters -----------------------------
(***************************************************************************)
(* The instances of the adapters that TLC checks.                          *)
(***************************************************************************)
EXTENDS Adapters, TLC

CONSTANTS a1, a2, c1, c2

\* Without what nothing reads any more: the connections and the configurations
\* of the adapters the bridge does not hold, and what a stopped watch would have
\* read.
MCView ==
  <<phase, IF Stopping THEN None ELSE disk, chain, step, adapters, made,
    [a \in Agents |-> IF adapters[a] = None THEN Absent ELSE config[a][adapters[a]]],
    [a \in Agents |-> up[a] \cap {adapters[a], None}],
    supervisor, status>>
=============================================================================
