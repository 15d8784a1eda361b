-------------------------- MODULE MCAgentDelivery --------------------------
(***************************************************************************)
(* AgentDelivery for TLC: batches, connections and files are interchangeable.*)
(***************************************************************************)
EXTENDS AgentDelivery, TLC

Symmetry == Permutations(Batches) \union Permutations(Conns)
              \union Permutations(Files) \union Permutations(Contents)
=============================================================================
