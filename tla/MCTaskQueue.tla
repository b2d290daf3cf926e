---------------------------- MODULE MCTaskQueue ----------------------------
(* Small instances of TaskQueue for TLC. *)
EXTENDS TaskQueue, TLC

(* Chat rows are inserted with priority 2, quick-creates with 3 (high);    *)
(* the issues of these instances have priority low, runs none.             *)
MCPriority == [l \in Links |-> IF l \in QuickCreates THEN 3
                               ELSE IF l \in Chats \cup {Orphan, Blank} THEN 2
                               ELSE IF l \in Issues THEN 1 ELSE 0]

(* Every chat session belongs to the same agent. *)
MCSessionAgent == [s \in Chats |-> CHOOSE a \in Agents : TRUE]

Symmetry == Permutations(Claimers) \cup Permutations(Enqueuers) \cup Permutations(Refreshers)

(* Where no chat session ties an agent, the agents are alike too. *)
AgentSymmetry == Symmetry \cup Permutations(Agents)
=============================================================================
