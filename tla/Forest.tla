-------------------------------- MODULE Forest ---------------------------------
(***************************************************************************)
(* What the groups of the Control Dashboard promise: a forest, to which    *)
(* nodes are added, in which a node moves with everything below it, and    *)
(* from which only leaves are removed.                                     *)
(***************************************************************************)

CONSTANTS
    Node,
    Root       \* the parent of a node that is at the top

VARIABLE parent    \* parent[n]: what n is under, for the nodes there are

Nodes == DOMAIN parent

(* A set that contains, with a node, everything that is under it. *)
Closed(S) == \A n \in Nodes : parent[n] \in S => n \in S

(* n and everything below it. *)
Subtree(n) == {m \in Nodes : \A S \in SUBSET Nodes : n \in S /\ Closed(S) => m \in S}

Init == parent = [n \in {} |-> Root]

Add(n, p) ==
    /\ n \notin Nodes
    /\ p \in Nodes \cup {Root}
    /\ parent' = [m \in Nodes \cup {n} |-> IF m = n THEN p ELSE parent[m]]

Remove(n) ==
    /\ n \in Nodes
    /\ \A m \in Nodes : parent[m] # n
    /\ parent' = [m \in Nodes \ {n} |-> parent[m]]

Move(n, p) ==
    /\ n \in Nodes
    /\ p \in (Nodes \ Subtree(n)) \cup {Root}
    /\ parent' = [parent EXCEPT ![n] = p]

Next ==
    \E n \in Node : \/ Remove(n)
                    \/ \E p \in Node \cup {Root} : Add(n, p) \/ Move(n, p)

Spec == Init /\ [][Next]_parent
==============================================================================
