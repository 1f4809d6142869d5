----------------------------- MODULE Cuckarooz -----------------------------
(***************************************************************************)
(* Cuckarooz proof-of-work verification: Cuckarooz::Validate               *)
(* (src/src/PoW/Cuckarooz.cpp) and verify_cuckarooz                        *)
(* (src/deps/cuckoo/cuckarooz/cuckarooz.hpp), one step per iteration of    *)
(* its loops.                                                              *)
(*                                                                         *)
(* The siphash of an edge index (sipblock) is pseudo-random: each accepted *)
(* edge index is hashed once, since the indices must be strictly           *)
(* ascending, so the model lets each hash be any pair of node values.      *)
(* The check is that the verifier accepts exactly the proofs whose edges   *)
(* are ascending, in range and form one cycle through all PROOFSIZE edges. *)
(***************************************************************************)
EXTENDS Naturals, FiniteSets, Bitwise

LOCAL R == INSTANCE Relation

CONSTANTS
    PROOFSIZE,   \* edges in a proof (42 in Grin)
    EDGEMASK,    \* NEDGES - 1: the largest edge index
    NODEMASK     \* NNODES - 1: node values are the hash masked with it

ASSUME CuckaroozAssumptions ==
    /\ PROOFSIZE \in Nat \ {0}
    /\ EDGEMASK \in Nat
    /\ NODEMASK \in Nat

Positions == 0..(2 * PROOFSIZE - 1)   \* indices of uv
Nodes == 0..NODEMASK

(* Bound on the cycle walk: it visits no endpoint twice, so it returns     *)
(* within 2 * PROOFSIZE iterations; a walk that would not return stops     *)
(* here without a result, which VerifierTerminates reports.                *)
MaxWalk == 2 * PROOFSIZE + 1

(* Proof nonces as the block header carries them: one too few or exactly   *)
(* PROOFSIZE, each an edge index or one past the largest.                  *)
Proofs ==
    UNION {[0..(len - 1) -> 0..(EDGEMASK + 1)] : len \in {PROOFSIZE - 1, PROOFSIZE}}

(* POW_* results of verify_cuckarooz, and "running" while it runs.        *)
Results == {"running", "POW_OK", "POW_TOO_BIG", "POW_TOO_SMALL", "POW_NON_MATCHING",
            "POW_BRANCH", "POW_DEAD_END", "POW_SHORT_CYCLE"}

VARIABLES
    edges,     \* the proof nonces
    uv,        \* uv[k]: node value of endpoint k (edge k \div 2)
    xoruv,     \* XOR of the endpoints hashed so far
    n,         \* loop counter of either loop
    i,         \* current endpoint of the cycle walk
    pc,        \* "size", "hash", "follow" or "done"
    result,    \* verify_cuckarooz's return value
    valid      \* Validate's return value, once pc = "done"

vars == <<edges, uv, xoruv, n, i, pc, result, valid>>

(* uv is a local array of verify_cuckarooz; it is written before it is    *)
(* read, so its initial content does not matter.                           *)
Init ==
    /\ edges \in Proofs
    /\ uv = [k \in Positions |-> 0]
    /\ xoruv = 0
    /\ n = 0
    /\ i = 0
    /\ pc = "size"
    /\ result = "running"
    /\ valid = FALSE

(* Stop with status r; Validate returns r = POW_OK.                        *)
Return(r) ==
    /\ result' = r
    /\ valid' = (r = "POW_OK")
    /\ pc' = "done"

(* Cuckarooz::Validate, lines 16-20: a proof of the wrong size is refused  *)
(* before verification.                                                    *)
CheckSize ==
    /\ pc = "size"
    /\ IF DOMAIN edges # 0..(PROOFSIZE - 1)
       THEN /\ result' = "running"
            /\ valid' = FALSE
            /\ pc' = "done"
       ELSE /\ pc' = "hash"
            /\ UNCHANGED <<result, valid>>
    /\ UNCHANGED <<edges, uv, xoruv, n, i>>

(* Mutant of HashEdge: the ascending test of line 53 is gone.              *)
HashEdgeUnordered ==
    /\ pc = "hash"
    /\ n < PROOFSIZE
    /\ CASE edges[n] > EDGEMASK -> Return("POW_TOO_BIG") /\ UNCHANGED <<uv, xoruv, n>>
         [] OTHER ->
               \E u, v \in Nodes :
                  /\ uv' = [uv EXCEPT ![2 * n] = u, ![2 * n + 1] = v]
                  /\ xoruv' = (xoruv ^^ u) ^^ v
                  /\ n' = n + 1
                  /\ UNCHANGED <<pc, result, valid>>
    /\ UNCHANGED <<edges, i>>

(* One iteration of the first loop (lines 50-58): the edge index must be  *)
(* in range and above the previous one; its hash gives both endpoints.     *)
HashEdge ==
    /\ pc = "hash"
    /\ n < PROOFSIZE
    /\ CASE edges[n] > EDGEMASK -> Return("POW_TOO_BIG") /\ UNCHANGED <<uv, xoruv, n>>
         [] n # 0 /\ edges[n] <= edges[n - 1] ->
               Return("POW_TOO_SMALL") /\ UNCHANGED <<uv, xoruv, n>>
         [] OTHER ->
               \E u, v \in Nodes :
                  /\ uv' = [uv EXCEPT ![2 * n] = u, ![2 * n + 1] = v]
                  /\ xoruv' = (xoruv ^^ u) ^^ v
                  /\ n' = n + 1
                  /\ UNCHANGED <<pc, result, valid>>
    /\ UNCHANGED <<edges, i>>

(* Lines 59-60: endpoints whose XOR is not 0 cannot pair up.               *)
CheckXor ==
    /\ pc = "hash"
    /\ n = PROOFSIZE
    /\ IF xoruv # 0
       THEN Return("POW_NON_MATCHING") /\ UNCHANGED <<n, i>>
       ELSE /\ pc' = "follow"
            /\ n' = 0
            /\ i' = 0
            /\ UNCHANGED <<result, valid>>
    /\ UNCHANGED <<edges, uv, xoruv>>

(* The endpoints other than k with the same node value: the positions the *)
(* inner loop of line 63 visits and line 64 matches.                       *)
Matches(k) == {m \in Positions \ {k} : uv[m] = uv[k]}

(* Mutant of FollowStep: the loop's exit test (i != 0, line 73) is      *)
(* lost, so the walk goes round the cycle again after reaching endpoint 0. *)
FollowStepNoStop ==
    /\ pc = "follow"
    /\ n < MaxWalk
    /\ CASE Cardinality(Matches(i)) > 1 -> Return("POW_BRANCH") /\ UNCHANGED <<i, n>>
         [] Matches(i) = {} -> Return("POW_DEAD_END") /\ UNCHANGED <<i, n>>
         [] OTHER ->
               LET j == CHOOSE m \in Matches(i) : TRUE IN
                 /\ i' = j ^^ 1
                 /\ n' = n + 1
                 /\ UNCHANGED <<pc, result, valid>>
    /\ UNCHANGED <<edges, uv, xoruv>>

(* One iteration of the cycle walk (lines 62-73): the node at i must be   *)
(* shared with exactly one other endpoint j; the walk goes on from the     *)
(* other end of j's edge, and stops when it is back at endpoint 0.         *)
FollowStep ==
    /\ pc = "follow"
    /\ n < MaxWalk
    /\ CASE Cardinality(Matches(i)) > 1 -> Return("POW_BRANCH") /\ UNCHANGED <<i, n>>
         [] Matches(i) = {} -> Return("POW_DEAD_END") /\ UNCHANGED <<i, n>>
         [] OTHER ->
               LET j == CHOOSE m \in Matches(i) : TRUE IN
                 /\ i' = j ^^ 1
                 /\ n' = n + 1
                 /\ IF i' = 0
                    THEN Return(IF n + 1 = PROOFSIZE THEN "POW_OK" ELSE "POW_SHORT_CYCLE")
                    ELSE UNCHANGED <<pc, result, valid>>
    /\ UNCHANGED <<edges, uv, xoruv>>

Next == CheckSize \/ HashEdge \/ CheckXor \/ FollowStep

Spec == Init /\ [][Next]_vars /\ WF_vars(Next)

-----------------------------------------------------------------------------
(* Reference: what a Cuckarooz proof is.                                   *)

(* Two edges of the proof share a node.                                    *)
Adjacent == [p \in (0..(PROOFSIZE - 1)) \X (0..(PROOFSIZE - 1)) |->
                \E a \in {2 * p[1], 2 * p[1] + 1}, b \in {2 * p[2], 2 * p[2] + 1} :
                    uv[a] = uv[b]]

(* The PROOFSIZE edges form a single cycle: every node is an endpoint      *)
(* exactly twice or not at all, and the edges are connected.               *)
IsCycle ==
    /\ \A x \in Nodes : Cardinality({k \in Positions : uv[k] = x}) \in {0, 2}
    /\ R!IsConnected(Adjacent, 0..(PROOFSIZE - 1))

ProofIsValid ==
    /\ DOMAIN edges = 0..(PROOFSIZE - 1)
    /\ \A m \in DOMAIN edges : edges[m] <= EDGEMASK
    /\ \A m \in DOMAIN edges : m # 0 => edges[m - 1] < edges[m]
    /\ IsCycle

(* Header validation (Cuckarooz::Validate): the verifier accepts a proof   *)
(* exactly when its nonces are PROOFSIZE ascending edge indices whose      *)
(* edges form one cycle of that length; the XOR filter, the branch and     *)
(* dead-end tests and the walk's stop at endpoint 0 must together neither  *)
(* reject a cycle nor accept two short cycles, a branch or a repeated edge. *)
VerifierMatchesReference == pc = "done" => (valid <=> ProofIsValid)

(* The cycle walk of verify_cuckarooz always returns: it never runs on     *)
(* without coming back to endpoint 0, whatever the hashes are.             *)
VerifierTerminates == <>(pc = "done")

=============================================================================
