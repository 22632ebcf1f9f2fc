------------------------------- MODULE Chain -------------------------------
(***************************************************************************)
(* The chain a syncer follows, as its RPC node answers: it grows, blocks   *)
(* become final, and blocks that are not final may be replaced.            *)
(* External: modelled from how sync/ and reorgdetector/ use the node.      *)
(***************************************************************************)
EXTENDS Naturals, FiniteSets, Sequences, SequencesExt, FiniteSetsExt

CONSTANTS
    MaxBlocks,  \* bound on the height of the chain
    MaxReorgs,  \* bound on the number of reorganisations
    EventNums,  \* numbers of the blocks that may have events
    Hazards     \* what the environment may do (see each use)

AllHazards == {"sameHeight", "midSweep", "subscribeFirst", "failedInsert"}

ASSUME ChainAssumption ==
    /\ MaxBlocks \in Nat \ {0}
    /\ MaxReorgs \in Nat
    /\ EventNums \subseteq 1..MaxBlocks
    /\ Hazards \subseteq AllHazards

VARIABLES
    chain,      \* the canonical blocks: chain[n] is block n
    finalized,  \* number of the last final block
    reorgs      \* number of reorganisations so far

chainVars == <<chain, finalized, reorgs>>

(* A block; the record stands for its hash.  Two forks never share a block *)
(* above the point where they part.                                        *)
Blocks == [num : 1..MaxBlocks, fork : 0..MaxReorgs, events : BOOLEAN]

NewBlocks(from, to, fork, withEvents) ==
    [i \in 1..(to - from + 1) |->
        [num |-> from + i - 1, fork |-> fork, events |-> from + i - 1 \in withEvents]]

Orphan(b) == b.num > Len(chain) \/ chain[b.num] # b

ChainInit ==
    /\ chain = <<>>
    /\ finalized = 0
    /\ reorgs = 0

Mine ==
    /\ Len(chain) < MaxBlocks
    /\ \E e \in BOOLEAN :
         /\ e => Len(chain) + 1 \in EventNums
         /\ chain' = Append(chain, [num |-> Len(chain) + 1, fork |-> reorgs, events |-> e])
    /\ UNCHANGED <<finalized, reorgs>>

Finalize ==
    /\ finalized < Len(chain)
    /\ finalized' = finalized + 1
    /\ UNCHANGED <<chain, reorgs>>

(* The new fork is longer than the old one, or of any height with the      *)
(* hazard "sameHeight".                                                    *)
Reorganise ==
    /\ reorgs < MaxReorgs
    /\ \E n \in (finalized + 1)..Len(chain) :
       \E top \in n..MaxBlocks :
         /\ "sameHeight" \notin Hazards => top > Len(chain)
         /\ \E withEvents \in SUBSET ((n..top) \cap EventNums) :
              chain' = SubSeq(chain, 1, n - 1)
                         \o NewBlocks(n, top, reorgs + 1, withEvents)
    /\ reorgs' = reorgs + 1
    /\ UNCHANGED finalized
=============================================================================
