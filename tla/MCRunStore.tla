------------------------------ MODULE MCRunStore ------------------------------
(***************************************************************************)
(* The ledger under callers without a protocol, on a small instance.       *)
(***************************************************************************)
EXTENDS RunStore

CONSTANTS
    MaxJournal,     \* bound on the rows of the journal
    MaxRows,        \* bound on the rows of the journal and the evidence tables together
    MaxMemory       \* bound on the revisions of the memory

\* Costs are charged where they count: with the events that end an attempt.
MCNext ==
    /\ StoreNext
    /\ journal'[Len(journal')].cost > 0 => journal'[Len(journal')].event \in AttemptEnd
    /\ Len(journal') <= MaxJournal
    /\ Len(journal') + Len(candidates') + Len(evaluations') + Len(advice') + Len(receipts')
          <= MaxRows
    /\ memory'.memory_revision <= MaxMemory

MCSpec == StoreInit /\ [][MCNext]_ledger
=============================================================================
