----------------------------- MODULE ConfigFeed -----------------------------
(***************************************************************************)
(* What configuration distribution promises, without saying how: the       *)
(* control plane publishes revisions, a data plane serves one of those     *)
(* published so far and, while it runs, only ever moves to a later one.    *)
(* ConfigSync is shown to implement it.                                    *)
(***************************************************************************)
EXTENDS Naturals

VARIABLES head,         \* revisions published so far are 1..head
          served        \* the revision being served, 0 for none

fVars == <<head, served>>

FInit == head = 1 /\ served = 0

Publish == head' = head + 1 /\ UNCHANGED served

\* Start serving some published revision, or move to a later one.
Adopt(r) == /\ r \in 1..head
            /\ served < r
            /\ served' = r
            /\ UNCHANGED head

\* The data plane stops; whatever it served is gone from memory.
Stop == served' = 0 /\ UNCHANGED head

FNext == Publish \/ Stop \/ \E r \in 1..head : Adopt(r)

FSpec == FInit /\ [][FNext]_fVars
=============================================================================
