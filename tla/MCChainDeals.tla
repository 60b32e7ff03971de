---------------------------- MODULE MCChainDeals ----------------------------
(* Small instances of ChainDeals for TLC. *)
EXTENDS ChainDeals, TLC

CONSTANTS ann, bob, cat, bike, lamp, sofa, book

\* A ring of three with a short cut: bob holds the bike, which ann wants; ann's
\* lamp is wanted by cat, then by bob; cat's sofa, left locked by nobody, is
\* wanted by bob.
RingHolder == bike :> bob @@ lamp :> ann @@ sofa :> cat
RingLock   == bike :> NoDeal @@ lamp :> NoDeal @@ sofa :> BareLock
RingWishes == bike :> <<ann>> @@ lamp :> <<cat, bob>> @@ sofa :> <<bob>>

\* The same, with a book for bob to change his offer to.
EditHolder == RingHolder @@ book :> bob
EditLock   == RingLock @@ book :> NoDeal
EditWishes == RingWishes @@ book :> <<cat>>

\* Two users who want each other's item.
PairHolder == bike :> bob @@ lamp :> ann
PairLock   == bike :> NoDeal @@ lamp :> NoDeal
PairWishes == bike :> <<ann>> @@ lamp :> <<bob>>

DealSymmetry == Permutations(Requests) \cup Permutations(Deals)
=============================================================================
