--------------------------- MODULE MCBrowserDeals ---------------------------
(* Small instances of BrowserDeals for TLC. *)
EXTENDS BrowserDeals, TLC

CONSTANTS ann, bob, cat, bike, lamp, sofa, book

\* Each user has put up one item; what is created on the page becomes ann's, as
\* the first item of the catalogue is hers, and comes first in it.
PairAuthor == bike :> ann @@ lamp :> bob @@ book :> ann
PairPlace  == book :> 0 @@ bike :> 1 @@ lamp :> 2

\* Three users whose items are all there from the start.
RingAuthor == bike :> ann @@ lamp :> bob @@ sofa :> cat
RingPlace  == bike :> 1 @@ lamp :> 2 @@ sofa :> 3
=============================================================================
