--------------------------- MODULE MCEvidenceStore ---------------------------
(***************************************************************************)
(* Two touches of 1000 before the stream, a zone from 980 to 1020, and     *)
(* closing prices on every side of it.  The distances of the zone rules    *)
(* are ten times the defaults, so that the padding is whole ticks of small *)
(* prices.                                                                 *)
(***************************************************************************)
EXTENDS EvidenceStore

Touched == << <<1050, 1100>>, <<1000, 1100>>, <<1050, 1100>>, <<1000, 1100>>, <<1050, 1100>> >>

\* The zone is intact, is being tested, so that a break can be pending first, or
\* has just been broken: by 950, which is near enough for its pivot to join the
\* zone's, or by 900, which is not.
MCHistories == {Touched} \cup {Append(Touched, <<price, price>>) : price \in {1000, 950, 900}}

MCPrices == {900, 950, 1000, 1050}
==============================================================================
