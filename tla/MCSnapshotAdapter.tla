-------------------------- MODULE MCSnapshotAdapter --------------------------
(* A thin part of the five adapters: an unsorted book, one that is crossed   *)
(* only when it is sorted, and one with a wide spread.                        *)
EXTENDS SnapshotAdapter

Level(price, volume) == [price |-> price, volume |-> volume]

MCBooks ==
    {[bids |-> <<Level(98, 1), Level(99, 2)>>, asks |-> <<Level(102, 1), Level(101, 2)>>],
     [bids |-> <<Level(98, 1), Level(101, 1)>>, asks |-> <<Level(102, 1), Level(100, 1)>>],
     [bids |-> <<Level(90, 3)>>, asks |-> <<Level(110, 3)>>]}

MCVenues == Sources \cup {"LBANK"}
==============================================================================
