--------------------------- MODULE MCVehicleSnapshot ---------------------------
(* An instance of VehicleSnapshot for TLC: a way of three links, a place on *)
(* each of the outer two, two on the middle one and one off the map.  The   *)
(* first vehicle fills its ring of snapshots several times over, with       *)
(* changing identities and balancers; the other goes everywhere.            *)
EXTENDS VehicleSnapshot, TLC

CONSTANTS v1, v2, l1, l2, l3, p1, p2, q2, p3, off, i1, i2, a1, a2

ThreeLinksAt == (p1 :> l1) @@ (p2 :> l2) @@ (q2 :> l2) @@ (p3 :> l3) @@ (off :> NoLink)
ThreeLinksNext == (l1 :> l2) @@ (l2 :> l3) @@ (l3 :> NoLink)
ThreeLinksPrev == (l1 :> NoLink) @@ (l2 :> l1) @@ (l3 :> l2)
ThreeLinksFar == {<<p1, q2>>, <<q2, p1>>, <<p1, p3>>, <<p3, p1>>, <<off, p3>>, <<p3, off>>}

Update(v, p, t, i, a) == [vid |-> v, place |-> p, time |-> t, identity |-> i, address |-> a]

TwoVehicles ==
    {Update(v1, p, t, i1, a1) : p \in {p1}, t \in 1..MaxTime}
      \cup {Update(v1, p2, t, i2, a1) : t \in {2, 6}}
      \cup {Update(v1, p3, t, i2, a2) : t \in {4}}
      \cup {Update(v1, off, t, i1, NoAddress) : t \in {1, 5}}
      \cup {Update(v2, p, t, i1, a1) : p \in Places, t \in 1..3}

================================================================================
