----------------------------- MODULE MCRouteGuide -----------------------------
(***************************************************************************)
(* A small world: two places with a feature, one of them twice, one place  *)
(* with a feature without a name, as route_guide_db.json has many.         *)
(***************************************************************************)
EXTENDS RouteGuide

AllPrograms == DOMAIN Api

Database == <<
  [name |-> "Mendham", location |-> <<4, -7>>],
  [name |-> "", location |-> <<5, -7>>],
  [name |-> "Morristown", location |-> <<4, -5>>],
  [name |-> "Whippany", location |-> <<4, -7>>] >>

Note(message, latitude, longitude) == [message |-> message, location |-> <<latitude, longitude>>]

\* Rectangles with the corners in either order; the notes of the clients, and three
\* at one place.
SmallRequests == [
  SayHello |-> { <<"world">> },
  GetFeature |-> { <<p>> : p \in {<<4, -7>>, <<5, -7>>, <<0, 0>>} },
  ListFeatures |-> { <<[lo |-> r[1], hi |-> r[2]]>> : r \in
    { <<<<4, -8>>, <<5, -7>>>>, <<<<5, -5>>, <<4, -6>>>>, <<<<0, 0>>, <<9, -9>>>> } },
  RecordRoute |-> { << >>, <<<<4, -7>>, <<5, -7>>>>, <<<<4, -7>>, <<0, 0>>, <<4, -5>>>> },
  RouteChat |-> {
    <<Note("First", 0, 0), Note("Second", 0, 1), Note("Third", 1, 0), Note("Fourth", 0, 0)>>,
    <<Note("First", 0, 0), Note("Second", 0, 0), Note("Third", 0, 0)>> } ]
=============================================================================
