---------------------------- MODULE MCApiClient ----------------------------
(***************************************************************************)
(* ApiClient with a listing of one page, of three, and every kind of loop  *)
(* over them, three attempts, and traces that need no split, one, and      *)
(* several, one with a span over the cap.                                  *)
(***************************************************************************)
EXTENDS ApiClient, TLC

CONSTANTS p1, p2, p3

MCPages == {p1, p2, p3}
MCListings ==
  {(p1 :> b @@ p2 :> c @@ p3 :> d) :
     <<b, c, d>> \in {<<NoLink, NoLink, NoLink>>, <<p2, p3, NoLink>>, <<p1, NoLink, NoLink>>,
                     <<p2, p3, p1>>, <<p2, p3, p2>>}}
MCTraces == {<<>>, <<2>>, <<1, 1, 1>>, <<1, 3, 1, 1, 1>>}
=============================================================================
