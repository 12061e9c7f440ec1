--------------------------- MODULE MCParkingZones ---------------------------
(* Shapes on a small grid for ParkingZones.                                *)
EXTENDS ParkingZones

At(lat, lon) == [lat |-> lat, lon |-> lon]

Grid == [lat : {0, 2, 4}, lon : {0, 2, 4}]

(* Every triangle on the grid with its first vertex at the top or bottom.  *)
Triangles == {<<At(a, 0), b, c>> : a \in {0, 2, 4}, b, c \in Grid}

(* A square, a concave shape, one that crosses itself, an L, and shapes    *)
(* without area.                                                           *)
Square4  == <<At(0, 0), At(0, 4), At(4, 4), At(4, 0)>>
Dart     == <<At(0, 0), At(4, 2), At(0, 4), At(1, 2)>>
Bow      == <<At(0, 0), At(4, 4), At(4, 0), At(0, 4)>>
LShape   == <<At(0, 4), At(2, 4), At(2, 2), At(4, 2), At(4, 0), At(0, 0)>>
Line     == <<At(0, 0), At(2, 4)>>
Dot      == <<At(1, 1)>>

Zone(id, polygon) == [id |-> id, polygon |-> polygon]

OneZone == {<<Zone("a", t)>> : t \in Triangles}

ManyZones ==
  {<<Zone("a", s), Zone("b", t), Zone(id, u)>> :
     s \in {Square4, LShape}, t \in {Dart, Bow}, u \in {Line, Dot, <<>>}, id \in {"a", "c"}}

TestConfigurations == OneZone \cup ManyZones

TestPoints == [lat : 0 .. 4, lon : -1 .. 5]

(* Two operators share a zone, one has no zone, and an id is used twice.   *)
TestOperators == << [id |-> "x", zone |-> "a"], [id |-> "y", zone |-> "b"],
                    [id |-> "z", zone |-> "a"], [id |-> "x", zone |-> "nowhere"] >>
=============================================================================
