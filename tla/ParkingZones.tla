---------------------------- MODULE ParkingZones ----------------------------
(***************************************************************************)
(* The location lookup of PARKING_FEE_SERVICE (backend/parking-fee-service)*)
(* on an integer grid: the ray casting loop over the edges of one zone     *)
(* after the other, the distance to the edges for points outside, and the  *)
(* operators of the zones that match.  The store is filled once and read   *)
(* only, so one request at a time shows what all requests get.             *)
(*                                                                         *)
(* Arithmetic is exact and the grid is flat: rounding, the cosine of the   *)
(* latitude and the curvature of the earth are left out.                   *)
(***************************************************************************)
EXTENDS Integers, Sequences, FiniteSets

CONSTANTS
  ZoneIds,         \* names of zones
  Points,          \* coordinates an app may ask about
  Configurations,  \* the zone lists a configuration file may have
  Operators,       \* the operators of the configuration, in order
  Threshold        \* the proximity threshold, squared

Coordinates == [lat : Int, lon : Int]

ASSUME PointsAssumption == Points \subseteq Coordinates
ASSUME ConfigurationsAssumption ==
  Configurations \subseteq Seq([id : ZoneIds, polygon : Seq(Coordinates)])
ASSUME OperatorsAssumption ==
  Operators \in Seq([id : {Operators[k].id : k \in DOMAIN Operators},
                     zone : {Operators[k].zone : k \in DOMAIN Operators}])
ASSUME ThresholdAssumption == Threshold \in Nat

VARIABLES
  zones,    \* cfg.Zones
  byId,     \* operators: the operator with each id, 0 if there is none yet
  byZone,   \* operatorsByZone: the operators with each zone id, in order
  stage,    \* what is done next: see Stages
  point,    \* the coordinate asked about
  zone,     \* index of the zone being tested
  edge,     \* index of the edge being tested
  inside,   \* the ray has crossed an odd number of edges
  result,   \* indices of the zones that match so far
  item,     \* index of the operator stored, or of the result looked up
  found,    \* the operators of the results looked up so far
  reply     \* the last reply: a status or a list of operator indices

vars == <<zones, byId, byZone, stage, point, zone, edge, inside, result, item,
          found, reply>>

store == <<byId, byZone>>

-----------------------------------------------------------------------------
Stages == {"load", "idle", "zone", "ray", "edge", "collect"}

Ids == {Operators[k].id : k \in DOMAIN Operators}

ZoneNames == {Operators[k].zone : k \in DOMAIN Operators}

(* Edges are numbered by their end: edge i leads from vertex i - 1 to i.   *)
Start(polygon, i) == polygon[IF i = 1 THEN Len(polygon) ELSE i - 1]

(* Mutant: both ends of an edge count as belonging to it.                  *)
Crosses_Closed(p, polygon, i) ==
  LET a == Start(polygon, i)
      b == polygon[i]
      turn == (p.lat - a.lat) * (b.lon - a.lon) - (p.lon - a.lon) * (b.lat - a.lat)
  IN \/ b.lat >= p.lat /\ p.lat >= a.lat /\ turn > 0
     \/ a.lat >= p.lat /\ p.lat >= b.lat /\ turn < 0

(* The ray in the direction of growing longitude crosses the edge: one end *)
(* is above the ray, and p.lon is less than the intersection's longitude   *)
(* (multiplied by b.lat - a.lat).                                          *)
Crosses(p, polygon, i) ==
  LET a == Start(polygon, i)
      b == polygon[i]
      turn == (p.lat - a.lat) * (b.lon - a.lon) - (p.lon - a.lon) * (b.lat - a.lat)
  IN \/ b.lat > p.lat /\ a.lat <= p.lat /\ turn > 0
     \/ a.lat > p.lat /\ b.lat <= p.lat /\ turn < 0

Square(x) == x * x

(* HaversineDistance on the flat grid, squared.                            *)
DistanceSquared(p, q) == Square(q.lat - p.lat) + Square(q.lon - p.lon)

(* Mutant: the projection is not clamped, as if an edge went on for ever.  *)
SegmentWithin_Line(p, a, b) ==
  LET dx == b.lon - a.lon
      dy == b.lat - a.lat
      len == dx * dx + dy * dy
      cross == (p.lon - a.lon) * dy - (p.lat - a.lat) * dx
  IN IF len = 0 THEN DistanceSquared(p, a) <= Threshold
     ELSE Square(cross) <= Threshold * len

(* distanceToSegment(p, a, b) <= threshold; t is dot / len, clamped.       *)
SegmentWithin(p, a, b) ==
  LET dx == b.lon - a.lon
      dy == b.lat - a.lat
      len == dx * dx + dy * dy
      dot == (p.lon - a.lon) * dx + (p.lat - a.lat) * dy
      cross == (p.lon - a.lon) * dy - (p.lat - a.lat) * dx
  IN CASE dot <= 0   -> DistanceSquared(p, a) <= Threshold  \* len = 0 too
       [] dot >= len /\ dot > 0 -> DistanceSquared(p, b) <= Threshold
       [] OTHER      -> Square(cross) <= Threshold * len

(* DistanceToPolygonEdge(p, polygon) <= threshold: some edge is that near. *)
Near(p, polygon) ==
  \E i \in 1 .. Len(polygon) : SegmentWithin(p, Start(polygon, i), polygon[i])

-----------------------------------------------------------------------------
Init ==
  /\ zones \in Configurations
  /\ byId = [id \in Ids |-> 0]
  /\ byZone = [name \in ZoneNames |-> <<>>]
  /\ stage = "load"
  /\ point \in Points
  /\ zone = 1
  /\ edge = 1
  /\ inside = FALSE
  /\ result = <<>>
  /\ item = 1
  /\ found = <<>>
  /\ reply = "none"

(* Mutant: operatorsByZone holds one operator for each zone.               *)
Store_Last ==
  /\ stage = "load" /\ item <= Len(Operators)
  /\ byId' = [byId EXCEPT ![Operators[item].id] = item]
  /\ byZone' = [byZone EXCEPT ![Operators[item].zone] = <<item>>]
  /\ item' = item + 1
  /\ UNCHANGED <<zones, stage, point, zone, edge, inside, result, found, reply>>

(* One turn of NewStore's loop: of the operators with one id the map keeps *)
(* the last, of those with one zone id it keeps all.                       *)
Store ==
  /\ stage = "load" /\ item <= Len(Operators)
  /\ byId' = [byId EXCEPT ![Operators[item].id] = item]
  /\ byZone' = [byZone EXCEPT ![Operators[item].zone] = Append(@, item)]
  /\ item' = item + 1
  /\ UNCHANGED <<zones, stage, point, zone, edge, inside, result, found, reply>>

(* The service listens.                                                    *)
Listen ==
  /\ stage = "load" /\ item = Len(Operators) + 1
  /\ stage' = "idle"
  /\ UNCHANGED <<zones, store, point, zone, edge, inside, result, item, found, reply>>

(* Parameters that are missing, no numbers or out of range.                *)
Refuse ==
  /\ stage = "idle"
  /\ reply' = "bad request"
  /\ UNCHANGED <<zones, store, stage, point, zone, edge, inside, result, item, found>>

(* GET /operators/{id}/adapter: an operator's adapter, or 404.             *)
FetchAdapter(id) ==
  /\ stage = "idle"
  /\ reply' = IF id \in Ids THEN <<byId[id]>> ELSE "not found"
  /\ UNCHANGED <<zones, store, stage, point, zone, edge, inside, result, item, found>>

(* GET /operators: the parameters are read, FindMatchingZones begins.      *)
Ask(p) ==
  /\ stage = "idle"
  /\ stage' = "zone"
  /\ point' = p
  /\ zone' = 1
  /\ result' = <<>>
  /\ UNCHANGED <<zones, store, edge, inside, item, found, reply>>

Polygon == zones[zone].polygon

(* PointInPolygon begins; with less than three vertices nothing is inside. *)
BeginZone ==
  /\ stage = "zone" /\ zone <= Len(zones)
  /\ stage' = IF Len(Polygon) < 3 THEN "edge" ELSE "ray"
  /\ edge' = 1
  /\ inside' = FALSE
  /\ UNCHANGED <<zones, store, point, zone, result, item, found, reply>>

(* One turn of the loop.                                                   *)
RayStep ==
  /\ stage = "ray" /\ edge <= Len(Polygon)
  /\ inside' = (inside # Crosses(point, Polygon, edge))
  /\ edge' = edge + 1
  /\ UNCHANGED <<zones, store, stage, point, zone, result, item, found, reply>>

RayDone == stage = "ray" /\ edge = Len(Polygon) + 1

(* Mutant: the zone's distance is looked at too.                           *)
MatchInside_NoContinue ==
  /\ RayDone /\ inside
  /\ result' = Append(result, zone)
  /\ stage' = "edge"
  /\ UNCHANGED <<zones, store, point, zone, edge, inside, item, found, reply>>

(* The continue at the end of the first if.                                *)
MatchInside ==
  /\ RayDone /\ inside
  /\ result' = Append(result, zone)
  /\ zone' = zone + 1
  /\ stage' = "zone"
  /\ UNCHANGED <<zones, store, point, edge, inside, item, found, reply>>

MissInside ==
  /\ RayDone /\ ~inside
  /\ stage' = "edge"
  /\ UNCHANGED <<zones, store, point, zone, edge, inside, result, item, found, reply>>

(* DistanceToPolygonEdge(point, zone.Polygon) <= threshold.                *)
TestDistance ==
  /\ stage = "edge"
  /\ result' = IF Near(point, Polygon) THEN Append(result, zone) ELSE result
  /\ zone' = zone + 1
  /\ stage' = "zone"
  /\ UNCHANGED <<zones, store, point, edge, inside, item, found, reply>>

(* The zones are found, GetOperatorsByZoneIDs begins.                      *)
Found ==
  /\ stage = "zone" /\ zone = Len(zones) + 1
  /\ stage' = "collect"
  /\ item' = 1
  /\ found' = <<>>
  /\ UNCHANGED <<zones, store, point, zone, edge, inside, result, reply>>

(* The operators of a zone id: none if the map does not know it.           *)
OperatorsOf(name) == IF name \in ZoneNames THEN byZone[name] ELSE <<>>

(* One turn of its loop.                                                   *)
Collect ==
  /\ stage = "collect" /\ item <= Len(result)
  /\ found' = found \o OperatorsOf(zones[result[item]].id)
  /\ item' = item + 1
  /\ UNCHANGED <<zones, store, stage, point, zone, edge, inside, result, reply>>

Respond ==
  /\ stage = "collect" /\ item = Len(result) + 1
  /\ reply' = found
  /\ stage' = "idle"
  /\ UNCHANGED <<zones, store, point, zone, edge, inside, result, item, found>>

Next ==
  \/ Store \/ Listen \/ Refuse
  \/ \E id \in Ids \cup {"unknown"} : FetchAdapter(id)
  \/ \E p \in Points : Ask(p)
  \/ BeginZone \/ RayStep \/ MatchInside \/ MissInside \/ TestDistance
  \/ Found \/ Collect \/ Respond

Spec == Init /\ [][Next]_vars

-----------------------------------------------------------------------------
TypeOK ==
  /\ zones \in Configurations
  /\ stage \in Stages
  /\ point \in Points
  /\ zone \in 1 .. Len(zones) + 1
  /\ edge \in Nat \ {0}
  /\ inside \in BOOLEAN
  /\ result \in Seq(1 .. Len(zones))
  /\ byId \in [Ids -> 0 .. Len(Operators)]
  /\ byZone \in [ZoneNames -> Seq(1 .. Len(Operators))]
  /\ item \in Nat \ {0}
  /\ found \in Seq(1 .. Len(Operators))

(* The edges before n that the ray crosses.                                *)
Crossed(p, polygon, n) == {i \in 1 .. n - 1 : Crosses(p, polygon, i)}

Odd(n) == n % 2 = 1

(* The loop counts: inside is the parity of the crossings so far.          *)
InsideIsParity ==
  stage = "ray" => /\ edge \in 1 .. Len(Polygon) + 1
                   /\ inside = Odd(Cardinality(Crossed(point, Polygon, edge)))

(* What the loops compute, without loops: inside by the even-odd rule, or  *)
(* within the threshold of an edge.                                        *)
Matches(p, polygon) ==
  \/ Len(polygon) >= 3 /\ Odd(Cardinality(Crossed(p, polygon, Len(polygon) + 1)))
  \/ Near(p, polygon)

(* FindMatchingZones returns each zone that matches once, in order, and no *)
(* other (05-REQ-1.1 to 1.4).                                              *)
ResultIsFilter ==
  stage \notin {"load", "idle"} =>
    /\ \A k \in DOMAIN result : result[k] < zone
    /\ \A k, m \in DOMAIN result : k < m => result[k] < result[m]
    /\ \A z \in 1 .. zone - 1 :
         (\E k \in DOMAIN result : result[k] = z) <=> Matches(point, zones[z].polygon)

-----------------------------------------------------------------------------
(* References the code does not use: the orientation of triangles, and the *)
(* nearest of the points at t = k / len on an edge.                        *)
Turn(a, b, p) == (b.lon - a.lon) * (p.lat - a.lat) - (b.lat - a.lat) * (p.lon - a.lon)

InTriangle(p, a, b, c) ==
  \/ Turn(a, b, p) > 0 /\ Turn(b, c, p) > 0 /\ Turn(c, a, p) > 0
  \/ Turn(a, b, p) < 0 /\ Turn(b, c, p) < 0 /\ Turn(c, a, p) < 0

(* p is on the segment from a to b.                                        *)
On(p, a, b) ==
  /\ Turn(a, b, p) = 0
  /\ (p.lat - a.lat) * (p.lat - b.lat) + (p.lon - a.lon) * (p.lon - b.lon) <= 0

(* The triangles of a fan from the first vertex.  A point is inside if it  *)
(* lies in an odd number of them; the fan does not decide for the points   *)
(* on the border and on the diagonals that it draws.                       *)
Fan(polygon) == 2 .. Len(polygon) - 1

OnFan(p, polygon) ==
  \E i \in 1 .. Len(polygon) : \/ On(p, Start(polygon, i), polygon[i])
                               \/ i > 1 /\ On(p, polygon[1], polygon[i])

InsideByFan(p, polygon) ==
  Odd(Cardinality({k \in Fan(polygon) : InTriangle(p, polygon[1], polygon[k], polygon[k + 1])}))

NearByPoints(p, polygon) ==
  \E i \in 1 .. Len(polygon) :
    LET a == Start(polygon, i)
        b == polygon[i]
        len == DistanceSquared(a, b)
    IN IF len = 0 THEN DistanceSquared(p, a) <= Threshold
       ELSE \E k \in 0 .. len :
              Square(len * (a.lat - p.lat) + k * (b.lat - a.lat))
                + Square(len * (a.lon - p.lon) + k * (b.lon - a.lon)) <= Threshold * Square(len)

(* PointInPolygon, for a point that is neither on the border nor on one of *)
(* the fan's diagonals: inside exactly if it is in an odd number of the    *)
(* triangles.  Rays through vertices and along edges, edges of length zero *)
(* and polygons without area are counted right; for points of the border   *)
(* the ray says one thing or the other, and the distance decides.          *)
InsideIsRight ==
  RayDone /\ ~OnFan(point, Polygon) => inside = InsideByFan(point, Polygon)

(* A zone that a point is in or on the border of, or near, is in the       *)
(* result, and none that is farther than the threshold.                    *)
ResultIsRight ==
  stage \notin {"load", "idle"} =>
    \A z \in 1 .. zone - 1 :
      LET polygon == zones[z].polygon IN
      ~OnFan(point, polygon) \/ NearByPoints(point, polygon) =>
        ((\E k \in DOMAIN result : result[k] = z) <=>
           \/ Len(polygon) >= 3 /\ InsideByFan(point, polygon)
           \/ NearByPoints(point, polygon))

(* An operator is listed as often as zones with its zone id match.         *)
ReplyIsComplete ==
  [][stage = "collect" /\ stage' = "idle" =>
       \A k \in DOMAIN Operators :
         Cardinality({i \in DOMAIN reply' : reply'[i] = k})
           = Cardinality({z \in DOMAIN zones : /\ zones[z].id = Operators[k].zone
                                               /\ Matches(point, zones[z].polygon)})]_vars
=============================================================================
