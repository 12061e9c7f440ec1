------------------------- MODULE ParkingZonesProofs -------------------------
(* The location lookup, for any zones, points, operators and threshold.    *)
EXTENDS ParkingZones, FiniteSetTheorems, TLAPS

(* A zone is tested while there is one, and only a polygon is cast rays at; *)
(* the operators are looked up when all zones are tested.                  *)
InLoop ==
  /\ stage = "load" => item <= Len(Operators) + 1
  /\ stage \in {"ray", "edge"} => zone <= Len(zones)
  /\ stage = "ray" => Len(Polygon) >= 3
  /\ stage = "collect" => zone = Len(zones) + 1 /\ item <= Len(result) + 1

(* The second test is for points that are not inside.                      *)
NotInside ==
  stage = "edge" /\ Len(Polygon) >= 3
    => ~Odd(Cardinality(Crossed(point, Polygon, Len(Polygon) + 1)))

Inv == TypeOK /\ InLoop

LoopInv == Inv /\ InsideIsParity /\ NotInside

FilterInv == LoopInv /\ ResultIsFilter

LEMMA SeqTypes ==
  ASSUME NEW S, NEW s \in Seq(S)
  PROVE  /\ <<>> \in Seq(S)
         /\ \A i \in 1 .. Len(s) : s[i] \in S
         /\ \A x \in S : Append(s, x) \in Seq(S)
OBVIOUS

LEMMA ZoneTypes ==
  ASSUME zones \in Configurations
  PROVE  /\ Len(zones) \in Nat
         /\ \A z \in 1 .. Len(zones) : zones[z].polygon \in Seq(Coordinates)
                                     /\ Len(zones[z].polygon) \in Nat
<1>1. zones \in Seq([id : ZoneIds, polygon : Seq(Coordinates)])
  BY ConfigurationsAssumption
<1>2. \A z \in 1 .. Len(zones) : zones[z] \in [id : ZoneIds, polygon : Seq(Coordinates)]
  BY <1>1, SeqTypes
<1>3. \A z \in 1 .. Len(zones) : zones[z].polygon \in Seq(Coordinates)
  BY <1>2
<1>4. \A polygon \in Seq(Coordinates) : Len(polygon) \in Nat
  OBVIOUS
<1> QED
  BY <1>1, <1>3, <1>4

LEMMA OperatorTypes ==
  /\ Len(Operators) \in Nat /\ DOMAIN Operators = 1 .. Len(Operators)
  /\ \A k \in 1 .. Len(Operators) : Operators[k].id \in Ids /\ Operators[k].zone \in ZoneNames
<1>1. Len(Operators) \in Nat /\ DOMAIN Operators = 1 .. Len(Operators)
  BY OperatorsAssumption
<1>2. \A k \in DOMAIN Operators : Operators[k].id \in Ids /\ Operators[k].zone \in ZoneNames
  BY DEF Ids, ZoneNames
<1> QED
  BY <1>1, <1>2

LEMMA InvInit == Init => Inv
<1> SUFFICES ASSUME Init PROVE Inv
  OBVIOUS
<1>1. /\ zones \in Configurations /\ Len(zones) \in Nat /\ <<>> \in Seq(1 .. Len(zones))
      /\ <<>> \in Seq(1 .. Len(Operators))
  BY ZoneTypes, SeqTypes DEF Init
<1>2. result \in Seq(1 .. Len(zones)) /\ found \in Seq(1 .. Len(Operators))
  BY <1>1 DEF Init
<1>3. zone \in 1 .. Len(zones) + 1
  BY <1>1 DEF Init
<1>4. /\ edge \in Nat \ {0} /\ item = 1 /\ point \in Points /\ stage = "load"
      /\ zones \in Configurations
  BY DEF Init
<1>5. inside \in BOOLEAN
  BY DEF Init
<1>6. byId \in [Ids -> 0 .. Len(Operators)]
  BY OperatorTypes DEF Init
<1>7. byZone \in [ZoneNames -> Seq(1 .. Len(Operators))]
  BY <1>1 DEF Init
<1>8. item \in Nat \ {0} /\ InLoop
  BY <1>4, OperatorTypes DEF InLoop
<1> QED
  BY <1>2, <1>3, <1>4, <1>5, <1>6, <1>7, <1>8 DEF Inv, TypeOK, Stages

LEMMA StoreTypes ==
  ASSUME TypeOK, Store
  PROVE  /\ byId' \in [Ids -> 0 .. Len(Operators)]
         /\ byZone' \in [ZoneNames -> Seq(1 .. Len(Operators))]
<1> DEFINE id == Operators[item].id
           name == Operators[item].zone
<1>1. item \in 1 .. Len(Operators) /\ item \in 0 .. Len(Operators)
  BY OperatorTypes DEF TypeOK, Store
<1>2. id \in Ids /\ name \in ZoneNames
  BY <1>1, OperatorTypes
<1>3. /\ byId' = [byId EXCEPT ![id] = item]
      /\ byZone' = [byZone EXCEPT ![name] = Append(byZone[name], item)]
  BY DEF Store
<1>4. byId \in [Ids -> 0 .. Len(Operators)] /\ byZone \in [ZoneNames -> Seq(1 .. Len(Operators))]
  BY DEF TypeOK
<1>5. Append(byZone[name], item) \in Seq(1 .. Len(Operators))
  <2>1. byZone[name] \in Seq(1 .. Len(Operators))
    BY <1>2, <1>4
  <2> QED
    BY <1>1, <2>1, SeqTypes
<1> HIDE DEF id, name
<1>6. byId' \in [Ids -> 0 .. Len(Operators)]
  BY <1>1, <1>2, <1>3, <1>4
<1>7. byZone' \in [ZoneNames -> Seq(1 .. Len(Operators))]
  BY <1>2, <1>3, <1>4, <1>5
<1> QED
  BY <1>6, <1>7

LEMMA OperatorsOfTypes ==
  ASSUME TypeOK
  PROVE  \A name : OperatorsOf(name) \in Seq(1 .. Len(Operators))
<1>1. <<>> \in Seq(1 .. Len(Operators))
  BY SeqTypes
<1> QED
  BY <1>1 DEF TypeOK, OperatorsOf

LEMMA ConcatTypes ==
  ASSUME NEW S, NEW s \in Seq(S), NEW t \in Seq(S)
  PROVE  s \o t \in Seq(S)
OBVIOUS

LEMMA InvStep == Inv /\ [Next]_vars => Inv'
<1> SUFFICES ASSUME Inv, [Next]_vars
             PROVE  Inv'
  OBVIOUS
<1>0. /\ Len(zones) \in Nat /\ zone \in 1 .. Len(zones) + 1
      /\ zone <= Len(zones) => Len(Polygon) \in Nat
  BY ZoneTypes DEF Inv, TypeOK, Polygon
<1>a. Len(Operators) \in Nat
  BY OperatorTypes
<1>b. CASE Store
  <2>1. TypeOK
    BY DEF Inv
  <2>2. /\ UNCHANGED <<zones, stage, point, zone, edge, inside, result, found, reply>>
        /\ stage = "load" /\ item <= Len(Operators) /\ item' = item + 1
    BY <1>b DEF Store
  <2>3. item' \in Nat \ {0} /\ item' <= Len(Operators) + 1
    BY <1>a, <2>1, <2>2 DEF TypeOK
  <2>4. InLoop'
    BY <2>2, <2>3 DEF InLoop
  <2>5. TypeOK'
    BY <1>b, <2>1, <2>2, <2>3, StoreTypes DEF TypeOK
  <2> QED
    BY <2>4, <2>5 DEF Inv
<1>c. CASE Listen
  BY <1>c DEF Listen, store, Inv, TypeOK, InLoop, Stages
<1> USE DEF Inv, TypeOK, InLoop, Stages, store
<1>1. CASE Refuse
  BY <1>1 DEF Refuse, Polygon
<1>2. ASSUME NEW id, FetchAdapter(id)
      PROVE  Inv'
  BY <1>2 DEF FetchAdapter, Polygon
<1>3. ASSUME NEW p \in Points, Ask(p)
      PROVE  Inv'
  <2>1. <<>> \in Seq(1 .. Len(zones))
    BY SeqTypes
  <2>2. /\ zones' = zones /\ stage' = "zone" /\ point' \in Points /\ zone' = 1
        /\ result' = <<>> /\ edge' = edge /\ inside' = inside
        /\ UNCHANGED <<byId, byZone, item, found>>
    BY <1>3 DEF Ask
  <2>3. result' \in Seq(1 .. Len(zones')) /\ zone' \in 1 .. Len(zones') + 1
    BY <1>0, <2>1, <2>2
  <2>4. stage' \in Stages /\ InLoop' /\ zones' \in Configurations /\ edge' \in Nat \ {0}
    BY <2>2
  <2>5. inside' \in BOOLEAN
    BY <2>2
  <2> HIDE DEF InLoop
  <2> QED
    BY <2>2, <2>3, <2>4, <2>5
<1>4. CASE BeginZone
  <2>1. /\ zone <= Len(zones) /\ UNCHANGED <<zones, point, zone, result, Polygon>>
        /\ UNCHANGED <<byId, byZone, item, found>>
    BY <1>4 DEF BeginZone, Polygon
  <2>2. stage' = (IF Len(Polygon) < 3 THEN "edge" ELSE "ray") /\ edge' = 1 /\ inside' = FALSE
    BY <1>4 DEF BeginZone
  <2>3. InLoop' /\ stage' \in Stages
    BY <1>0, <2>1, <2>2
  <2>4. edge' \in Nat \ {0}
    BY <2>2
  <2>5. inside' \in BOOLEAN
    BY <2>2
  <2> HIDE DEF InLoop
  <2> QED
    BY <2>1, <2>3, <2>4, <2>5
<1>5. CASE RayStep
  BY <1>5 DEF RayStep, Polygon
<1>6. CASE MatchInside
  <2>1. zone \in 1 .. Len(zones)
    BY <1>0, <1>6 DEF MatchInside, RayDone
  <2>2. result' = Append(result, zone)
    BY <1>6 DEF MatchInside
  <2>3. result' \in Seq(1 .. Len(zones))
    <3>1. result \in Seq(1 .. Len(zones))
      BY DEF Inv, TypeOK
    <3> HIDE DEF Inv, TypeOK, InLoop
    <3> QED
      BY <2>1, <2>2, <3>1, SeqTypes
  <2> QED
    BY <1>0, <1>6, <2>1, <2>3 DEF MatchInside
<1>7. CASE MissInside
  BY <1>7 DEF MissInside, RayDone
<1>8. CASE TestDistance
  <2>1. zone \in 1 .. Len(zones)
    BY <1>0, <1>8 DEF TestDistance
  <2>2. result' \in {result, Append(result, zone)}
    BY <1>8 DEF TestDistance
  <2>3. result' \in Seq(1 .. Len(zones))
    <3>1. result \in Seq(1 .. Len(zones))
      BY DEF Inv, TypeOK
    <3> HIDE DEF Inv, TypeOK, InLoop
    <3> QED
      BY <2>1, <2>2, <3>1, SeqTypes
  <2> QED
    BY <1>0, <1>8, <2>1, <2>3 DEF TestDistance
<1>9. CASE Found
  <2>1. /\ <<>> \in Seq(1 .. Len(Operators)) /\ Len(result) \in Nat
        /\ stage' = "collect" /\ item' = 1 /\ found' = <<>> /\ zone' = Len(zones') + 1
        /\ UNCHANGED <<zones, byId, byZone, point, zone, edge, inside, result>>
    BY <1>9, SeqTypes DEF Found
  <2>2. item' \in Nat \ {0} /\ item' <= Len(result') + 1 /\ found' \in Seq(1 .. Len(Operators))
    BY <2>1
  <2>3. InLoop'
    BY <2>1, <2>2
  <2> HIDE DEF InLoop
  <2> QED
    BY <2>1, <2>2, <2>3
<1>10. CASE Collect
  <2>1. /\ Len(result) \in Nat /\ item' = item + 1 /\ item <= Len(result)
        /\ stage = "collect" /\ found' = found \o OperatorsOf(zones[result[item]].id)
        /\ UNCHANGED <<zones, byId, byZone, stage, point, zone, edge, inside, result>>
    BY <1>10 DEF Collect
  <2>2. found' \in Seq(1 .. Len(Operators))
    BY <2>1, OperatorsOfTypes, ConcatTypes
  <2>3. item' \in Nat \ {0} /\ item' <= Len(result') + 1
    BY <2>1
  <2>4. InLoop'
    BY <2>1, <2>3
  <2> HIDE DEF InLoop
  <2> QED
    BY <2>1, <2>2, <2>3, <2>4
<1>11. CASE Respond
  BY <1>11 DEF Respond
<1>12. CASE UNCHANGED vars
  BY <1>12 DEF vars, Polygon
<1> QED
  BY <1>1, <1>2, <1>3, <1>4, <1>5, <1>6, <1>7, <1>8, <1>9, <1>10, <1>11, <1>12, <1>b, <1>c DEF Next

(* FindMatchingZones and PointInPolygon stay within the lists they walk.   *)
THEOREM TypeCorrect == Spec => []TypeOK
<1>1. Inv => TypeOK
  BY DEF Inv
<1> QED
  BY <1>1, InvInit, InvStep, PTL DEF Spec

-----------------------------------------------------------------------------
LEMMA OddNext == \A n \in Nat : Odd(n + 1) <=> ~Odd(n)
BY DEF Odd

(* One more edge: its crossing adds one to the number, or nothing.         *)
LEMMA CrossedNext ==
  ASSUME NEW p, NEW polygon, NEW n \in Nat \ {0}
  PROVE  Odd(Cardinality(Crossed(p, polygon, n + 1)))
           <=> (Odd(Cardinality(Crossed(p, polygon, n))) # Crosses(p, polygon, n))
<1> DEFINE before == Crossed(p, polygon, n)
<1>1. before \subseteq 1 .. n - 1 /\ n \notin before
  BY DEF Crossed
<1>2. IsFiniteSet(before) /\ Cardinality(before) \in Nat
  <2>1. IsFiniteSet(1 .. n - 1)
    BY FS_Interval
  <2> QED
    BY <1>1, <2>1, FS_Subset, FS_CardinalityType
<1>3. CASE Crosses(p, polygon, n)
  <2>1. Crossed(p, polygon, n + 1) = before \cup {n}
    BY <1>3 DEF Crossed
  <2>2. Cardinality(before \cup {n}) = Cardinality(before) + 1
    BY <1>1, <1>2, FS_AddElement
  <2>3. Odd(Cardinality(before \cup {n})) <=> ~Odd(Cardinality(before))
    BY <1>2, <2>2, OddNext
  <2> QED
    BY <1>3, <2>1, <2>3 DEF Odd
<1>4. CASE ~Crosses(p, polygon, n)
  <2>1. Crossed(p, polygon, n + 1) = before
    BY <1>4 DEF Crossed
  <2> QED
    BY <1>4, <2>1 DEF Odd, Crosses
<1> QED
  BY <1>3, <1>4

LEMMA CrossedNone == \A p, polygon : ~Odd(Cardinality(Crossed(p, polygon, 1)))
<1> TAKE p, polygon
<1>1. Crossed(p, polygon, 1) = {}
  BY DEF Crossed
<1> QED
  BY <1>1, FS_EmptySet DEF Odd

LEMMA LoopInit == Init => LoopInv
BY InvInit DEF Init, LoopInv, InsideIsParity, NotInside

LEMMA LoopStep == LoopInv /\ [Next]_vars => LoopInv'
<1> SUFFICES ASSUME LoopInv, [Next]_vars
             PROVE  InsideIsParity' /\ NotInside'
  BY InvStep DEF LoopInv
<1> USE DEF LoopInv, InsideIsParity, NotInside
<1>0. /\ TypeOK /\ InLoop /\ edge \in Nat \ {0} /\ inside \in BOOLEAN
      /\ zone <= Len(zones) => Len(Polygon) \in Nat
  BY ZoneTypes DEF Inv, TypeOK, Polygon
<1>1. CASE Store \/ Listen \/ Refuse \/ \E id \in Ids \cup {"unknown"} : FetchAdapter(id)
  BY <1>1 DEF Store, Listen, Refuse, FetchAdapter
<1>2. CASE \E p \in Points : Ask(p)
  BY <1>2 DEF Ask
<1>3. CASE BeginZone
  <2>1. Polygon' = Polygon /\ point' = point /\ edge' = 1 /\ inside' = FALSE
        /\ Len(Polygon) \in Nat
        /\ stage' = IF Len(Polygon) < 3 THEN "edge" ELSE "ray"
    BY <1>0, <1>3 DEF BeginZone, Polygon
  <2> HIDE DEF LoopInv
  <2> QED
    <3>1. ~Odd(Cardinality(Crossed(point, Polygon, 1)))
      BY CrossedNone
    <3>2. FALSE = Odd(Cardinality(Crossed(point, Polygon, 1)))
      BY <3>1 DEF Odd
    <3>3. CASE Len(Polygon) < 3
      BY <2>1, <3>3
    <3>4. CASE Len(Polygon) >= 3
      <4>1. stage' = "ray" /\ 1 \in 1 .. Len(Polygon) + 1
        BY <2>1, <3>4
      <4> QED
        BY <2>1, <3>2, <4>1
    <3> QED
      BY <2>1, <3>3, <3>4
<1>4. CASE RayStep
  <2>1. /\ Polygon' = Polygon /\ point' = point /\ edge' = edge + 1 /\ stage' = "ray" /\ stage = "ray"
        /\ inside' = (inside # Crosses(point, Polygon, edge))
        /\ edge <= Len(Polygon) /\ Len(Polygon) \in Nat
    BY <1>0, <1>4 DEF RayStep, Polygon, InLoop
  <2>2. Odd(Cardinality(Crossed(point, Polygon, edge + 1)))
          <=> (inside # Crosses(point, Polygon, edge))
    BY <1>0, <2>1, CrossedNext
  <2>3. inside' = Odd(Cardinality(Crossed(point, Polygon, edge + 1)))
    BY <2>1, <2>2 DEF Odd
  <2>4. edge' \in 1 .. Len(Polygon) + 1
    BY <1>0, <2>1
  <2> HIDE DEF LoopInv
  <2> QED
    BY <2>1, <2>3, <2>4
<1>5. CASE MatchInside \/ TestDistance \/ Found \/ Collect \/ Respond
  BY <1>5 DEF MatchInside, TestDistance, Found, Collect, Respond
<1>6. CASE MissInside
  BY <1>6 DEF MissInside, RayDone, Polygon
<1>7. CASE UNCHANGED vars
  BY <1>7 DEF vars, Polygon
<1> QED
  BY <1>1, <1>2, <1>3, <1>4, <1>5, <1>6, <1>7 DEF Next

(* PointInPolygon counts: inside is the parity of the edges crossed so far, *)
(* for polygons of any size.                                               *)
THEOREM ParityKept == Spec => []InsideIsParity
<1>1. LoopInv => InsideIsParity
  BY DEF LoopInv
<1> QED
  BY <1>1, LoopInit, LoopStep, PTL DEF Spec

-----------------------------------------------------------------------------
(* A sorted list of numbers below m, with m appended.                      *)
LEMMA AppendSorted ==
  ASSUME NEW s \in Seq(Nat), NEW m \in Nat,
         \A k \in DOMAIN s : s[k] < m,
         \A k, l \in DOMAIN s : k < l => s[k] < s[l]
  PROVE  /\ \A k \in DOMAIN Append(s, m) : Append(s, m)[k] < m + 1
         /\ \A k, l \in DOMAIN Append(s, m) : k < l => Append(s, m)[k] < Append(s, m)[l]
         /\ \A z \in 0 .. m - 1 : (\E k \in DOMAIN Append(s, m) : Append(s, m)[k] = z)
                                     <=> \E k \in DOMAIN s : s[k] = z
         /\ \E k \in DOMAIN Append(s, m) : Append(s, m)[k] = m
<1> DEFINE t == Append(s, m)
           n == Len(s)
<1>1. /\ n \in Nat /\ DOMAIN s = 1 .. n /\ DOMAIN t = 1 .. n + 1 /\ t[n + 1] = m
      /\ \A k \in 1 .. n : t[k] = s[k] /\ s[k] \in Nat
  OBVIOUS
<1> SUFFICES /\ \A k \in DOMAIN t : t[k] < m + 1
             /\ \A k, l \in DOMAIN t : k < l => t[k] < t[l]
             /\ \A z \in 0 .. m - 1 : (\E k \in DOMAIN t : t[k] = z) <=> \E k \in DOMAIN s : s[k] = z
             /\ \E k \in DOMAIN t : t[k] = m
  OBVIOUS
<1> HIDE DEF t, n
<1>2. \A k \in DOMAIN t : k \in 1 .. n \/ k = n + 1
  BY <1>1
<1>3. \A k \in DOMAIN t : t[k] < m + 1
  BY <1>1, <1>2
<1>4. \A k, l \in DOMAIN t : k < l => t[k] < t[l]
  BY <1>1, <1>2
<1>5. ASSUME NEW z \in 0 .. m - 1
      PROVE  (\E k \in DOMAIN t : t[k] = z) <=> \E k \in DOMAIN s : s[k] = z
  <2>1. z # m
    OBVIOUS
  <2> QED
    BY <1>1, <1>2, <2>1
<1>6. n + 1 \in DOMAIN t /\ t[n + 1] = m
  BY <1>1
<1> QED
  BY <1>3, <1>4, <1>5, <1>6

(* One more zone: it is in the result if it matches.                       *)
LEMMA FilterNext ==
  ASSUME FilterInv, zone <= Len(zones), stage \notin {"load", "idle"},
         UNCHANGED <<zones, point>>, zone' = zone + 1,
         result' = IF Matches(point, Polygon) THEN Append(result, zone) ELSE result
  PROVE  ResultIsFilter'
<1>1. result \in Seq(Nat) /\ zone \in Nat \ {0}
  BY ZoneTypes DEF FilterInv, LoopInv, Inv, TypeOK
<1>2. /\ \A k \in DOMAIN result : result[k] < zone
      /\ \A k, m \in DOMAIN result : k < m => result[k] < result[m]
      /\ \A z \in 1 .. zone - 1 :
           (\E k \in DOMAIN result : result[k] = z) <=> Matches(point, zones[z].polygon)
  BY DEF FilterInv, ResultIsFilter
<1>3. \A z \in 1 .. zone : z \in 1 .. zone - 1 \/ z = zone
  BY <1>1
<1>4. /\ \A k \in DOMAIN result' : result'[k] < zone + 1
      /\ \A k, m \in DOMAIN result' : k < m => result'[k] < result'[m]
      /\ \A z \in 1 .. zone :
           (\E k \in DOMAIN result' : result'[k] = z) <=> Matches(point, zones[z].polygon)
  <2>1. CASE Matches(point, Polygon)
    <3>0. result' = Append(result, zone)
      BY <2>1
    <3>1. /\ \A k \in DOMAIN result' : result'[k] < zone + 1
          /\ \A k, m \in DOMAIN result' : k < m => result'[k] < result'[m]
          /\ \A z \in 1 .. zone - 1 : (\E k \in DOMAIN result' : result'[k] = z)
                                          <=> \E k \in DOMAIN result : result[k] = z
          /\ \E k \in DOMAIN result' : result'[k] = zone
      <4>1. zone \in Nat
        BY <1>1
      <4>2. \A z \in 1 .. zone - 1 : z \in 0 .. zone - 1
        BY <1>1
      <4> DEFINE t == Append(result, zone)
      <4>3. /\ \A k \in DOMAIN t : t[k] < zone + 1
            /\ \A k, l \in DOMAIN t : k < l => t[k] < t[l]
            /\ \A z \in 0 .. zone - 1 : (\E k \in DOMAIN t : t[k] = z)
                                            <=> \E k \in DOMAIN result : result[k] = z
            /\ \E k \in DOMAIN t : t[k] = zone
        BY <1>1, <1>2, <4>1, AppendSorted
      <4> HIDE DEF t
      <4>4. result' = t
        BY <3>0 DEF t
      <4> QED
        BY <4>2, <4>3, <4>4
    <3> QED
      BY <1>2, <1>3, <2>1, <3>1 DEF Polygon
  <2>2. CASE ~Matches(point, Polygon)
    <3>1. result' = result
      BY <2>2
    <3>2. \A k \in DOMAIN result : result[k] \in Nat
      BY <1>1
    <3>3. \A k \in DOMAIN result : result[k] # zone /\ result[k] < zone + 1
      BY <1>1, <1>2, <3>2
    <3> QED
      BY <1>2, <1>3, <2>2, <3>1, <3>3 DEF Polygon
  <2> QED
    BY <2>1, <2>2
<1>5. zone' - 1 = zone /\ zones' = zones /\ point' = point
  BY <1>1
<1> QED
  BY <1>4, <1>5 DEF ResultIsFilter

LEMMA FilterFrame ==
  ASSUME FilterInv, stage \notin {"load", "idle"}, UNCHANGED <<zones, point, zone, result>>
  PROVE  ResultIsFilter'
BY DEF FilterInv, ResultIsFilter

LEMMA FilterInit == Init => FilterInv
BY LoopInit DEF Init, FilterInv, ResultIsFilter

LEMMA FilterStep == FilterInv /\ [Next]_vars => FilterInv'
<1> SUFFICES ASSUME FilterInv, [Next]_vars
             PROVE  ResultIsFilter'
  BY LoopStep DEF FilterInv
<1>1. CASE Store \/ Listen \/ Refuse \/ \E id \in Ids \cup {"unknown"} : FetchAdapter(id)
  BY <1>1 DEF Store, Listen, Refuse, FetchAdapter, ResultIsFilter
<1>2. CASE \E p \in Points : Ask(p)
  BY <1>2 DEF Ask, ResultIsFilter
<1>3. CASE BeginZone \/ RayStep \/ MissInside \/ Found \/ Collect
  BY <1>3, FilterFrame DEF BeginZone, RayStep, MissInside, RayDone, Found, Collect
<1>4. CASE MatchInside
  <2>1. /\ stage = "ray" /\ zone <= Len(zones) /\ Len(Polygon) >= 3 /\ inside
        /\ edge = Len(Polygon) + 1
    BY <1>4 DEF MatchInside, RayDone, FilterInv, LoopInv, Inv, InLoop
  <2>2. Odd(Cardinality(Crossed(point, Polygon, Len(Polygon) + 1)))
    BY <2>1 DEF FilterInv, LoopInv, InsideIsParity
  <2>3. Matches(point, Polygon)
    BY <2>1, <2>2 DEF Matches
  <2> QED
    BY <1>4, <2>1, <2>3, FilterNext DEF MatchInside
<1>5. CASE TestDistance
  <2>1. stage = "edge" /\ zone <= Len(zones)
    BY <1>5 DEF TestDistance, FilterInv, LoopInv, Inv, InLoop
  <2>2. Matches(point, Polygon) <=> Near(point, Polygon)
    BY <2>1 DEF Matches, FilterInv, LoopInv, NotInside
  <2> QED
    BY <1>5, <2>1, <2>2, FilterNext DEF TestDistance
<1>6. CASE Respond
  BY <1>6 DEF Respond, ResultIsFilter
<1>7. CASE UNCHANGED vars
  BY <1>7, FilterFrame DEF vars, FilterInv, ResultIsFilter
<1> QED
  BY <1>1, <1>2, <1>3, <1>4, <1>5, <1>6, <1>7 DEF Next

(* The result of FindMatchingZones is the list of the zones a point is in  *)
(* or near, each once and in order, whatever the zones (05-REQ-1.1 to 1.4). *)
THEOREM ResultFilters == Spec => []ResultIsFilter
<1>1. FilterInv => ResultIsFilter
  BY DEF FilterInv
<1> QED
  BY <1>1, FilterInit, FilterStep, PTL DEF Spec
-----------------------------------------------------------------------------
(* Signs of products, for the arguments about orientations.                *)
LEMMA ProductSigns ==
  ASSUME NEW x \in Int, NEW y \in Int
  PROVE  /\ x > 0 /\ y > 0 => x * y > 0
         /\ x < 0 /\ y > 0 => x * y < 0
         /\ x > 0 /\ y < 0 => x * y < 0
         /\ x < 0 /\ y < 0 => x * y > 0
         /\ (x = 0 \/ y = 0) => x * y = 0
         /\ x * y \in Int
<1>1. x > 0 /\ y > 0 => x * y > 0
  BY SMT
<1>2. x < 0 /\ y > 0 => x * y < 0
  BY SMT
<1>3. x > 0 /\ y < 0 => x * y < 0
  BY SMT
<1>4. x < 0 /\ y < 0 => x * y > 0
  BY SMT
<1>5. (x = 0 \/ y = 0) => x * y = 0
  BY SMT
<1> QED
  BY <1>1, <1>2, <1>3, <1>4, <1>5

(* Three numbers whose sum, weighted with three heights, is zero.  If one  *)
(* height is on another side than the other two, the third weight has the  *)
(* sign that the two next to it share.                                     *)
LEMMA Balance ==
  ASSUME NEW A \in Int, NEW B \in Int, NEW C \in Int,
         NEW r \in Int, NEW s \in Int, NEW t \in Int,
         r # 0, s # 0, t # 0, r * A + s * B + t * C = 0,
         \/ C > 0 /\ A <= 0 /\ B <= 0
         \/ C <= 0 /\ A > 0 /\ B > 0
  PROVE  /\ r > 0 /\ s > 0 => t > 0
         /\ r < 0 /\ s < 0 => t < 0
<1> DEFINE x == r * A
           y == s * B
           z == t * C
<1>1. x \in Int /\ y \in Int /\ z \in Int /\ x + y + z = 0
  OBVIOUS
<1>2. /\ r > 0 /\ A > 0 => x > 0
      /\ r > 0 /\ A <= 0 => x <= 0
      /\ r < 0 /\ A > 0 => x < 0
      /\ r < 0 /\ A <= 0 => x >= 0
  BY ProductSigns
<1>3. /\ s > 0 /\ B > 0 => y > 0
      /\ s > 0 /\ B <= 0 => y <= 0
      /\ s < 0 /\ B > 0 => y < 0
      /\ s < 0 /\ B <= 0 => y >= 0
  BY ProductSigns
<1>4. /\ t > 0 /\ C > 0 => z > 0
      /\ t > 0 /\ C <= 0 => z <= 0
      /\ t < 0 /\ C > 0 => z < 0
      /\ t < 0 /\ C <= 0 => z >= 0
  BY ProductSigns
<1> HIDE DEF x, y, z
<1> QED
  BY <1>1, <1>2, <1>3, <1>4

(* If the heights are on one side, the weights are not all of one sign.    *)
LEMMA NoBalance ==
  ASSUME NEW A \in Int, NEW B \in Int, NEW C \in Int,
         NEW r \in Int, NEW s \in Int, NEW t \in Int,
         r * A + s * B + t * C = 0, A = 0 /\ B = 0 => t = 0,
         \/ A > 0 /\ B > 0 /\ C > 0
         \/ A <= 0 /\ B <= 0 /\ C <= 0
  PROVE  ~(r > 0 /\ s > 0 /\ t > 0) /\ ~(r < 0 /\ s < 0 /\ t < 0)
<1> DEFINE x == r * A
           y == s * B
           z == t * C
<1>1. x \in Int /\ y \in Int /\ z \in Int /\ x + y + z = 0
  OBVIOUS
<1>2. /\ r > 0 => (A > 0 => x > 0) /\ (A = 0 => x = 0) /\ (A < 0 => x < 0)
      /\ r < 0 => (A > 0 => x < 0) /\ (A = 0 => x = 0) /\ (A < 0 => x > 0)
  BY ProductSigns
<1>3. /\ s > 0 => (B > 0 => y > 0) /\ (B = 0 => y = 0) /\ (B < 0 => y < 0)
      /\ s < 0 => (B > 0 => y < 0) /\ (B = 0 => y = 0) /\ (B < 0 => y > 0)
  BY ProductSigns
<1>4. /\ t > 0 => (C > 0 => z > 0) /\ (C = 0 => z = 0) /\ (C < 0 => z < 0)
      /\ t < 0 => (C > 0 => z < 0) /\ (C = 0 => z = 0) /\ (C < 0 => z > 0)
  BY ProductSigns
<1> HIDE DEF x, y, z
<1> QED
  BY <1>1, <1>2, <1>3, <1>4

(* The ray's crossing of an edge from height A to height B, with weight t. *)
Passes(A, B, t) == (B > 0 /\ A <= 0 /\ t > 0) \/ (A > 0 /\ B <= 0 /\ t < 0)

SameSign(r, s, t) == (r > 0 /\ s > 0 /\ t > 0) \/ (r < 0 /\ s < 0 /\ t < 0)

(* Over the three edges of a triangle the ray passes an odd number exactly *)
(* if the weights have one sign.                                           *)
LEMMA TriangleSigns ==
  ASSUME NEW A \in Int, NEW B \in Int, NEW C \in Int,
         NEW r \in Int, NEW s \in Int, NEW t \in Int,
         r # 0, s # 0, t # 0, r * A + s * B + t * C = 0,
         A = 0 /\ B = 0 => t = 0
  PROVE  SameSign(r, s, t)
           <=> (Passes(A, B, t) <=> (Passes(B, C, r) <=> Passes(C, A, s)))
<1>1. /\ s * B + t * C + r * A = 0 /\ t * C + r * A + s * B = 0
  BY SMT
<1>2. CASE (A > 0 /\ B > 0 /\ C > 0) \/ (A <= 0 /\ B <= 0 /\ C <= 0)
  <2>1. ~SameSign(r, s, t)
    BY <1>2, NoBalance DEF SameSign
  <2>2. ~Passes(A, B, t)
    BY <1>2 DEF Passes
  <2>3. ~Passes(B, C, r)
    BY <1>2 DEF Passes
  <2>4. ~Passes(C, A, s)
    BY <1>2 DEF Passes
  <2> QED
    BY <2>1, <2>2, <2>3, <2>4
<1>3. CASE (C > 0 /\ A <= 0 /\ B <= 0) \/ (C <= 0 /\ A > 0 /\ B > 0)
  <2>1. (r > 0 /\ s > 0 => t > 0) /\ (r < 0 /\ s < 0 => t < 0)
    BY <1>1, <1>3, Balance
  <2>2. ~Passes(A, B, t)
    BY <1>3 DEF Passes
  <2>3. Passes(B, C, r) <=> (C > 0 <=> r > 0)
    BY <1>3 DEF Passes
  <2>4. Passes(C, A, s) <=> ~(C > 0 <=> s > 0)
    BY <1>3 DEF Passes
  <2>5. SameSign(r, s, t) <=> (r > 0 <=> s > 0)
    BY <2>1 DEF SameSign
  <2> QED
    BY <2>2, <2>3, <2>4, <2>5
<1>4. CASE (A > 0 /\ B <= 0 /\ C <= 0) \/ (A <= 0 /\ B > 0 /\ C > 0)
  <2>1. (s > 0 /\ t > 0 => r > 0) /\ (s < 0 /\ t < 0 => r < 0)
    BY <1>1, <1>4, Balance
  <2>2. ~Passes(B, C, r)
    BY <1>4 DEF Passes
  <2>3. Passes(C, A, s) <=> (A > 0 <=> s > 0)
    BY <1>4 DEF Passes
  <2>4. Passes(A, B, t) <=> ~(A > 0 <=> t > 0)
    BY <1>4 DEF Passes
  <2>5. SameSign(r, s, t) <=> (s > 0 <=> t > 0)
    BY <2>1 DEF SameSign
  <2> QED
    BY <2>2, <2>3, <2>4, <2>5
<1>5. CASE (B > 0 /\ C <= 0 /\ A <= 0) \/ (B <= 0 /\ C > 0 /\ A > 0)
  <2>1. (t > 0 /\ r > 0 => s > 0) /\ (t < 0 /\ r < 0 => s < 0)
    BY <1>1, <1>5, Balance
  <2>2. ~Passes(C, A, s)
    BY <1>5 DEF Passes
  <2>3. Passes(A, B, t) <=> (B > 0 <=> t > 0)
    BY <1>5 DEF Passes
  <2>4. Passes(B, C, r) <=> ~(B > 0 <=> r > 0)
    BY <1>5 DEF Passes
  <2>5. SameSign(r, s, t) <=> (t > 0 <=> r > 0)
    BY <2>1 DEF SameSign
  <2> QED
    BY <2>2, <2>3, <2>4, <2>5
<1>6. \/ (A > 0 /\ B > 0 /\ C > 0) \/ (A <= 0 /\ B <= 0 /\ C <= 0)
      \/ (C > 0 /\ A <= 0 /\ B <= 0) \/ (C <= 0 /\ A > 0 /\ B > 0)
      \/ (A > 0 /\ B <= 0 /\ C <= 0) \/ (A <= 0 /\ B > 0 /\ C > 0)
      \/ (B > 0 /\ C <= 0 /\ A <= 0) \/ (B <= 0 /\ C > 0 /\ A > 0)
  OBVIOUS
<1> QED
  BY <1>2, <1>3, <1>4, <1>5, <1>6

-----------------------------------------------------------------------------
(* The ray crosses the edge from a to b.                                   *)
Cut(p, a, b) == Passes(a.lat - p.lat, b.lat - p.lat, Turn(a, b, p))

LEMMA TurnTypes ==
  ASSUME NEW a \in Coordinates, NEW b \in Coordinates, NEW p \in Coordinates
  PROVE  /\ a.lat \in Int /\ a.lon \in Int
         /\ Turn(a, b, p) \in Int /\ Turn(a, b, p) = -Turn(b, a, p)
<1>1. /\ a.lat \in Int /\ a.lon \in Int /\ b.lat \in Int /\ b.lon \in Int
      /\ p.lat \in Int /\ p.lon \in Int
  BY DEF Coordinates
<1>2. \A ax, ay, bx, by, px, py \in Int :
        (bx - ax) * (py - ay) - (by - ay) * (px - ax)
          = -((ax - bx) * (py - by) - (ay - by) * (px - bx))
  BY SMT
<1> QED
  BY <1>1, <1>2 DEF Turn

(* An edge is crossed whichever way it is gone; a point is not.            *)
LEMMA CutReversed ==
  ASSUME NEW a \in Coordinates, NEW b \in Coordinates, NEW p \in Coordinates
  PROVE  /\ Cut(p, a, b) <=> Cut(p, b, a)
         /\ ~Cut(p, a, a)
<1>1. \A q \in {a, b} : q.lat - p.lat \in Int
  BY DEF Coordinates
<1>2. Cut(p, a, b) <=> Cut(p, b, a)
  BY <1>1, TurnTypes DEF Cut, Passes
<1>3. ~Cut(p, a, a)
  BY <1>1 DEF Cut, Passes
<1> QED
  BY <1>2, <1>3

LEMMA CrossesCut ==
  ASSUME NEW p \in Coordinates, NEW polygon \in Seq(Coordinates),
         NEW i \in 1 .. Len(polygon)
  PROVE  /\ Start(polygon, i) \in Coordinates /\ polygon[i] \in Coordinates
         /\ Crosses(p, polygon, i) <=> Cut(p, Start(polygon, i), polygon[i])
<1> DEFINE a == Start(polygon, i)
           b == polygon[i]
<1>1. a \in Coordinates /\ b \in Coordinates
  <2>1. \A j \in 1 .. Len(polygon) : polygon[j] \in Coordinates
    OBVIOUS
  <2>2. (IF i = 1 THEN Len(polygon) ELSE i - 1) \in 1 .. Len(polygon)
    OBVIOUS
  <2> QED
    BY <2>1, <2>2 DEF Start
<1>2. /\ a.lat \in Int /\ a.lon \in Int /\ b.lat \in Int /\ b.lon \in Int
      /\ p.lat \in Int /\ p.lon \in Int
  BY <1>1 DEF Coordinates
<1>3. Crosses(p, polygon, i)
        <=> LET turn == (p.lat - a.lat) * (b.lon - a.lon) - (p.lon - a.lon) * (b.lat - a.lat)
            IN \/ b.lat > p.lat /\ a.lat <= p.lat /\ turn > 0
               \/ a.lat > p.lat /\ b.lat <= p.lat /\ turn < 0
  BY DEF Crosses
<1> HIDE DEF a, b
<1>4. (p.lat - a.lat) * (b.lon - a.lon) - (p.lon - a.lon) * (b.lat - a.lat) = Turn(a, b, p)
  BY <1>2 DEF Turn
<1>5. Turn(a, b, p) \in Int
  BY <1>1, TurnTypes
<1>6. Crosses(p, polygon, i) <=> Cut(p, a, b)
  BY <1>2, <1>3, <1>4, <1>5 DEF Cut, Passes
<1> QED
  BY <1>1, <1>6 DEF a, b

(* A point on none of a triangle's lines is inside exactly if the ray      *)
(* crosses an odd number of its edges.                                     *)
LEMMA OffLinesCut ==
  ASSUME NEW a \in Coordinates, NEW b \in Coordinates, NEW c \in Coordinates,
         NEW p \in Coordinates,
         Turn(a, b, p) # 0, Turn(b, c, p) # 0, Turn(c, a, p) # 0
  PROVE  InTriangle(p, a, b, c) <=> (Cut(p, a, b) <=> (Cut(p, b, c) <=> Cut(p, c, a)))
<1> DEFINE A == a.lat - p.lat
           B == b.lat - p.lat
           C == c.lat - p.lat
           r == Turn(b, c, p)
           s == Turn(c, a, p)
           t == Turn(a, b, p)
<1>1. /\ a.lat \in Int /\ a.lon \in Int /\ b.lat \in Int /\ b.lon \in Int
      /\ c.lat \in Int /\ c.lon \in Int /\ p.lat \in Int /\ p.lon \in Int
  BY DEF Coordinates
<1>2. A \in Int /\ B \in Int /\ C \in Int
  BY <1>1
<1>3. r \in Int /\ s \in Int /\ t \in Int
  BY TurnTypes
<1>4. r * A + s * B + t * C = 0
  <2>1. \A ax, ay, bx, by, cx, cy, px, py \in Int :
             ((cx - bx) * (py - by) - (cy - by) * (px - bx)) * (ay - py)
           + ((ax - cx) * (py - cy) - (ay - cy) * (px - cx)) * (by - py)
           + ((bx - ax) * (py - ay) - (by - ay) * (px - ax)) * (cy - py) = 0
    BY SMT
  <2>2. /\ t = (b.lon - a.lon) * (p.lat - a.lat) - (b.lat - a.lat) * (p.lon - a.lon)
        /\ r = (c.lon - b.lon) * (p.lat - b.lat) - (c.lat - b.lat) * (p.lon - b.lon)
        /\ s = (a.lon - c.lon) * (p.lat - c.lat) - (a.lat - c.lat) * (p.lon - c.lon)
    BY DEF Turn
  <2> HIDE DEF r, s, t
  <2>3. r * (a.lat - p.lat) + s * (b.lat - p.lat) + t * (c.lat - p.lat) = 0
    BY <1>1, <2>1, <2>2
  <2> QED
    BY <2>3
<1>5. A = 0 /\ B = 0 => t = 0
  <2>1. \A ax, ay, bx, by, px, py \in Int :
          ay - py = 0 /\ by - py = 0 => (bx - ax) * (py - ay) - (by - ay) * (px - ax) = 0
    BY SMT
  <2>2. t = (b.lon - a.lon) * (p.lat - a.lat) - (b.lat - a.lat) * (p.lon - a.lon)
    BY DEF Turn
  <2> QED
    BY <1>1, <2>1, <2>2
<1>6. InTriangle(p, a, b, c) <=> SameSign(r, s, t)
  BY <1>3 DEF InTriangle, SameSign
<1>7. r # 0 /\ s # 0 /\ t # 0
  OBVIOUS
<1> HIDE DEF A, B, C, r, s, t
<1>8. SameSign(r, s, t) <=> (Passes(A, B, t) <=> (Passes(B, C, r) <=> Passes(C, A, s)))
  BY <1>2, <1>3, <1>4, <1>5, <1>7, TriangleSigns
<1> QED
  BY <1>6, <1>8 DEF Cut, A, B, C, r, s, t

(* The point is on the line of an edge and not between its ends: the ends  *)
(* are on one side of it, and the turns over the third vertex are opposite. *)
LEMMA OneSide ==
  ASSUME NEW A \in Int, NEW B \in Int, NEW x \in Int, NEW y \in Int,
         NEW r \in Int, NEW s \in Int,
         x * B = y * A, x * y + A * B > 0,
         r * A + s * B = 0, r * x + s * y = 0
  PROVE  /\ A > 0 <=> B > 0
         /\ r > 0 <=> s < 0
         /\ r < 0 <=> s > 0
<1>1. /\ x * B \in Int /\ y * A \in Int /\ x * y \in Int /\ A * B \in Int
      /\ r * A \in Int /\ s * B \in Int /\ r * x \in Int /\ s * y \in Int
  OBVIOUS
<1>2. ASSUME NEW k \in Int, NEW m \in Int
      PROVE  /\ k > 0 /\ m > 0 => k * m > 0 /\ m * k > 0
             /\ k < 0 /\ m > 0 => k * m < 0 /\ m * k < 0
             /\ k < 0 /\ m < 0 => k * m > 0 /\ m * k > 0
             /\ k = 0 => k * m = 0 /\ m * k = 0
  BY <1>2, ProductSigns
<1>3. /\ A > 0 => B > 0
      /\ A < 0 => B < 0
      /\ A = 0 => B = 0
  BY <1>1, <1>2
<1>4. /\ x > 0 => y > 0
      /\ x < 0 => y < 0
      /\ x = 0 => y = 0
  BY <1>1, <1>2
<1>5. A # 0 \/ x # 0
  BY <1>1, <1>2
<1>6. /\ A > 0 <=> B > 0
      /\ A < 0 <=> B < 0
      /\ A = 0 => x # 0
      /\ x > 0 <=> y > 0
      /\ x < 0 <=> y < 0
  BY <1>3, <1>4, <1>5
<1>7. ASSUME NEW k \in Int, NEW m \in Int, NEW g \in Int, NEW h \in Int,
             g > 0 <=> h > 0, g < 0 <=> h < 0, g # 0, k * g + m * h = 0
      PROVE  (k > 0 <=> m < 0) /\ (k < 0 <=> m > 0)
  BY <1>7, ProductSigns
<1>8. CASE A # 0
  BY <1>6, <1>7, <1>8
<1>9. CASE x # 0
  BY <1>6, <1>7, <1>9
<1> QED
  BY <1>5, <1>6, <1>8, <1>9

(* On the line of an edge, but not on the edge: the ray does not cross it, *)
(* and crosses both of the other edges or none.                            *)
LEMMA OnLineCut ==
  ASSUME NEW a \in Coordinates, NEW b \in Coordinates, NEW c \in Coordinates,
         NEW p \in Coordinates, Turn(a, b, p) = 0, ~On(p, a, b)
  PROVE  ~Cut(p, a, b) /\ (Cut(p, b, c) <=> Cut(p, c, a))
<1> DEFINE A == a.lat - p.lat
           B == b.lat - p.lat
           C == c.lat - p.lat
           x == a.lon - p.lon
           y == b.lon - p.lon
           z == c.lon - p.lon
           r == Turn(b, c, p)
           s == Turn(c, a, p)
<1>1. /\ a.lat \in Int /\ a.lon \in Int /\ b.lat \in Int /\ b.lon \in Int
      /\ c.lat \in Int /\ c.lon \in Int /\ p.lat \in Int /\ p.lon \in Int
  BY DEF Coordinates
<1>2. /\ A \in Int /\ B \in Int /\ C \in Int /\ x \in Int /\ y \in Int /\ z \in Int
      /\ r \in Int /\ s \in Int
  BY <1>1, TurnTypes
<1>3. ASSUME NEW ax \in Int, NEW ay \in Int, NEW bx \in Int, NEW by \in Int,
             NEW px \in Int, NEW py \in Int
      PROVE  (bx - ax) * (py - ay) - (by - ay) * (px - ax)
               = (ax - px) * (by - py) - (bx - px) * (ay - py)
  BY <1>3, SMT
<1>4. /\ Turn(a, b, p) = x * B - y * A
      /\ r = y * C - z * B
      /\ s = z * A - x * C
  BY <1>1, <1>3 DEF Turn
<1>5. x * B = y * A
  <2>1. x * B - y * A = 0
    BY <1>4
  <2> HIDE DEF A, B, x, y
  <2> QED
    BY <1>2, <2>1
<1>6. x * y + A * B > 0
  <2>1. (p.lat - a.lat) * (p.lat - b.lat) + (p.lon - a.lon) * (p.lon - b.lon) > 0
    BY <1>1 DEF On
  <2>2. \A k, l, m \in Int : (m - k) * (m - l) = (k - m) * (l - m)
    BY SMT
  <2>3. /\ (p.lat - a.lat) * (p.lat - b.lat) = A * B
        /\ (p.lon - a.lon) * (p.lon - b.lon) = x * y
    BY <1>1, <2>2
  <2> HIDE DEF A, B, x, y
  <2> QED
    BY <1>2, <2>1, <2>3
<1>7. r * A + s * B = 0 /\ r * x + s * y = 0
  <2> HIDE DEF A, B, C, x, y, z, r, s
  <2>1. \A ca, cb, cc, cx, cy, cz \in Int :
          cx * cb = cy * ca =>
            /\ (cy * cc - cz * cb) * ca + (cz * ca - cx * cc) * cb = 0
            /\ (cy * cc - cz * cb) * cx + (cz * ca - cx * cc) * cy = 0
    BY SMT
  <2> QED
    BY <1>2, <1>4, <1>5, <2>1
<1> HIDE DEF A, B, C, x, y, z, r, s
<1>8. (A > 0 <=> B > 0) /\ (r > 0 <=> s < 0) /\ (r < 0 <=> s > 0)
  BY <1>2, <1>5, <1>6, <1>7, OneSide
<1>9. Passes(B, C, r) <=> Passes(C, A, s)
  BY <1>2, <1>8 DEF Passes
<1>10. ~Passes(A, B, 0)
  BY DEF Passes
<1> QED
  BY <1>9, <1>10 DEF Cut, A, B, C, r, s

(* A point on none of a triangle's edges is inside exactly if the ray      *)
(* crosses an odd number of them.                                          *)
LEMMA TriangleCut ==
  ASSUME NEW a \in Coordinates, NEW b \in Coordinates, NEW c \in Coordinates,
         NEW p \in Coordinates, ~On(p, a, b), ~On(p, b, c), ~On(p, c, a)
  PROVE  InTriangle(p, a, b, c) <=> (Cut(p, a, b) <=> (Cut(p, b, c) <=> Cut(p, c, a)))
<1>1. CASE Turn(a, b, p) # 0 /\ Turn(b, c, p) # 0 /\ Turn(c, a, p) # 0
  BY <1>1, OffLinesCut
<1>2. CASE Turn(a, b, p) = 0
  <2>1. ~InTriangle(p, a, b, c)
    BY <1>2 DEF InTriangle
  <2> QED
    BY <1>2, <2>1, OnLineCut
<1>3. CASE Turn(b, c, p) = 0
  <2>1. ~InTriangle(p, a, b, c)
    BY <1>3 DEF InTriangle
  <2>2. ~Cut(p, b, c) /\ (Cut(p, c, a) <=> Cut(p, a, b))
    BY <1>3, OnLineCut
  <2> QED
    BY <2>1, <2>2
<1>4. CASE Turn(c, a, p) = 0
  <2>1. ~InTriangle(p, a, b, c)
    BY <1>4 DEF InTriangle
  <2>2. ~Cut(p, c, a) /\ (Cut(p, a, b) <=> Cut(p, b, c))
    BY <1>4, OnLineCut
  <2> QED
    BY <2>1, <2>2
<1> QED
  BY <1>1, <1>2, <1>3, <1>4

LEMMA OnReversed ==
  ASSUME NEW a \in Coordinates, NEW b \in Coordinates, NEW p \in Coordinates
  PROVE  On(p, a, b) <=> On(p, b, a)
<1>1. /\ a.lat \in Int /\ a.lon \in Int /\ b.lat \in Int /\ b.lon \in Int
      /\ p.lat \in Int /\ p.lon \in Int
  BY DEF Coordinates
<1>2. Turn(a, b, p) = 0 <=> Turn(b, a, p) = 0
  BY TurnTypes
<1>3. \A k, l, m \in Int : (m - k) * (m - l) = (m - l) * (m - k)
  BY SMT
<1>4. /\ (p.lat - a.lat) * (p.lat - b.lat) = (p.lat - b.lat) * (p.lat - a.lat)
      /\ (p.lon - a.lon) * (p.lon - b.lon) = (p.lon - b.lon) * (p.lon - a.lon)
  BY <1>1, <1>3
<1> QED
  BY <1>2, <1>4 DEF On

(* The triangles of the fan up to vertex n that the point is in.           *)
InFan(p, polygon, n) == {k \in 2 .. n - 1 : InTriangle(p, polygon[1], polygon[k], polygon[k + 1])}

(* The loop has walked from the last vertex to the first and on to vertex  *)
(* edge - 1.  Closed by the two lines back over the first vertex this is   *)
(* the border of the triangles so far, and crossed as often as they say.   *)
FanSoFar ==
  stage = "ray" /\ edge > 1 /\ ~OnFan(point, Polygon) =>
    (Odd(Cardinality(InFan(point, Polygon, edge - 1)))
       <=> (inside <=> (Cut(point, Start(Polygon, 1), Polygon[1])
                          <=> Cut(point, Polygon[edge - 1], Polygon[1]))))

LEMMA FanLines ==
  ASSUME NEW p \in Coordinates, NEW polygon \in Seq(Coordinates),
         NEW e \in 2 .. Len(polygon) - 1, ~OnFan(p, polygon)
  PROVE  InTriangle(p, polygon[1], polygon[e], polygon[e + 1])
           <=> (Cut(p, polygon[e], polygon[1])
                  <=> (Cut(p, polygon[e], polygon[e + 1]) <=> Cut(p, polygon[e + 1], polygon[1])))
<1> DEFINE a == polygon[1]
           b == polygon[e]
           c == polygon[e + 1]
<1>1. e \in Nat /\ e > 1 /\ e \in 1 .. Len(polygon) /\ e + 1 \in 1 .. Len(polygon) /\ 1 \in 1 .. Len(polygon)
  OBVIOUS
<1>2. a \in Coordinates /\ b \in Coordinates /\ c \in Coordinates
  BY <1>1
<1>3. ~On(p, a, b) /\ ~On(p, a, c)
  BY <1>1 DEF OnFan
<1>4. Start(polygon, e + 1) = b
  BY <1>1 DEF Start
<1>5. ~On(p, b, c)
  BY <1>1, <1>4 DEF OnFan
<1> HIDE DEF a, b, c
<1>6. ~On(p, c, a)
  BY <1>2, <1>3, OnReversed
<1>7. InTriangle(p, a, b, c) <=> (Cut(p, a, b) <=> (Cut(p, b, c) <=> Cut(p, c, a)))
  BY <1>2, <1>3, <1>5, <1>6, TriangleCut
<1>8. Cut(p, a, b) <=> Cut(p, b, a)
  BY <1>2, CutReversed
<1> QED
  BY <1>7, <1>8 DEF a, b, c

(* One more vertex: one more triangle, that the point is in or not.        *)
LEMMA FanNext ==
  ASSUME NEW p \in Coordinates, NEW polygon \in Seq(Coordinates),
         NEW e \in 1 .. Len(polygon) - 1, ~OnFan(p, polygon)
  PROVE  Odd(Cardinality(InFan(p, polygon, e + 1)))
           <=> ~(Odd(Cardinality(InFan(p, polygon, e)))
                   <=> (Cut(p, polygon[e], polygon[1])
                          <=> (Cut(p, polygon[e], polygon[e + 1])
                                 <=> Cut(p, polygon[e + 1], polygon[1]))))
<1> DEFINE before == InFan(p, polygon, e)
           triangle == InTriangle(p, polygon[1], polygon[e], polygon[e + 1])
<1>1. e \in Nat /\ 1 \in 1 .. Len(polygon) /\ e + 1 \in 1 .. Len(polygon)
      /\ polygon[1] \in Coordinates /\ polygon[e + 1] \in Coordinates
  OBVIOUS
<1>2. IsFiniteSet(before) /\ Cardinality(before) \in Nat /\ e \notin before
  <2>1. before \subseteq 2 .. e - 1 /\ e - 1 \in Int
    BY <1>1 DEF InFan
  <2>2. IsFiniteSet(2 .. e - 1)
    BY <2>1, FS_Interval
  <2>3. e \notin 2 .. e - 1
    BY <1>1
  <2> HIDE DEF before
  <2> QED
    BY <2>1, <2>2, <2>3, FS_Subset, FS_CardinalityType
<1>3. CASE e = 1
  <2>1. InFan(p, polygon, e + 1) = {} /\ before = {}
    BY <1>3 DEF InFan
  <2>2. ~Odd(Cardinality({}))
    BY FS_EmptySet DEF Odd
  <2>3. ~Cut(p, polygon[1], polygon[1])
    BY <1>1, CutReversed
  <2>4. Cut(p, polygon[1], polygon[e + 1]) <=> Cut(p, polygon[e + 1], polygon[1])
    BY <1>1, CutReversed
  <2> HIDE DEF before, triangle
  <2>5. polygon[e] = polygon[1]
    BY <1>3
  <2> QED
    BY <2>1, <2>2, <2>3, <2>4, <2>5 DEF before
<1>4. CASE e # 1
  <2>0. e \in 2 .. Len(polygon) - 1
    BY <1>1, <1>4
  <2>1. triangle <=> (Cut(p, polygon[e], polygon[1])
                        <=> (Cut(p, polygon[e], polygon[e + 1]) <=> Cut(p, polygon[e + 1], polygon[1])))
    BY <2>0, FanLines
  <2>2. \A k \in 2 .. e : k \in 2 .. e - 1 \/ k = e
    BY <1>1
  <2>3. Odd(Cardinality(InFan(p, polygon, e + 1))) <=> ~(Odd(Cardinality(before)) <=> triangle)
    <3>1. CASE triangle
      <4>1. InFan(p, polygon, e + 1) = before \cup {e}
        BY <1>1, <2>0, <3>1 DEF InFan
      <4>2. Cardinality(before \cup {e}) = Cardinality(before) + 1
        BY <1>2, FS_AddElement
      <4>3. Odd(Cardinality(before \cup {e})) <=> ~Odd(Cardinality(before))
        BY <1>2, <4>2, OddNext
      <4> HIDE DEF before, triangle
      <4> QED
        BY <3>1, <4>1, <4>3
    <3>2. CASE ~triangle
      <4>1. InFan(p, polygon, e + 1) = before
        BY <1>1, <2>0, <3>2 DEF InFan
      <4> HIDE DEF before, triangle
      <4> QED
        BY <3>2, <4>1
    <3> QED
      BY <3>1, <3>2
  <2> HIDE DEF before, triangle
  <2> QED
    BY <2>1, <2>3 DEF before
<1> QED
  BY <1>3, <1>4

FanInv == LoopInv /\ FanSoFar

LEMMA PointTypes ==
  ASSUME TypeOK, zone <= Len(zones)
  PROVE  /\ point \in Coordinates /\ Polygon \in Seq(Coordinates) /\ Len(Polygon) \in Nat
         /\ zone \in 1 .. Len(zones)
BY PointsAssumption, ZoneTypes DEF TypeOK, Polygon

LEMMA FanInit == Init => FanInv
BY LoopInit DEF Init, FanInv, FanSoFar

LEMMA FanStep == FanInv /\ [Next]_vars => FanInv'
<1> SUFFICES ASSUME FanInv, [Next]_vars
             PROVE  FanSoFar'
  BY LoopStep DEF FanInv
<1>1. CASE RayStep
  <2>1. /\ UNCHANGED <<Polygon, point>> /\ edge' = edge + 1 /\ stage = "ray"
        /\ inside' = (inside # Crosses(point, Polygon, edge)) /\ edge <= Len(Polygon)
    BY <1>1 DEF RayStep, Polygon
  <2>2. /\ point \in Coordinates /\ Polygon \in Seq(Coordinates) /\ Len(Polygon) \in Nat
        /\ edge \in 1 .. Len(Polygon) /\ inside \in BOOLEAN
    BY <2>1, PointTypes DEF FanInv, LoopInv, Inv, TypeOK, InLoop
  <2>3. Crosses(point, Polygon, edge) <=> Cut(point, Start(Polygon, edge), Polygon[edge])
    BY <2>2, CrossesCut
  <2>4. inside' <=> ~(inside <=> Cut(point, Start(Polygon, edge), Polygon[edge]))
    <3>1. Crosses(point, Polygon, edge) \in BOOLEAN
      BY DEF Crosses
    <3>2. \A i, c \in BOOLEAN : (i # c) <=> ~(i <=> c)
      OBVIOUS
    <3>3. inside' <=> ~(inside <=> Crosses(point, Polygon, edge))
      BY <2>1, <2>2, <3>1, <3>2
    <3> QED
      BY <2>3, <3>3
  <2>5. edge' - 1 = edge
    BY <2>1, <2>2
  <2> SUFFICES ASSUME ~OnFan(point, Polygon)
               PROVE  Odd(Cardinality(InFan(point, Polygon, edge)))
                        <=> (inside' <=> (Cut(point, Start(Polygon, 1), Polygon[1])
                                            <=> Cut(point, Polygon[edge], Polygon[1])))
    BY <2>1, <2>5 DEF FanSoFar
  <2>6. CASE edge = 1
    <3>1. ~Odd(Cardinality(InFan(point, Polygon, edge)))
      <4>1. InFan(point, Polygon, edge) = {}
        BY <2>6 DEF InFan
      <4> QED
        BY <4>1, FS_EmptySet DEF Odd
    <3>2. ~inside
      <4>1. ~Odd(Cardinality(Crossed(point, Polygon, 1)))
        BY CrossedNone
      <4> QED
        BY <2>1, <2>6, <4>1 DEF FanInv, LoopInv, InsideIsParity
    <3>3. ~Cut(point, Polygon[edge], Polygon[1])
      BY <2>2, <2>6, CutReversed
    <3> QED
      BY <2>4, <2>6, <3>1, <3>2, <3>3
  <2>7. CASE edge # 1
    <3> DEFINE e == edge - 1
    <3>1. e \in 1 .. Len(Polygon) - 1 /\ e + 1 = edge /\ edge > 1 /\ Start(Polygon, edge) = Polygon[e]
      BY <2>2, <2>7 DEF Start
    <3>2. Odd(Cardinality(InFan(point, Polygon, edge)))
            <=> ~(Odd(Cardinality(InFan(point, Polygon, e)))
                    <=> (Cut(point, Polygon[e], Polygon[1])
                           <=> (Cut(point, Polygon[e], Polygon[edge])
                                  <=> Cut(point, Polygon[edge], Polygon[1]))))
      <4> HIDE DEF e
      <4> QED
        BY <2>2, <3>1, FanNext
    <3>3. Odd(Cardinality(InFan(point, Polygon, e)))
            <=> (inside <=> (Cut(point, Start(Polygon, 1), Polygon[1])
                               <=> Cut(point, Polygon[e], Polygon[1])))
      BY <2>1, <3>1 DEF FanInv, FanSoFar
    <3>4. inside' <=> ~(inside <=> Cut(point, Polygon[e], Polygon[edge]))
      BY <2>4, <3>1
    <3> HIDE DEF e
    <3> QED
      BY <3>2, <3>3, <3>4
  <2> QED
    BY <2>6, <2>7
<1>2. CASE BeginZone
  BY <1>2 DEF BeginZone, FanSoFar
<1>3. CASE \/ Store \/ Listen \/ Refuse \/ (\E id \in Ids \cup {"unknown"} : FetchAdapter(id))
           \/ (\E p \in Points : Ask(p)) \/ MatchInside \/ MissInside \/ TestDistance
           \/ Found \/ Collect \/ Respond
  BY <1>3 DEF Store, Listen, Refuse, FetchAdapter, Ask, MatchInside, MissInside, TestDistance,
              Found, Collect, Respond, FanSoFar
<1>4. CASE UNCHANGED vars
  BY <1>4 DEF vars, Polygon, FanInv, FanSoFar
<1> QED
  BY <1>1, <1>2, <1>3, <1>4 DEF Next

LEMMA InsideWhenDone == FanInv => InsideIsRight
<1> SUFFICES ASSUME FanInv, RayDone, ~OnFan(point, Polygon)
             PROVE  inside = InsideByFan(point, Polygon)
  BY DEF InsideIsRight
<1>1. /\ Len(Polygon) \in Nat /\ Len(Polygon) >= 3 /\ inside \in BOOLEAN
      /\ stage = "ray" /\ edge = Len(Polygon) + 1
  BY PointTypes DEF RayDone, FanInv, LoopInv, Inv, TypeOK, InLoop
<1>2. edge > 1 /\ edge - 1 = Len(Polygon) /\ Start(Polygon, 1) = Polygon[Len(Polygon)]
  BY <1>1 DEF Start
<1>3. Odd(Cardinality(InFan(point, Polygon, Len(Polygon)))) <=> inside
  BY <1>1, <1>2 DEF FanInv, FanSoFar
<1>4. InFan(point, Polygon, Len(Polygon))
        = {k \in Fan(Polygon) : InTriangle(point, Polygon[1], Polygon[k], Polygon[k + 1])}
  BY DEF InFan, Fan
<1> QED
  BY <1>1, <1>3, <1>4 DEF InsideByFan, Odd

(* PointInPolygon finds what orientations say: a point that is not on the  *)
(* border nor on a diagonal of the fan is inside exactly if it is in an    *)
(* odd number of its triangles, for polygons of any shape, also ones that  *)
(* cross themselves or have edges of length zero, and for rays through     *)
(* vertices and along edges.                                               *)
THEOREM InsideRight == Spec => []InsideIsRight
BY FanInit, FanStep, InsideWhenDone, PTL DEF Spec
-----------------------------------------------------------------------------
(* Of the numbers from 0 to n the one nearest to d is 0, n or d.           *)
LEMMA NearestNumber ==
  ASSUME NEW n \in Nat, NEW d \in Int, NEW k \in 0 .. n
  PROVE  /\ d <= 0 => (0 - d) * (0 - d) <= (k - d) * (k - d)
         /\ d >= n => (n - d) * (n - d) <= (k - d) * (k - d)
         /\ 0 <= (k - d) * (k - d)
<1>1. \A x, y \in Int : 0 <= x /\ x <= y => x * x <= y * y
  BY SMT
<1>2. \A x \in Int : 0 <= x * x /\ (-x) * (-x) = x * x
  BY SMT
<1>3. ASSUME d <= 0 PROVE (0 - d) * (0 - d) <= (k - d) * (k - d)
  BY <1>1, <1>3
<1>4. ASSUME d >= n PROVE (n - d) * (n - d) <= (k - d) * (k - d)
  <2>1. (d - n) * (d - n) <= (d - k) * (d - k)
    BY <1>1, <1>4
  <2>2. (d - n) * (d - n) = (n - d) * (n - d) /\ (d - k) * (d - k) = (k - d) * (k - d)
    BY SMT
  <2> QED
    BY <2>1, <2>2
<1>5. 0 <= (k - d) * (k - d)
  BY <1>2
<1> QED
  BY <1>3, <1>4, <1>5

(* The vectors from a to p, (x, y), and from a to b, (dx, dy): the squared *)
(* distance to the point at k / len, times len squared.                    *)
LEMMA PointDistance ==
  \A x, y, dx, dy, k \in Int :
    LET len == dx * dx + dy * dy
        dot == x * dx + y * dy
        cross == x * dy - y * dx
    IN (k * dy - len * y) * (k * dy - len * y) + (k * dx - len * x) * (k * dx - len * x)
         = len * ((k - dot) * (k - dot) + cross * cross)
BY SMT

LEMMA EndDistances ==
  \A x, y, dx, dy \in Int :
    LET len == dx * dx + dy * dy
        dot == x * dx + y * dy
        cross == x * dy - y * dx
    IN /\ len * (y * y + x * x) = (0 - dot) * (0 - dot) + cross * cross
       /\ len * ((dy - y) * (dy - y) + (dx - x) * (dx - x))
            = (len - dot) * (len - dot) + cross * cross
BY SMT

LEMMA Divide ==
  ASSUME NEW n \in Int, n > 0, NEW x \in Int, NEW y \in Int
  PROVE  /\ n * x <= n * y <=> x <= y
         /\ n * x <= y * n <=> x <= y
         /\ n * x <= y * (n * n) <=> x <= y * n
<1>1. \A u, v \in Int : n * u <= n * v <=> u <= v
  BY SMT
<1>2. y * n \in Int /\ n * (y * n) = y * (n * n) /\ n * y = y * n
  BY SMT
<1> QED
  BY <1>1, <1>2

LEMMA NoLength ==
  \A dx, dy \in Int : /\ dx * dx + dy * dy >= 0
                      /\ dx * dx + dy * dy = 0 => dx = 0 /\ dy = 0
<1>1. \A x \in Int : x * x >= 0 /\ (x # 0 => x * x > 0)
  BY SMT
<1>2. \A x \in Int : x * x \in Int
  OBVIOUS
<1> QED
  BY <1>1, <1>2

(* Some point of the segment from a to b is within the threshold.          *)
PointWithin(p, a, b) ==
  LET len == DistanceSquared(a, b)
  IN IF len = 0 THEN DistanceSquared(p, a) <= Threshold
     ELSE \E k \in 0 .. len :
            Square(len * (a.lat - p.lat) + k * (b.lat - a.lat))
              + Square(len * (a.lon - p.lon) + k * (b.lon - a.lon)) <= Threshold * Square(len)

(* The clamped projection is the nearest point of a segment.               *)
LEMMA SegmentRight ==
  ASSUME NEW p \in Coordinates, NEW a \in Coordinates, NEW b \in Coordinates
  PROVE  SegmentWithin(p, a, b) <=> PointWithin(p, a, b)
<1> DEFINE x == p.lon - a.lon
           y == p.lat - a.lat
           dx == b.lon - a.lon
           dy == b.lat - a.lat
           len == dx * dx + dy * dy
           dot == x * dx + y * dy
           cross == x * dy - y * dx
           Reached(k) == (k - dot) * (k - dot) + cross * cross <= Threshold * len
<1>1. /\ a.lat \in Int /\ a.lon \in Int /\ b.lat \in Int /\ b.lon \in Int
      /\ p.lat \in Int /\ p.lon \in Int
  BY DEF Coordinates
<1>2. x \in Int /\ y \in Int /\ dx \in Int /\ dy \in Int
  BY <1>1
<1>3. /\ a.lat - p.lat = -y /\ a.lon - p.lon = -x
      /\ b.lat - p.lat = dy - y /\ b.lon - p.lon = dx - x
  BY <1>1
<1>4. /\ DistanceSquared(a, b) = len
      /\ DistanceSquared(p, a) = y * y + x * x
      /\ DistanceSquared(p, b) = (dy - y) * (dy - y) + (dx - x) * (dx - x)
  <2>1. DistanceSquared(a, b) = dy * dy + dx * dx
    BY DEF DistanceSquared, Square
  <2>2. DistanceSquared(p, a) = (-y) * (-y) + (-x) * (-x)
    BY <1>3 DEF DistanceSquared, Square
  <2>3. DistanceSquared(p, b) = (dy - y) * (dy - y) + (dx - x) * (dx - x)
    BY <1>3 DEF DistanceSquared, Square
  <2>4. \A u, v \in Int : (-u) * (-u) + (-v) * (-v) = u * u + v * v /\ u * u + v * v = v * v + u * u
    BY SMT
  <2> HIDE DEF x, y, dx, dy
  <2> QED
    BY <1>2, <2>1, <2>2, <2>3, <2>4
<1>5. SegmentWithin(p, a, b)
        <=> CASE dot <= 0 -> DistanceSquared(p, a) <= Threshold
              [] dot >= len /\ dot > 0 -> DistanceSquared(p, b) <= Threshold
              [] OTHER -> cross * cross <= Threshold * len
  BY DEF SegmentWithin, Square
<1>6. PointWithin(p, a, b)
        <=> IF len = 0 THEN DistanceSquared(p, a) <= Threshold
            ELSE \E k \in 0 .. len :
                   (len * (-y) + k * dy) * (len * (-y) + k * dy)
                     + (len * (-x) + k * dx) * (len * (-x) + k * dx) <= Threshold * (len * len)
  BY <1>3, <1>4 DEF PointWithin, Square
<1>7. len \in Int /\ dot \in Int /\ cross \in Int /\ Threshold \in Int
  <2> HIDE DEF x, y, dx, dy
  <2> QED
    BY <1>2, ThresholdAssumption
<1>8. len >= 0 /\ (len = 0 => dx = 0 /\ dy = 0)
  <2> HIDE DEF x, y, dx, dy
  <2> QED
    BY <1>2, NoLength
<1>9. ASSUME NEW k \in Int
      PROVE  (len * (-y) + k * dy) * (len * (-y) + k * dy)
               + (len * (-x) + k * dx) * (len * (-x) + k * dx)
             = len * ((k - dot) * (k - dot) + cross * cross)
  <2>1. (k * dy - len * y) * (k * dy - len * y) + (k * dx - len * x) * (k * dx - len * x)
          = len * ((k - dot) * (k - dot) + cross * cross)
    <3> HIDE DEF x, y, dx, dy
    <3> QED
      BY <1>2, PointDistance
  <2>2. len * (-y) + k * dy = k * dy - len * y /\ len * (-x) + k * dx = k * dx - len * x
    <3> HIDE DEF x, y, dx, dy, len
    <3> QED
      BY <1>2, <1>7
  <2> HIDE DEF x, y, dx, dy, len, dot, cross
  <2> QED
    BY <2>1, <2>2
<1>10. /\ len * (y * y + x * x) = (0 - dot) * (0 - dot) + cross * cross
       /\ len * ((dy - y) * (dy - y) + (dx - x) * (dx - x))
            = (len - dot) * (len - dot) + cross * cross
  <2> HIDE DEF x, y, dx, dy
  <2> QED
    BY <1>2, EndDistances
<1>11. len = 0 => dot = 0
  <2> HIDE DEF x, y, dx, dy
  <2> QED
    BY <1>2, <1>8
<1>12. CASE len = 0
  BY <1>5, <1>6, <1>11, <1>12
<1>13. CASE len > 0
  <2> HIDE DEF x, y, dx, dy, len, dot, cross
  <2>1. PointWithin(p, a, b) <=> \E k \in 0 .. len : Reached(k)
    <3>1. ASSUME NEW k \in 0 .. len
          PROVE  (len * (-y) + k * dy) * (len * (-y) + k * dy)
                   + (len * (-x) + k * dx) * (len * (-x) + k * dx) <= Threshold * (len * len)
                 <=> Reached(k)
      <4>1. k \in Int /\ (k - dot) * (k - dot) + cross * cross \in Int
        BY <1>7
      <4>2. len * ((k - dot) * (k - dot) + cross * cross) <= Threshold * (len * len) <=> Reached(k)
        BY <1>7, <1>13, <4>1, Divide
      <4> QED
        BY <1>9, <4>1, <4>2
    <3> QED
      BY <1>6, <1>13, <3>1
  <2>2. \A k \in 0 .. len : /\ dot <= 0 => (0 - dot) * (0 - dot) <= (k - dot) * (k - dot)
                            /\ dot >= len => (len - dot) * (len - dot) <= (k - dot) * (k - dot)
                            /\ 0 <= (k - dot) * (k - dot)
    <3>1. len \in Nat
      BY <1>7, <1>13
    <3> QED
      BY <1>7, <3>1, NearestNumber
  <2>3. cross * cross \in Int /\ Threshold * len \in Int /\ \A k \in 0 .. len : (k - dot) * (k - dot) \in Int
    BY <1>7
  <2>4. 0 \in 0 .. len /\ len \in 0 .. len
    BY <1>7, <1>13
  <2>5. CASE dot <= 0
    <3>1. (\E k \in 0 .. len : Reached(k)) <=> Reached(0)
      BY <2>2, <2>3, <2>4, <2>5
    <3>2. Reached(0) <=> len * (y * y + x * x) <= Threshold * len
      BY <1>10
    <3>3. y * y + x * x \in Int
      BY <1>2
    <3>4. len * (y * y + x * x) <= Threshold * len <=> y * y + x * x <= Threshold
      BY <1>7, <1>13, <3>3, Divide
    <3>5. SegmentWithin(p, a, b) <=> y * y + x * x <= Threshold
      BY <1>4, <1>5, <1>7, <2>5
    <3> QED
      BY <2>1, <3>1, <3>2, <3>4, <3>5
  <2>6. CASE dot >= len
    <3>1. (\E k \in 0 .. len : Reached(k)) <=> Reached(len)
      BY <2>2, <2>3, <2>4, <2>6
    <3> DEFINE d == (dy - y) * (dy - y) + (dx - x) * (dx - x)
    <3>2. Reached(len) <=> len * d <= Threshold * len
      BY <1>10
    <3>3. d \in Int
      BY <1>2
    <3>4. len * d <= Threshold * len <=> d <= Threshold
      <4> HIDE DEF d
      <4> QED
        BY <1>7, <1>13, <3>3, Divide
    <3>5. SegmentWithin(p, a, b) <=> d <= Threshold
      BY <1>4, <1>5, <1>7, <1>13, <2>6
    <3> QED
      BY <2>1, <3>1, <3>2, <3>4, <3>5
  <2>7. CASE dot > 0 /\ dot < len
    <3>1. dot \in 0 .. len /\ (dot - dot) * (dot - dot) = 0
      BY <1>7, <2>7
    <3>2. Reached(dot) <=> cross * cross <= Threshold * len
      BY <2>3, <3>1
    <3>3. ASSUME NEW k \in 0 .. len, Reached(k)
          PROVE  cross * cross <= Threshold * len
      BY <2>2, <2>3, <3>3
    <3>4. SegmentWithin(p, a, b) <=> cross * cross <= Threshold * len
      BY <1>5, <1>7, <2>7
    <3> QED
      <4>1. \A k \in 0 .. len : Reached(k) => cross * cross <= Threshold * len
        BY <3>3
      <4> HIDE DEF Reached
      <4> QED
        BY <2>1, <3>1, <3>2, <3>4, <4>1
  <2> QED
    BY <1>7, <2>5, <2>6, <2>7
<1> QED
  BY <1>7, <1>8, <1>12, <1>13

LEMMA NearRight ==
  ASSUME NEW p \in Coordinates, NEW polygon \in Seq(Coordinates)
  PROVE  Near(p, polygon) <=> NearByPoints(p, polygon)
<1>1. \A i \in 1 .. Len(polygon) : Start(polygon, i) \in Coordinates /\ polygon[i] \in Coordinates
  BY CrossesCut
<1>2. \A i \in 1 .. Len(polygon) : SegmentWithin(p, Start(polygon, i), polygon[i])
                                     <=> PointWithin(p, Start(polygon, i), polygon[i])
  BY <1>1, SegmentRight
<1>3. NearByPoints(p, polygon)
        <=> \E i \in 1 .. Len(polygon) : PointWithin(p, Start(polygon, i), polygon[i])
  BY DEF NearByPoints, PointWithin
<1> QED
  BY <1>2, <1>3 DEF Near

(* What the ray said of the zones that it has been cast at.                *)
CastRight(p, polygon) ==
  Len(polygon) >= 3 /\ ~OnFan(p, polygon) =>
    (Odd(Cardinality(Crossed(p, polygon, Len(polygon) + 1))) <=> InsideByFan(p, polygon))

ZonesRight ==
  stage \notin {"load", "idle"} =>
    \A z \in 1 .. zone :
      z < zone \/ stage = "edge" => CastRight(point, zones[z].polygon)

RightInv == FanInv /\ ResultIsFilter /\ ZonesRight

(* The zones before are as they were, and this one's rays were counted.    *)
LEMMA ZonesRightNext ==
  ASSUME RightInv, stage \notin {"load", "idle"}, UNCHANGED <<zones, point>>,
         CastRight(point, Polygon),
         \/ zone' = zone + 1 /\ stage' = "zone"
         \/ zone' = zone
  PROVE  ZonesRight'
<1>1. zone \in Nat \ {0}
  BY ZoneTypes DEF RightInv, FanInv, LoopInv, Inv, TypeOK
<1>2. \A z \in 1 .. zone : z < zone \/ z = zone
  BY <1>1
<1>3. \A z \in 1 .. zone : CastRight(point, zones[z].polygon)
  BY <1>2 DEF RightInv, ZonesRight, Polygon
<1>4. CASE zone' = zone + 1 /\ stage' = "zone"
  <2>1. \A z \in 1 .. zone' : z < zone' => z \in 1 .. zone
    BY <1>1, <1>4
  <2> QED
    BY <1>3, <1>4, <2>1 DEF ZonesRight
<1>5. CASE zone' = zone
  BY <1>3, <1>5 DEF ZonesRight
<1> QED
  BY <1>4, <1>5

LEMMA RightInit == Init => RightInv
BY FanInit, FilterInit DEF Init, RightInv, FilterInv, ZonesRight

LEMMA RightStep == RightInv /\ [Next]_vars => RightInv'
<1> SUFFICES ASSUME RightInv, [Next]_vars
             PROVE  ZonesRight'
  BY FanStep, FilterStep DEF RightInv, FanInv, FilterInv
<1>0. TypeOK /\ InLoop /\ zone \in Nat \ {0} /\ (zone <= Len(zones) => Len(Polygon) \in Nat)
  BY ZoneTypes DEF RightInv, FanInv, LoopInv, Inv, TypeOK, Polygon
<1>1. CASE Store \/ Listen \/ Refuse \/ (\E id \in Ids \cup {"unknown"} : FetchAdapter(id)) \/ Respond
  BY <1>1 DEF Store, Listen, Refuse, FetchAdapter, Respond, ZonesRight
<1>2. CASE \E p \in Points : Ask(p)
  <2>1. zone' = 1 /\ stage' = "zone"
    BY <1>2 DEF Ask
  <2> QED
    BY <2>1 DEF ZonesRight
<1>3. CASE BeginZone
  <2>1. CASE Len(Polygon) < 3
    <3>1. CastRight(point, Polygon)
      BY <1>0, <1>3, <2>1 DEF CastRight, BeginZone
    <3> QED
      BY <1>3, <3>1, ZonesRightNext DEF BeginZone
  <2>2. CASE Len(Polygon) >= 3
    <3>1. stage = "zone" /\ stage' = "ray" /\ UNCHANGED <<zones, point, zone>>
      BY <1>0, <1>3, <2>2 DEF BeginZone
    <3> QED
      BY <3>1 DEF RightInv, ZonesRight
  <2> QED
    BY <1>0, <1>3, <2>1, <2>2 DEF BeginZone
<1>4. CASE RayStep \/ Found \/ Collect
  <2>1. stage \notin {"load", "idle"} /\ stage' # "edge" /\ UNCHANGED <<zones, point, zone>>
    BY <1>4 DEF RayStep, Found, Collect
  <2> QED
    BY <2>1 DEF RightInv, ZonesRight
<1>5. ASSUME RayDone
      PROVE  CastRight(point, Polygon)
  <2>1. /\ stage = "ray" /\ Len(Polygon) \in Nat /\ edge = Len(Polygon) + 1 /\ inside \in BOOLEAN
    BY <1>0, <1>5 DEF RayDone, InLoop, TypeOK
  <2>2. inside = Odd(Cardinality(Crossed(point, Polygon, Len(Polygon) + 1)))
    BY <2>1 DEF RightInv, FanInv, LoopInv, InsideIsParity
  <2>3. ~OnFan(point, Polygon) => inside = InsideByFan(point, Polygon)
    BY <1>5, InsideWhenDone DEF RightInv, InsideIsRight
  <2> QED
    BY <2>2, <2>3 DEF CastRight
<1>6. CASE MatchInside \/ MissInside
  BY <1>5, <1>6, ZonesRightNext DEF MatchInside, MissInside, RayDone
<1>7. CASE TestDistance
  <2>1. CastRight(point, Polygon)
    BY <1>0, <1>7 DEF TestDistance, RightInv, ZonesRight, Polygon
  <2> QED
    BY <1>7, <2>1, ZonesRightNext DEF TestDistance
<1>8. CASE UNCHANGED vars
  BY <1>8 DEF vars, RightInv, ZonesRight
<1> QED
  BY <1>1, <1>2, <1>3, <1>4, <1>6, <1>7, <1>8 DEF Next

LEMMA ResultWhenRight == RightInv => ResultIsRight
<1> SUFFICES ASSUME RightInv, stage \notin {"load", "idle"}, NEW z \in 1 .. zone - 1,
                    ~OnFan(point, zones[z].polygon) \/ NearByPoints(point, zones[z].polygon)
             PROVE  (\E k \in DOMAIN result : result[k] = z) <=>
                      \/ Len(zones[z].polygon) >= 3 /\ InsideByFan(point, zones[z].polygon)
                      \/ NearByPoints(point, zones[z].polygon)
  BY DEF ResultIsRight
<1> DEFINE polygon == zones[z].polygon
<1>1. /\ point \in Coordinates /\ Len(zones) \in Nat /\ zone \in 1 .. Len(zones) + 1
      /\ z \in 1 .. Len(zones) /\ z \in 1 .. zone /\ z < zone
  BY PointsAssumption, ZoneTypes DEF RightInv, FanInv, LoopInv, Inv, TypeOK
<1>2. polygon \in Seq(Coordinates)
  BY <1>1, ZoneTypes DEF RightInv, FanInv, LoopInv, Inv, TypeOK
<1>3. (\E k \in DOMAIN result : result[k] = z) <=> Matches(point, polygon)
  BY DEF RightInv, ResultIsFilter
<1>4. CastRight(point, polygon)
  BY <1>1 DEF RightInv, ZonesRight
<1>5. Near(point, polygon) <=> NearByPoints(point, polygon)
  BY <1>1, <1>2, NearRight
<1> HIDE DEF polygon
<1>6. (\E k \in DOMAIN result : result[k] = z) <=>
        \/ Len(polygon) >= 3 /\ InsideByFan(point, polygon)
        \/ NearByPoints(point, polygon)
  BY <1>3, <1>4, <1>5 DEF Matches, CastRight, polygon
<1> QED
  BY <1>6 DEF polygon

(* The zones of a point are those it is in or on the border of, or near,   *)
(* by references that know neither rays nor projections (05-REQ-1.2 to     *)
(* 1.4), for all polygons, points and thresholds.                          *)
THEOREM ResultRight == Spec => []ResultIsRight
BY RightInit, RightStep, ResultWhenRight, PTL DEF Spec
-----------------------------------------------------------------------------
(* The operators of a zone among the first n: each once and in order.      *)
Lists(list, name, n) ==
  /\ \A i \in DOMAIN list : list[i] < n + 1
  /\ \A i, j \in DOMAIN list : i < j => list[i] < list[j]
  /\ \A k \in 1 .. n : (\E i \in DOMAIN list : list[i] = k) <=> Operators[k].zone = name

(* The last of the first n operators with an id, 0 if there is none.       *)
IsLast(k, id, n) ==
  /\ k # 0 => k \in 1 .. n /\ Operators[k].id = id
  /\ \A m \in 1 .. n : Operators[m].id = id => m <= k

Stored == IF stage = "load" THEN item - 1 ELSE Len(Operators)

StoreInv ==
  /\ \A name \in ZoneNames : Lists(byZone[name], name, Stored)
  /\ \A id \in Ids : IsLast(byId[id], id, Stored)

StoredInv == Inv /\ StoreInv

LEMMA StoredTypes ==
  ASSUME Inv
  PROVE  Stored \in Nat /\ Stored <= Len(Operators) /\ item \in Nat \ {0}
BY OperatorTypes DEF Inv, TypeOK, InLoop, Stored

LEMMA StoredInit == Init => StoredInv
<1> SUFFICES ASSUME Init
             PROVE  StoreInv
  BY InvInit DEF StoredInv
<1>1. Stored = 0
  BY DEF Init, Stored
<1>2. \A name \in ZoneNames : byZone[name] = <<>>
  BY DEF Init
<1>3. \A id \in Ids : byId[id] = 0
  BY DEF Init
<1>4. \A name : Lists(<<>>, name, 0)
  BY DEF Lists
<1>5. \A id : IsLast(0, id, 0)
  BY DEF IsLast
<1> QED
  BY <1>1, <1>2, <1>3, <1>4, <1>5 DEF StoreInv

(* The list of a zone before and after the operator m is stored.           *)
LEMMA ListNext ==
  ASSUME NEW list \in Seq(Nat), NEW name, NEW m \in Nat \ {0}, Lists(list, name, m - 1)
  PROVE  /\ Operators[m].zone = name => Lists(Append(list, m), name, m)
         /\ Operators[m].zone # name => Lists(list, name, m)
<1>1. /\ \A i \in DOMAIN list : list[i] < m
      /\ \A i, j \in DOMAIN list : i < j => list[i] < list[j]
      /\ \A k \in 1 .. m - 1 : (\E i \in DOMAIN list : list[i] = k) <=> Operators[k].zone = name
  BY DEF Lists
<1>2. \A k \in 1 .. m : k \in 1 .. m - 1 \/ k = m
  OBVIOUS
<1>3. ASSUME Operators[m].zone = name
      PROVE  Lists(Append(list, m), name, m)
  <2> DEFINE t == Append(list, m)
  <2>1. m \in Nat /\ \A k \in 1 .. m - 1 : k \in 0 .. m - 1
    OBVIOUS
  <2>2. /\ \A k \in DOMAIN t : t[k] < m + 1
        /\ \A k, l \in DOMAIN t : k < l => t[k] < t[l]
        /\ \A z \in 0 .. m - 1 : (\E k \in DOMAIN t : t[k] = z) <=> \E k \in DOMAIN list : list[k] = z
        /\ \E k \in DOMAIN t : t[k] = m
    BY <1>1, <2>1, AppendSorted
  <2> HIDE DEF t
  <2>3. \A k \in 1 .. m : (\E i \in DOMAIN t : t[i] = k) <=> Operators[k].zone = name
    BY <1>1, <1>2, <1>3, <2>1, <2>2
  <2>4. Lists(t, name, m)
    BY <2>2, <2>3 DEF Lists
  <2> QED
    BY <2>4 DEF t
<1>4. ASSUME Operators[m].zone # name
      PROVE  Lists(list, name, m)
  <2>1. \A i \in DOMAIN list : list[i] \in Nat
    OBVIOUS
  <2>2. \A i \in DOMAIN list : list[i] # m /\ list[i] < m + 1
    BY <1>1, <2>1
  <2>3. \A k \in 1 .. m : (\E i \in DOMAIN list : list[i] = k) <=> Operators[k].zone = name
    BY <1>1, <1>2, <1>4, <2>2
  <2> QED
    BY <1>1, <2>2, <2>3 DEF Lists
<1> QED
  BY <1>3, <1>4

LEMMA LastNext ==
  ASSUME NEW k \in Nat, NEW id, NEW m \in Nat \ {0}, IsLast(k, id, m - 1)
  PROVE  /\ Operators[m].id = id => IsLast(m, id, m)
         /\ Operators[m].id # id => IsLast(k, id, m)
BY DEF IsLast

LEMMA StoredStep == StoredInv /\ [Next]_vars => StoredInv'
<1> SUFFICES ASSUME StoredInv, [Next]_vars
             PROVE  StoreInv'
  BY InvStep DEF StoredInv
<1>0. /\ Inv /\ StoreInv /\ TypeOK /\ Len(Operators) \in Nat
      /\ Stored \in Nat /\ item \in Nat \ {0}
  BY StoredTypes, OperatorTypes DEF StoredInv, Inv
<1>1. CASE Store
  <2>1. /\ stage = "load" /\ stage' = "load" /\ item' = item + 1 /\ item \in 1 .. Len(Operators)
        /\ byId' = [byId EXCEPT ![Operators[item].id] = item]
        /\ byZone' = [byZone EXCEPT ![Operators[item].zone] = Append(byZone[Operators[item].zone], item)]
    BY <1>0, <1>1 DEF Store
  <2>2. Stored = item - 1 /\ Stored' = item
    BY <1>0, <2>1 DEF Stored
  <2>3. ASSUME NEW name \in ZoneNames
        PROVE  Lists(byZone'[name], name, item)
    <3>1. byZone[name] \in Seq(Nat) /\ byZone \in [ZoneNames -> Seq(1 .. Len(Operators))]
      BY <1>0 DEF TypeOK
    <3>2. Lists(byZone[name], name, item - 1)
      BY <1>0, <2>2 DEF StoreInv
    <3>3. byZone'[name] = IF Operators[item].zone = name THEN Append(byZone[name], item) ELSE byZone[name]
      BY <2>1, <3>1
    <3> QED
      BY <1>0, <3>1, <3>2, <3>3, ListNext
  <2>4. ASSUME NEW id \in Ids
        PROVE  IsLast(byId'[id], id, item)
    <3>1. byId[id] \in Nat /\ byId \in [Ids -> 0 .. Len(Operators)]
      BY <1>0 DEF TypeOK
    <3>2. IsLast(byId[id], id, item - 1)
      BY <1>0, <2>2 DEF StoreInv
    <3>3. byId'[id] = IF Operators[item].id = id THEN item ELSE byId[id]
      BY <2>1, <3>1
    <3> QED
      BY <1>0, <3>1, <3>2, <3>3, LastNext
  <2> QED
    BY <2>2, <2>3, <2>4 DEF StoreInv
<1>2. CASE Listen
  <2>1. Stored' = Stored /\ UNCHANGED <<byId, byZone>>
    BY <1>0, <1>2 DEF Listen, Stored, store
  <2> QED
    BY <1>0, <2>1 DEF StoreInv
<1>3. CASE \/ Refuse \/ (\E id \in Ids \cup {"unknown"} : FetchAdapter(id))
           \/ (\E p \in Points : Ask(p)) \/ BeginZone \/ RayStep \/ MatchInside \/ MissInside
           \/ TestDistance \/ Found \/ Collect \/ Respond
  <2>1. stage # "load" /\ stage' # "load" /\ UNCHANGED <<byId, byZone>>
    BY <1>3 DEF Refuse, FetchAdapter, Ask, BeginZone, RayStep, MatchInside, MissInside, RayDone,
                TestDistance, Found, Collect, Respond, store
  <2>2. Stored' = Stored
    BY <2>1 DEF Stored
  <2> QED
    BY <1>0, <2>1, <2>2 DEF StoreInv
<1>4. CASE UNCHANGED vars
  BY <1>0, <1>4 DEF vars, StoreInv, Stored
<1> QED
  BY <1>1, <1>2, <1>3, <1>4 DEF Next

(* Where an element is in a list.                                          *)
Places(list, k) == {i \in DOMAIN list : list[i] = k}

LEMMA PlacesTypes ==
  ASSUME NEW list \in Seq(Nat), NEW k
  PROVE  IsFiniteSet(Places(list, k)) /\ Cardinality(Places(list, k)) \in Nat
<1>1. Places(list, k) \subseteq 1 .. Len(list) /\ Len(list) \in Nat
  BY DEF Places
<1>2. IsFiniteSet(1 .. Len(list))
  BY <1>1, FS_Interval
<1> QED
  BY <1>1, <1>2, FS_Subset, FS_CardinalityType

LEMMA ConcatPlaces ==
  ASSUME NEW s \in Seq(Nat), NEW t \in Seq(Nat)
  PROVE  /\ DOMAIN (s \o t) = 1 .. Len(s) + Len(t)
         /\ \A i \in 1 .. Len(s) : (s \o t)[i] = s[i]
         /\ \A i \in 1 .. Len(t) : (s \o t)[Len(s) + i] = t[i]
         /\ \A i \in DOMAIN (s \o t) : i \in 1 .. Len(s) \/ i - Len(s) \in 1 .. Len(t)
OBVIOUS

(* A list without repetitions is joined: an element of it is in one place  *)
(* more, another in none.                                                  *)
LEMMA PlacesConcat ==
  ASSUME NEW s \in Seq(Nat), NEW t \in Seq(Nat), NEW k,
         \A i, j \in DOMAIN t : i < j => t[i] < t[j]
  PROVE  Cardinality(Places(s \o t, k))
           = Cardinality(Places(s, k)) + (IF \E i \in DOMAIN t : t[i] = k THEN 1 ELSE 0)
<1> DEFINE u == s \o t
           n == Len(s)
<1>1. /\ n \in Nat /\ Len(t) \in Nat /\ DOMAIN s = 1 .. n /\ DOMAIN t = 1 .. Len(t)
      /\ \A i \in 1 .. Len(t) : t[i] \in Nat
  OBVIOUS
<1>2. /\ DOMAIN u = 1 .. n + Len(t)
      /\ \A i \in 1 .. n : u[i] = s[i]
      /\ \A i \in 1 .. Len(t) : u[n + i] = t[i]
      /\ \A i \in DOMAIN u : i \in 1 .. n \/ i - n \in 1 .. Len(t)
  BY ConcatPlaces
<1>3. IsFiniteSet(Places(s, k)) /\ Cardinality(Places(s, k)) \in Nat
  BY PlacesTypes
<1> HIDE DEF u, n
<1>4. CASE \E i \in DOMAIN t : t[i] = k
  <2>1. PICK i \in 1 .. Len(t) : t[i] = k
    BY <1>1, <1>4
  <2>2. \A j \in 1 .. Len(t) : t[j] = k => j = i
    BY <1>1, <2>1
  <2>3. n + i \notin Places(s, k)
    BY <1>1, <2>1 DEF Places
  <2>4. \A j \in DOMAIN u : j - n = i => j = n + i
    <3>1. i \in Int /\ \A j \in DOMAIN u : j \in Int
      BY <1>1, <1>2
    <3>2. \A j \in Int : j - n = i => j = n + i
      BY <1>1, <3>1
    <3> QED
      BY <3>1, <3>2
  <2>5. Places(u, k) = Places(s, k) \cup {n + i}
    <3>1. ASSUME NEW j \in Places(u, k)
          PROVE  j \in Places(s, k) \cup {n + i}
      <4>1. j \in DOMAIN u /\ u[j] = k
        BY DEF Places
      <4>2. CASE j \in 1 .. n
        BY <1>1, <1>2, <4>1, <4>2 DEF Places
      <4>3. CASE j - n \in 1 .. Len(t)
        <5>1. n + (j - n) = j
          BY <1>1, <1>2, <4>1
        <5>2. t[j - n] = k
          BY <1>2, <4>1, <4>3, <5>1
        <5>3. j - n = i
          BY <2>2, <4>3, <5>2
        <5> QED
          BY <2>4, <4>1, <5>3
      <4> QED
        BY <1>2, <4>1, <4>2, <4>3
    <3>2. ASSUME NEW j \in Places(s, k)
          PROVE  j \in Places(u, k)
      <4>1. j \in 1 .. n /\ s[j] = k
        BY <1>1 DEF Places
      <4>2. j \in DOMAIN u
        BY <1>1, <1>2, <4>1
      <4> QED
        BY <1>2, <4>1, <4>2 DEF Places
    <3>3. n + i \in Places(u, k)
      <4>1. n + i \in DOMAIN u
        BY <1>1, <1>2, <2>1
      <4> QED
        BY <1>2, <2>1, <4>1 DEF Places
    <3> QED
      BY <3>1, <3>2, <3>3
  <2> QED
    BY <1>3, <1>4, <2>3, <2>5, FS_AddElement DEF u
<1>5. CASE ~\E i \in DOMAIN t : t[i] = k
  <2>1. Places(u, k) = Places(s, k)
    <3>1. ASSUME NEW j \in Places(u, k)
          PROVE  j \in Places(s, k)
      <4>1. j \in DOMAIN u /\ u[j] = k
        BY DEF Places
      <4>2. CASE j \in 1 .. n
        BY <1>1, <1>2, <4>1, <4>2 DEF Places
      <4>3. CASE j - n \in 1 .. Len(t)
        <5>1. n + (j - n) = j
          BY <1>1, <1>2, <4>1
        <5> QED
          BY <1>1, <1>2, <1>5, <4>1, <4>3, <5>1
      <4> QED
        BY <1>2, <4>1, <4>2, <4>3
    <3>2. ASSUME NEW j \in Places(s, k)
          PROVE  j \in Places(u, k)
      <4>1. j \in 1 .. n /\ s[j] = k
        BY <1>1 DEF Places
      <4>2. j \in DOMAIN u
        BY <1>1, <1>2, <4>1
      <4> QED
        BY <1>2, <4>1, <4>2 DEF Places
    <3> QED
      BY <3>1, <3>2
  <2> QED
    BY <1>3, <1>5, <2>1 DEF u
<1> QED
  BY <1>4, <1>5

(* The results before n whose zone is that of operator k.                  *)
LookedUp(k, n) == {j \in 1 .. n - 1 : zones[result[j]].id = Operators[k].zone}

(* Every operator has been found as often as its zone was looked up.       *)
FoundSoFar ==
  stage = "collect" =>
    \A k \in DOMAIN Operators :
      Cardinality(Places(found, k)) = Cardinality(LookedUp(k, item))

CollectInv == StoredInv /\ FoundSoFar

LEMMA CollectInit == Init => CollectInv
BY StoredInit DEF Init, CollectInv, FoundSoFar

LEMMA NothingLookedUp ==
  \A k : LookedUp(k, 1) = {} /\ Places(<<>>, k) = {}
BY DEF LookedUp, Places

LEMMA LookedUpNext ==
  ASSUME NEW k, NEW n \in Nat \ {0}
  PROVE  /\ Cardinality(LookedUp(k, n)) \in Nat
         /\ Cardinality(LookedUp(k, n + 1))
              = Cardinality(LookedUp(k, n))
                  + (IF zones[result[n]].id = Operators[k].zone THEN 1 ELSE 0)
<1>1. LookedUp(k, n) \subseteq 1 .. n - 1 /\ n \notin LookedUp(k, n) /\ n - 1 \in Int
  BY DEF LookedUp
<1>2. IsFiniteSet(1 .. n - 1)
  BY <1>1, FS_Interval
<1>3. IsFiniteSet(LookedUp(k, n)) /\ Cardinality(LookedUp(k, n)) \in Nat
  BY <1>1, <1>2, FS_Subset, FS_CardinalityType
<1>4. CASE zones[result[n]].id = Operators[k].zone
  <2>1. LookedUp(k, n + 1) = LookedUp(k, n) \cup {n}
    BY <1>4 DEF LookedUp
  <2>2. Cardinality(LookedUp(k, n) \cup {n}) = Cardinality(LookedUp(k, n)) + 1
    BY <1>1, <1>3, FS_AddElement
  <2> QED
    BY <1>3, <1>4, <2>1, <2>2
<1>5. CASE zones[result[n]].id # Operators[k].zone
  <2>1. LookedUp(k, n + 1) = LookedUp(k, n)
    BY <1>5 DEF LookedUp
  <2> QED
    BY <1>3, <1>5, <2>1
<1> QED
  BY <1>3, <1>4, <1>5

(* With the operators stored, a lookup finds each operator of a zone once. *)
LEMMA LookupRight ==
  ASSUME StoredInv, stage # "load", NEW name
  PROVE  /\ OperatorsOf(name) \in Seq(Nat)
         /\ \A i, j \in DOMAIN OperatorsOf(name) :
              i < j => OperatorsOf(name)[i] < OperatorsOf(name)[j]
         /\ \A k \in DOMAIN Operators :
              (\E i \in DOMAIN OperatorsOf(name) : OperatorsOf(name)[i] = k)
                <=> name = Operators[k].zone
<1>1. Stored = Len(Operators) /\ TypeOK /\ DOMAIN Operators = 1 .. Len(Operators)
  BY OperatorTypes DEF Stored, StoredInv, Inv
<1>2. CASE name \in ZoneNames
  <2>1. OperatorsOf(name) = byZone[name]
    BY <1>2 DEF OperatorsOf
  <2>2. Lists(byZone[name], name, Len(Operators))
    BY <1>1, <1>2 DEF StoredInv, StoreInv
  <2>3. byZone[name] \in Seq(Nat)
    BY <1>1, <1>2 DEF TypeOK
  <2> QED
    BY <1>1, <2>1, <2>2, <2>3 DEF Lists
<1>3. CASE name \notin ZoneNames
  <2>1. OperatorsOf(name) = <<>> /\ <<>> \in Seq(Nat) /\ DOMAIN <<>> = {}
    BY <1>3 DEF OperatorsOf
  <2>2. \A k \in DOMAIN Operators : name # Operators[k].zone
    BY <1>1, <1>3, OperatorTypes
  <2> QED
    BY <2>1, <2>2
<1> QED
  BY <1>2, <1>3

LEMMA CollectStep == CollectInv /\ [Next]_vars => CollectInv'
<1> SUFFICES ASSUME CollectInv, [Next]_vars
             PROVE  FoundSoFar'
  BY StoredStep DEF CollectInv
<1>1. CASE Found
  <2>1. item' = 1 /\ found' = <<>>
    BY <1>1 DEF Found
  <2>2. \A k : LookedUp(k, 1)' = {} /\ Places(<<>>, k) = {}
    BY DEF LookedUp, Places
  <2> QED
    BY <2>1, <2>2 DEF FoundSoFar, LookedUp
<1>2. CASE Collect
  <2> DEFINE name == zones[result[item]].id
             t == OperatorsOf(name)
  <2>1. /\ stage = "collect" /\ found' = found \o t /\ item' = item + 1
        /\ UNCHANGED <<zones, result>> /\ item \in Nat \ {0}
        /\ found \in Seq(Nat)
    BY <1>2 DEF Collect, CollectInv, StoredInv, Inv, TypeOK
  <2>2. /\ t \in Seq(Nat)
        /\ \A i, j \in DOMAIN t : i < j => t[i] < t[j]
        /\ \A k \in DOMAIN Operators :
             (\E i \in DOMAIN t : t[i] = k) <=> name = Operators[k].zone
    BY <2>1, LookupRight DEF CollectInv
  <2> HIDE DEF t
  <2>3. ASSUME NEW k \in DOMAIN Operators
        PROVE  Cardinality(Places(found', k)) = Cardinality(LookedUp(k, item + 1))
    <3>1. Cardinality(Places(found \o t, k))
            = Cardinality(Places(found, k)) + (IF \E i \in DOMAIN t : t[i] = k THEN 1 ELSE 0)
      BY <2>1, <2>2, PlacesConcat
    <3>2. Cardinality(LookedUp(k, item + 1))
            = Cardinality(LookedUp(k, item)) + (IF name = Operators[k].zone THEN 1 ELSE 0)
      BY <2>1, LookedUpNext
    <3>3. Cardinality(Places(found, k)) = Cardinality(LookedUp(k, item))
      BY <2>1 DEF CollectInv, FoundSoFar
    <3> HIDE DEF name
    <3> QED
      BY <2>1, <2>2, <3>1, <3>2, <3>3
  <2>4. \A k \in DOMAIN Operators : LookedUp(k, item)' = LookedUp(k, item + 1)
    BY <2>1 DEF LookedUp
  <2> QED
    BY <2>3, <2>4 DEF FoundSoFar
<1>3. CASE \/ Store \/ Listen \/ Refuse \/ (\E id \in Ids \cup {"unknown"} : FetchAdapter(id))
           \/ (\E p \in Points : Ask(p)) \/ BeginZone \/ RayStep \/ MatchInside \/ MissInside
           \/ TestDistance \/ Respond
  BY <1>3 DEF Store, Listen, Refuse, FetchAdapter, Ask, BeginZone, RayStep, MatchInside,
              MissInside, RayDone, TestDistance, Respond, FoundSoFar
<1>4. CASE UNCHANGED vars
  <2>1. UNCHANGED <<zones, result, item, found, stage>>
    BY <1>4 DEF vars
  <2> QED
    BY <2>1 DEF CollectInv, FoundSoFar, LookedUp
<1> QED
  BY <1>1, <1>2, <1>3, <1>4 DEF Next

(* A sorted list, seen as the set of its elements: as many places as       *)
(* elements.                                                               *)
LEMMA SameSize ==
  ASSUME NEW f, NEW S, NEW T, IsFiniteSet(S),
         \A j \in S : f[j] \in T,
         \A i, j \in S : f[i] = f[j] => i = j,
         \A z \in T : \E j \in S : f[j] = z
  PROVE  Cardinality(S) = Cardinality(T)
<1> DEFINE g == [j \in S |-> f[j]]
<1>1. g \in [S -> T] /\ \A j \in S : g[j] = f[j]
  OBVIOUS
<1> HIDE DEF g
<1>2. g \in Injection(S, T)
  BY <1>1 DEF Injection, IsInjective
<1>3. g \in Surjection(S, T)
  BY <1>1 DEF Surjection
<1>4. ExistsBijection(S, T)
  BY <1>2, <1>3 DEF ExistsBijection, Bijection
<1> QED
  BY <1>4, FS_Bijection

(* When all results are looked up, they are the zones that match.          *)
LEMMA AllLookedUp ==
  ASSUME FilterInv, stage = "collect", NEW k \in DOMAIN Operators
  PROVE  Cardinality(LookedUp(k, Len(result) + 1))
           = Cardinality({z \in DOMAIN zones : /\ zones[z].id = Operators[k].zone
                                               /\ Matches(point, zones[z].polygon)})
<1> DEFINE S == LookedUp(k, Len(result) + 1)
           T == {z \in DOMAIN zones : /\ zones[z].id = Operators[k].zone
                                      /\ Matches(point, zones[z].polygon)}
<1>1. /\ Len(zones) \in Nat /\ zone = Len(zones) + 1 /\ Len(result) \in Nat
      /\ DOMAIN result = 1 .. Len(result) /\ DOMAIN zones = 1 .. Len(zones)
      /\ \A j \in 1 .. Len(result) : result[j] \in 1 .. Len(zones)
  <2>1. zones \in Seq([id : ZoneIds, polygon : Seq(Coordinates)]) /\ result \in Seq(1 .. Len(zones))
    BY ConfigurationsAssumption DEF FilterInv, LoopInv, Inv, TypeOK
  <2>2. zone = Len(zones) + 1
    BY DEF FilterInv, LoopInv, Inv, InLoop
  <2> QED
    BY <2>1, <2>2
<1>2. /\ \A i, j \in DOMAIN result : i < j => result[i] < result[j]
      /\ \A z \in 1 .. Len(zones) :
           (\E j \in DOMAIN result : result[j] = z) <=> Matches(point, zones[z].polygon)
  BY <1>1 DEF FilterInv, ResultIsFilter
<1>3. S = {j \in 1 .. Len(result) : zones[result[j]].id = Operators[k].zone}
  BY <1>1 DEF LookedUp
<1> HIDE DEF S
<1>4. IsFiniteSet(S)
  <2>1. IsFiniteSet(1 .. Len(result)) /\ S \subseteq 1 .. Len(result)
    BY <1>1, <1>3, FS_Interval
  <2> QED
    BY <2>1, FS_Subset
<1>5. \A j \in S : result[j] \in T
  BY <1>1, <1>2, <1>3
<1>6. \A i, j \in S : result[i] = result[j] => i = j
  <2> SUFFICES ASSUME NEW i \in S, NEW j \in S, result[i] = result[j], i # j
               PROVE  FALSE
    OBVIOUS
  <2>1. /\ i \in 1 .. Len(result) /\ j \in 1 .. Len(result)
        /\ result[i] \in 1 .. Len(zones) /\ result[j] \in 1 .. Len(zones)
    BY <1>1, <1>3
  <2>2. i < j \/ j < i
    BY <1>1, <2>1
  <2>3. result[i] < result[j] \/ result[j] < result[i]
    BY <1>1, <1>2, <2>1, <2>2
  <2> QED
    BY <1>1, <2>1, <2>3
<1>7. \A z \in T : \E j \in S : result[j] = z
  BY <1>1, <1>2, <1>3
<1> HIDE DEF T
<1>8. Cardinality(S) = Cardinality(T)
  BY <1>4, <1>5, <1>6, <1>7, SameSize
<1> QED
  BY <1>8 DEF S, T

LEMMA RespondStep ==
  ASSUME CollectInv, FilterInv, [Next]_vars, stage = "collect", stage' = "idle",
         NEW k \in DOMAIN Operators
  PROVE  Cardinality({i \in DOMAIN reply' : reply'[i] = k})
           = Cardinality({z \in DOMAIN zones : /\ zones[z].id = Operators[k].zone
                                               /\ Matches(point, zones[z].polygon)})
<1>1. Respond
  BY DEF Next, vars, Store, Listen, Refuse, FetchAdapter, Ask, BeginZone, RayStep, MatchInside,
         MissInside, RayDone, TestDistance, Found, Collect, Respond
<1>2. reply' = found /\ item = Len(result) + 1
  BY <1>1 DEF Respond
<1>3. Cardinality(Places(found, k)) = Cardinality(LookedUp(k, Len(result) + 1))
  BY <1>2 DEF CollectInv, FoundSoFar
<1> QED
  BY <1>2, <1>3, AllLookedUp DEF Places

(* GET /operators lists an operator as often as zones with its zone id     *)
(* match, however the operators of a zone are mixed with others in the     *)
(* configuration and however many zones share an id.                       *)
THEOREM ReplyComplete == Spec => ReplyIsComplete
<1>1. CollectInv /\ FilterInv /\ [Next]_vars
        => [stage = "collect" /\ stage' = "idle" =>
              \A k \in DOMAIN Operators :
                Cardinality({i \in DOMAIN reply' : reply'[i] = k})
                  = Cardinality({z \in DOMAIN zones : /\ zones[z].id = Operators[k].zone
                                                      /\ Matches(point, zones[z].polygon)})]_vars
  BY RespondStep
<1> QED
  BY <1>1, CollectInit, CollectStep, FilterInit, FilterStep, PTL DEF Spec, ReplyIsComplete

(* The map answers with the last operator of an id.                        *)
AdapterOf(id) ==
  \E k \in DOMAIN Operators :
    /\ reply' = <<k>> /\ Operators[k].id = id
    /\ \A m \in DOMAIN Operators : Operators[m].id = id => m <= k

AdapterIsLast ==
  [][\A id \in Ids : FetchAdapter(id) => AdapterOf(id)]_vars

(* GET /operators/{id}/adapter for an id of the configuration is never     *)
(* refused and answers with the last operator that has the id.             *)
THEOREM AdapterRight == Spec => AdapterIsLast
<1>1. ASSUME StoredInv, NEW id \in Ids, FetchAdapter(id)
      PROVE  AdapterOf(id)
  <2>1. stage = "idle" /\ reply' = <<byId[id]>>
    BY <1>1 DEF FetchAdapter
  <2>2. Stored = Len(Operators) /\ DOMAIN Operators = 1 .. Len(Operators) /\ Len(Operators) \in Nat
    BY <2>1, OperatorTypes DEF Stored
  <2>3. IsLast(byId[id], id, Len(Operators)) /\ byId[id] \in Nat
    BY <1>1, <2>2 DEF StoredInv, StoreInv, Inv, TypeOK
  <2>4. PICK m \in DOMAIN Operators : Operators[m].id = id
    BY DEF Ids
  <2>5. byId[id] # 0
    BY <2>2, <2>3, <2>4 DEF IsLast
  <2> QED
    BY <2>1, <2>2, <2>3, <2>5 DEF AdapterOf, IsLast
<1>2. StoredInv => [\A id \in Ids : FetchAdapter(id) => AdapterOf(id)]_vars
  BY <1>1
<1> QED
  BY <1>2, StoredInit, StoredStep, PTL DEF Spec, AdapterIsLast
=============================================================================
