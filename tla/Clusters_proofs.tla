-------------------------- MODULE Clusters_proofs --------------------------
(***************************************************************************)
(* What a reading comes to and what a controller is told of it.  First the *)
(* arithmetic of Measurement, for every voltage, every pair of references  *)
(* and every rising curve; then Clusters, for every deadband, charge curve *)
(* and number of readings of a boot.                                       *)
(***************************************************************************)
EXTENDS Clusters, Measurement, SequenceTheorems, WellFoundedInduction, TLAPS

(* The quotient of a division, times the divisor, is within one divisor of    *)
(* the number divided.                                                        *)
LEMMA DivBound ==
  ASSUME NEW n \in Int, NEW d \in Int, d > 0
  PROVE  n \div d \in Int /\ d * (n \div d) <= n /\ n < d * (n \div d) + d
OBVIOUS

(* A positive factor can be cancelled.                                        *)
LEMMA Cancel ==
  ASSUME NEW a \in Int, NEW b \in Int, NEW d \in Int, d > 0, d * a < d * b
  PROVE  a < b
OBVIOUS

(* Division keeps the order.                                                  *)
LEMMA DivRises ==
  ASSUME NEW n \in Int, NEW m \in Int, NEW d \in Int, d > 0, n <= m
  PROVE  n \div d <= m \div d
<1>1. /\ n \div d \in Int /\ m \div d \in Int
      /\ d * (n \div d) <= n /\ m < d * (m \div d) + d
  BY DivBound
<1>2. d * (n \div d) < d * ((m \div d) + 1)
  BY <1>1
<1>3. n \div d < (m \div d) + 1
  BY <1>1, <1>2, Cancel
<1>4. QED
  BY <1>1, <1>3

(* A multiple is divided without a rest.                                      *)
LEMMA DivMultiple ==
  ASSUME NEW a \in Int, NEW d \in Int, d > 0
  PROVE  (d * a) \div d = a
<1>1. /\ (d * a) \div d \in Int
      /\ d * ((d * a) \div d) <= d * a /\ d * a < d * ((d * a) \div d) + d
  <2>1. d * a \in Int
    OBVIOUS
  <2>2. QED
    BY <2>1, DivBound
<1>2. (d * a) \div d < a + 1
  <2>1. d * ((d * a) \div d) < d * (a + 1)
    BY <1>1
  <2>2. QED
    BY <1>1, <2>1, Cancel
<1>3. a < ((d * a) \div d) + 1
  <2>1. d * a < d * (((d * a) \div d) + 1)
    BY <1>1
  <2>2. QED
    BY <1>1, <2>1, Cancel
<1>4. QED
  BY <1>1, <1>2, <1>3

(* Division towards zero keeps the order as well.                             *)
LEMMA QuotientRises ==
  ASSUME NEW n \in Int, NEW m \in Int, NEW d \in Int, d > 0, n <= m
  PROVE  Quotient(n, d) \in Int /\ Quotient(n, d) <= Quotient(m, d)
<1>1. /\ n \div d \in Int /\ m \div d \in Int /\ (-n) \div d \in Int /\ (-m) \div d \in Int
      /\ 0 \div d = 0
  BY DivBound, DivMultiple
<1>2. CASE n < 0 /\ m < 0
  <2>1. (-m) \div d <= (-n) \div d
    BY DivRises
  <2>2. QED
    BY <1>1, <1>2, <2>1 DEF Quotient
<1>3. CASE n < 0 /\ m >= 0
  <2>1. 0 \div d <= (-n) \div d /\ 0 \div d <= m \div d
    BY <1>3, DivRises
  <2>2. QED
    BY <1>1, <1>3, <2>1 DEF Quotient
<1>4. CASE n >= 0
  <2>1. n \div d <= m \div d
    BY DivRises
  <2>2. QED
    BY <1>1, <1>4, <2>1 DEF Quotient
<1>5. QED
  BY <1>2, <1>3, <1>4

(* A multiple is divided without a rest towards zero, too.                    *)
LEMMA QuotientMultiple ==
  ASSUME NEW a \in Nat, NEW d \in Int, d > 0
  PROVE  Quotient(d * a, d) = a
<1>1. d * a >= 0
  OBVIOUS
<1>2. QED
  BY <1>1, DivMultiple DEF Quotient

-----------------------------------------------------------------------------
(* The soil.                                                                 *)

(* A moisture is a percentage, whatever the references are: also swapped or   *)
(* equal ones divide by nothing (soil_moisture_percent).                      *)
THEOREM MoistureIsPercentage ==
  ASSUME NEW mv \in Int, NEW dry \in Int, NEW wet \in Int
  PROVE  SoilMoisturePercent(mv, dry, wet) \in 0..100
<1>1. CASE dry <= wet
  BY <1>1 DEF SoilMoisturePercent
<1>2. CASE dry > wet
  <2>1. 100 * (dry - mv) \in Int /\ dry - wet \in Int /\ dry - wet > 0
    BY <1>2
  <2>2. Quotient(100 * (dry - mv), dry - wet) \in Int
    BY <2>1, QuotientRises
  <2>3. QED
    BY <1>2, <2>2 DEF SoilMoisturePercent, Clamp
<1>3. QED
  BY <1>1, <1>2

(* The dry reference reads as 0 and the wet one as 100 percent.               *)
THEOREM MoistureAtReferences ==
  ASSUME NEW dry \in Int, NEW wet \in Int, wet < dry
  PROVE  /\ SoilMoisturePercent(dry, dry, wet) = 0
         /\ SoilMoisturePercent(wet, dry, wet) = 100
<1> DEFINE span == dry - wet
<1>1. span \in Int /\ span > 0 /\ ~(dry <= wet)
  OBVIOUS
<1>2. Quotient(span * 0, span) = 0 /\ Quotient(span * 100, span) = 100
  BY <1>1, QuotientMultiple
<1>3. 100 * (dry - dry) = span * 0 /\ 100 * (dry - wet) = span * 100
  BY <1>1
<1>4. QED
  BY <1>1, <1>2, <1>3 DEF SoilMoisturePercent, Clamp

(* A higher voltage never reads as wetter soil.                               *)
THEOREM MoistureFalls ==
  ASSUME NEW v \in Int, NEW w \in Int, NEW dry \in Int, NEW wet \in Int, v <= w
  PROVE  SoilMoisturePercent(w, dry, wet) <= SoilMoisturePercent(v, dry, wet)
<1>1. CASE dry <= wet
  BY <1>1 DEF SoilMoisturePercent
<1>2. CASE dry > wet
  <2>1. /\ 100 * (dry - w) \in Int /\ 100 * (dry - v) \in Int
        /\ 100 * (dry - w) <= 100 * (dry - v)
        /\ dry - wet \in Int /\ dry - wet > 0
    BY <1>2
  <2>2. /\ Quotient(100 * (dry - w), dry - wet) <= Quotient(100 * (dry - v), dry - wet)
        /\ Quotient(100 * (dry - w), dry - wet) \in Int
        /\ Quotient(100 * (dry - v), dry - wet) \in Int
    BY <2>1, QuotientRises
  <2>3. QED
    BY <1>2, <2>2 DEF SoilMoisturePercent, Clamp
<1>3. QED
  BY <1>1, <1>2

-----------------------------------------------------------------------------
(* The battery.                                                              *)

(* A line between two points of a curve stays between their charges, rises,   *)
(* and meets its ends.                                                        *)
LEMMA LineRises ==
  ASSUME NEW from \in [mv : Int, permille : Nat], NEW to \in [mv : Int, permille : Nat],
         from.mv < to.mv, from.permille <= to.permille,
         NEW a \in Int, NEW b \in Int, from.mv <= a, a <= b, b <= to.mv
  PROVE  /\ OnLine(a, from, to) \in Int /\ OnLine(b, from, to) \in Int
         /\ OnLine(a, from, to) <= OnLine(b, from, to)
         /\ OnLine(from.mv, from, to) = from.permille
         /\ OnLine(to.mv, from, to) = to.permille
         /\ from.permille <= OnLine(a, from, to) /\ OnLine(b, from, to) <= to.permille
<1> DEFINE span == to.mv - from.mv
           rise == to.permille - from.permille
           q(x) == Quotient(rise * (x - from.mv), span)
<1>1. span \in Int /\ span > 0 /\ rise \in Nat /\ from.permille \in Nat /\ from.mv \in Int /\ to.mv \in Int
  OBVIOUS
<1>2. \A x, y \in Int : x <= y => rise * (x - from.mv) <= rise * (y - from.mv)
  BY <1>1
<1>3. \A x, y \in Int : x <= y => q(x) \in Int /\ q(x) <= q(y)
  <2>1. SUFFICES ASSUME NEW x \in Int, NEW y \in Int, x <= y PROVE q(x) \in Int /\ q(x) <= q(y)
    OBVIOUS
  <2>2. rise * (x - from.mv) \in Int /\ rise * (y - from.mv) \in Int
    BY <1>1
  <2>3. QED
    BY <1>1, <1>2, <2>1, <2>2, QuotientRises
<1>4. q(from.mv) = 0
  <2>1. rise * (from.mv - from.mv) = span * 0
    BY <1>1
  <2>2. QED
    BY <1>1, <2>1, QuotientMultiple
<1>5. q(to.mv) = rise
  <2>1. rise * (to.mv - from.mv) = span * rise
    BY <1>1
  <2>2. QED
    BY <1>1, <2>1, QuotientMultiple
<1>6. \A x : OnLine(x, from, to) = from.permille + q(x)
  BY <1>1 DEF OnLine
<1>7. q(a) \in Int /\ q(b) \in Int /\ q(a) <= q(b) /\ q(from.mv) <= q(a) /\ q(b) <= q(to.mv)
  BY <1>1, <1>3
<1> HIDE DEF q
<1>8. QED
  BY <1>1, <1>4, <1>5, <1>6, <1>7

(* A set of numbers has a least one.                                          *)
LEMMA Least ==
  ASSUME NEW T \in SUBSET Nat, T # {}
  PROVE  \E x \in T : \A y \in T : x <= y
<1> DEFINE R == {ss \in Nat \X Nat : ss[1] < ss[2]}
<1>1. IsWellFoundedOn(R, Nat)
  BY NatLessThanWellFounded DEF OpToRel
<1>2. PICK x \in T : \A y \in T : ~(<<y, x>> \in R)
  <2> HIDE DEF R
  <2>1. QED
    BY <1>1, WFMin
<1>3. ASSUME NEW y \in T PROVE x <= y
  <2>1. x \in Nat /\ y \in Nat
    OBVIOUS
  <2>2. ~(<<y, x>> \in R)
    BY <1>2
  <2>3. <<y, x>> \in Nat \X Nat /\ <<y, x>>[1] = y /\ <<y, x>>[2] = x
    BY <2>1
  <2>4. ~(y < x)
    BY <2>2, <2>3, Zenon
  <2>5. QED
    BY <2>1, <2>4
<1>4. QED
  BY <1>3

(* A rising curve has points, each with a voltage and a charge.               *)
LEMMA CurvePoints ==
  ASSUME NEW curve, Rising(curve)
  PROVE  /\ curve # <<>> /\ Len(curve) \in Nat \ {0}
         /\ \A i \in 1..Len(curve) : curve[i] \in [mv : Int, permille : Nat]
<1>1. curve \in Seq([mv : Int, permille : Nat]) /\ curve # <<>>
  BY DEF Rising
<1>2. Len(curve) \in Nat /\ Len(curve) # 0
  BY <1>1, EmptySeq, LenProperties
<1>3. \A i \in 1..Len(curve) : curve[i] \in [mv : Int, permille : Nat]
  BY <1>1, ElementOfSeq
<1>4. QED
  BY <1>1, <1>2, <1>3

(* The search through the windows of the curve finds the two points that a    *)
(* voltage lies between, so unwrap_or is never needed (battery_permille).     *)
LEMMA SegmentFound ==
  ASSUME NEW curve, Rising(curve), NEW mv \in Int, curve[1].mv < mv, mv < curve[Len(curve)].mv
  PROVE  /\ Segment(mv, curve) \in 1..(Len(curve) - 1)
         /\ curve[Segment(mv, curve)].mv <= mv
         /\ mv < curve[Segment(mv, curve) + 1].mv
<1> DEFINE T == {i \in 1..(Len(curve) - 1) : mv < curve[i + 1].mv}
<1>1. Len(curve) \in Nat \ {0} /\ \A i \in 1..Len(curve) : curve[i].mv \in Int
  BY CurvePoints
<1>2. Len(curve) # 1
  BY <1>1
<1>3. Len(curve) - 1 \in T
  BY <1>1, <1>2
<1>4. T \in SUBSET Nat
  OBVIOUS
<1>5. PICK i \in T : \A j \in T : i <= j
  <2> HIDE DEF T
  <2>1. QED
    BY <1>3, <1>4, Least
<1>6. IsSegment(i, mv, curve)
  <2>1. ASSUME NEW j \in 1..(i - 1) PROVE mv >= curve[j + 1].mv
    <3>1. j \in 1..(Len(curve) - 1) /\ j < i /\ j + 1 \in 1..Len(curve)
      BY <1>1
    <3>2. j \notin T
      BY <1>5, <3>1
    <3>3. QED
      BY <1>1, <3>1, <3>2
  <2>2. QED
    BY <2>1 DEF IsSegment
<1>7. IsSegment(Segment(mv, curve), mv, curve)
  BY <1>6 DEF Segment, IsSegment
<1>8. ASSUME NEW k \in 1..(Len(curve) - 1), IsSegment(k, mv, curve) PROVE curve[k].mv <= mv
  <2>1. CASE k = 1
    BY <1>1, <2>1
  <2>2. CASE k # 1
    <3>1. k - 1 \in 1..(k - 1) /\ (k - 1) + 1 = k
      BY <1>1, <2>2
    <3>2. mv >= curve[(k - 1) + 1].mv
      BY <1>8, <3>1 DEF IsSegment
    <3>3. QED
      BY <1>1, <3>1, <3>2
  <2>3. QED
    BY <2>1, <2>2
<1>9. QED
  BY <1>7, <1>8 DEF IsSegment

Between(i, mv, curve) ==
  /\ i \in 1..(Len(curve) - 1)
  /\ curve[i].mv <= mv /\ mv < curve[i + 1].mv

(* The charge is that of an end of the curve or of the line between two of    *)
(* its points.                                                                *)
LEMMA PermilleCases ==
  ASSUME NEW curve, Rising(curve), NEW mv \in Int
  PROVE  \/ mv <= curve[1].mv /\ BatteryPermille(mv, curve) = curve[1].permille
         \/ mv >= curve[Len(curve)].mv /\ BatteryPermille(mv, curve) = curve[Len(curve)].permille
         \/ \E i \in 1..(Len(curve) - 1) :
              Between(i, mv, curve) /\ BatteryPermille(mv, curve) = OnLine(mv, curve[i], curve[i + 1])
<1>1. curve # <<>> /\ Len(curve) \in Nat \ {0} /\ \A i \in 1..Len(curve) : curve[i].mv \in Int
  BY CurvePoints
<1>2. CASE mv <= curve[1].mv
  BY <1>1, <1>2 DEF BatteryPermille
<1>3. CASE mv > curve[1].mv /\ mv >= curve[Len(curve)].mv
  BY <1>1, <1>3 DEF BatteryPermille
<1>4. CASE curve[1].mv < mv /\ mv < curve[Len(curve)].mv
  <2>1. /\ Segment(mv, curve) \in 1..(Len(curve) - 1)
        /\ Between(Segment(mv, curve), mv, curve)
    BY <1>4, SegmentFound DEF Between
  <2>2. BatteryPermille(mv, curve)
          = OnLine(mv, curve[Segment(mv, curve)], curve[Segment(mv, curve) + 1])
    BY <1>1, <1>4 DEF BatteryPermille
  <2>3. QED
    BY <2>1, <2>2
<1>5. QED
  BY <1>1, <1>2, <1>3, <1>4

(* Points further up a rising curve have at least the charge, and of two      *)
(* voltages the higher one lies no further down.                              *)
LEMMA CurveOrder ==
  ASSUME NEW curve, Rising(curve), NEW i \in 1..Len(curve), NEW j \in 1..Len(curve)
  PROVE  /\ i <= j => curve[i].permille <= curve[j].permille /\ curve[i].mv <= curve[j].mv
         /\ i < j => curve[i].mv < curve[j].mv
<1>1. /\ i \in Int /\ j \in Int /\ curve[i].permille \in Int /\ curve[i].mv \in Int
      /\ curve[j].permille \in Int /\ curve[j].mv \in Int
  BY CurvePoints
<1>2. i < j => curve[i].mv < curve[j].mv /\ curve[i].permille <= curve[j].permille
  BY DEF Rising
<1>3. CASE i = j
  BY <1>1, <1>3
<1>4. CASE i # j
  BY <1>1, <1>2, <1>4
<1>5. QED
  BY <1>3, <1>4

(* Between two points of a rising curve the line has the properties of        *)
(* LineRises.                                                                 *)
LEMMA SegmentRises ==
  ASSUME NEW curve, Rising(curve), NEW i \in 1..(Len(curve) - 1),
         NEW a \in Int, NEW b \in Int, curve[i].mv <= a, a <= b, b <= curve[i + 1].mv
  PROVE  /\ OnLine(a, curve[i], curve[i + 1]) \in Int /\ OnLine(b, curve[i], curve[i + 1]) \in Int
         /\ OnLine(a, curve[i], curve[i + 1]) <= OnLine(b, curve[i], curve[i + 1])
         /\ OnLine(curve[i].mv, curve[i], curve[i + 1]) = curve[i].permille
         /\ curve[i].permille <= OnLine(a, curve[i], curve[i + 1])
         /\ OnLine(b, curve[i], curve[i + 1]) <= curve[i + 1].permille
<1>1. i \in 1..Len(curve) /\ i + 1 \in 1..Len(curve) /\ i < i + 1 /\ i <= i + 1
  BY CurvePoints
<1>2. curve[i].mv < curve[i + 1].mv /\ curve[i].permille <= curve[i + 1].permille
  BY <1>1, CurveOrder
<1>3. curve[i] \in [mv : Int, permille : Nat] /\ curve[i + 1] \in [mv : Int, permille : Nat]
  BY <1>1, CurvePoints
<1>4. QED
  BY <1>2, <1>3, LineRises

(* The charge never leaves the range of the curve (battery_permille).         *)
THEOREM ChargeOnCurve ==
  ASSUME NEW curve, Rising(curve), NEW mv \in Int
  PROVE  /\ BatteryPermille(mv, curve) \in Nat
         /\ curve[1].permille <= BatteryPermille(mv, curve)
         /\ BatteryPermille(mv, curve) <= curve[Len(curve)].permille
<1> DEFINE n == Len(curve)
<1>1. /\ 1 \in 1..n /\ n \in 1..n /\ 1 <= n
      /\ curve[1].permille \in Nat /\ curve[n].permille \in Nat
  BY CurvePoints
<1>2. curve[1].permille <= curve[n].permille
  BY <1>1, CurveOrder
<1>3. CASE BatteryPermille(mv, curve) \in {curve[1].permille, curve[n].permille}
  BY <1>1, <1>2, <1>3
<1>4. ASSUME NEW i \in 1..(n - 1), Between(i, mv, curve),
             BatteryPermille(mv, curve) = OnLine(mv, curve[i], curve[i + 1])
      PROVE  /\ BatteryPermille(mv, curve) \in Nat
             /\ curve[1].permille <= BatteryPermille(mv, curve)
             /\ BatteryPermille(mv, curve) <= curve[n].permille
  <2>1. /\ i \in 1..n /\ i + 1 \in 1..n /\ 1 <= i /\ i + 1 <= n
        /\ curve[i].permille \in Nat /\ curve[i + 1].permille \in Nat
        /\ curve[i].mv \in Int /\ curve[i + 1].mv \in Int
    BY CurvePoints
  <2>2. curve[1].permille <= curve[i].permille /\ curve[i + 1].permille <= curve[n].permille
    BY <1>1, <2>1, CurveOrder
  <2>3. curve[i].mv <= mv /\ mv <= mv /\ mv <= curve[i + 1].mv
    BY <1>4, <2>1 DEF Between
  <2>4. /\ OnLine(mv, curve[i], curve[i + 1]) \in Int
        /\ curve[i].permille <= OnLine(mv, curve[i], curve[i + 1])
        /\ OnLine(mv, curve[i], curve[i + 1]) <= curve[i + 1].permille
    BY <2>3, SegmentRises
  <2>5. QED
    BY <1>1, <1>4, <2>1, <2>2, <2>4
<1>5. QED
  BY <1>3, <1>4, PermilleCases

(* A curve without a second point has one point.                              *)
LEMMA OnlyOne ==
  ASSUME NEW k \in Nat \ {0}, ~(1 < k)
  PROVE  k = 1
  OBVIOUS

(* A higher voltage never reads as an emptier cell.                           *)
THEOREM ChargeRises ==
  ASSUME NEW curve, Rising(curve), NEW a \in Int, NEW b \in Int, a <= b
  PROVE  BatteryPermille(a, curve) <= BatteryPermille(b, curve)
<1> DEFINE n == Len(curve)
           B(x) == BatteryPermille(x, curve)
<1>1. /\ B(a) \in Nat /\ B(b) \in Nat
      /\ curve[1].permille <= B(b) /\ B(a) <= curve[n].permille
  BY ChargeOnCurve
<1>2. n \in Nat \ {0} /\ \A i \in 1..n : curve[i].mv \in Int /\ curve[i].permille \in Nat
  BY CurvePoints
<1>3. CASE B(a) = curve[1].permille \/ B(b) = curve[n].permille
  BY <1>1, <1>3
<1>4. CASE a >= curve[n].mv
  <2>1. b >= curve[n].mv
    BY <1>2, <1>4
  <2>2. ASSUME NEW i \in 1..(n - 1) PROVE ~Between(i, b, curve)
    <3>1. i + 1 \in 1..n /\ i + 1 <= n /\ n \in 1..n
      BY <1>2
    <3>2. curve[i + 1].mv <= curve[n].mv
      BY <3>1, CurveOrder
    <3>3. QED
      BY <1>2, <2>1, <3>1, <3>2 DEF Between
  <2>3. CASE B(b) = curve[n].permille
    BY <1>1, <2>3
  <2>4. CASE b <= curve[1].mv /\ B(b) = curve[1].permille
    <3>1. 1 \in 1..n /\ n \in 1..n
      BY <1>2
    <3>2. ~(1 < n)
      <4>1. 1 < n => curve[1].mv < curve[n].mv
        BY <3>1, CurveOrder
      <4>2. QED
        BY <1>2, <2>1, <2>4, <3>1, <4>1
    <3>3. n = 1
      <4>1. n \in Nat \ {0}
        BY <1>2
      <4>2. QED
        BY <3>2, <4>1, OnlyOne
    <3>4. QED
      BY <1>1, <2>4, <3>3
  <2>5. QED
    BY <2>2, <2>3, <2>4, PermilleCases
<1>5. ASSUME NEW i \in 1..(n - 1), Between(i, a, curve), B(a) = OnLine(a, curve[i], curve[i + 1]),
             NEW j \in 1..(n - 1), Between(j, b, curve), B(b) = OnLine(b, curve[j], curve[j + 1])
      PROVE  B(a) <= B(b)
  <2>1. /\ i \in 1..n /\ i + 1 \in 1..n /\ j \in 1..n /\ j + 1 \in 1..n
        /\ i \in Int /\ j \in Int
    BY <1>2
  <2>2. /\ curve[i].mv <= a /\ a < curve[i + 1].mv /\ curve[j].mv <= b /\ b < curve[j + 1].mv
    BY <1>5 DEF Between
  <2>3. CASE j < i
    <3>1. j + 1 <= i
      BY <2>1, <2>3
    <3>2. curve[j + 1].mv <= curve[i].mv
      BY <2>1, <3>1, CurveOrder
    <3>3. QED
      BY <1>2, <2>1, <2>2, <3>2
  <2>4. CASE i = j
    <3>1. b <= curve[i + 1].mv
      BY <1>2, <2>1, <2>2, <2>4
    <3>2. OnLine(a, curve[i], curve[i + 1]) <= OnLine(b, curve[i], curve[i + 1])
      BY <2>2, <3>1, SegmentRises
    <3>3. QED
      BY <1>5, <2>4, <3>2
  <2>5. CASE i < j
    <3>1. i + 1 <= j
      BY <2>1, <2>5
    <3>2. curve[i + 1].permille <= curve[j].permille
      BY <2>1, <3>1, CurveOrder
    <3>3. a <= a /\ a <= curve[i + 1].mv /\ b <= b /\ b <= curve[j + 1].mv
      BY <1>2, <2>1, <2>2
    <3>4. OnLine(a, curve[i], curve[i + 1]) <= curve[i + 1].permille
      BY <2>2, <3>3, SegmentRises
    <3>5. curve[j].permille <= OnLine(b, curve[j], curve[j + 1])
      BY <2>2, <3>3, SegmentRises
    <3>6. QED
      BY <1>1, <1>2, <1>5, <2>1, <3>2, <3>4, <3>5
  <2>6. QED
    BY <2>1, <2>3, <2>4, <2>5
<1>6. CASE b <= curve[1].mv
  <2>1. a <= curve[1].mv
    BY <1>2, <1>6
  <2>2. CASE a = curve[1].mv
    <3>1. curve[1].mv \in Int
      BY <1>2
    <3>2. a = b
      BY <1>6, <2>2, <3>1
    <3>3. QED
      BY <1>1, <3>2
  <2>3. CASE a < curve[1].mv
    <3>1. ASSUME NEW i \in 1..(n - 1) PROVE ~Between(i, a, curve)
      <4>1. 1 \in 1..n /\ i \in 1..n /\ 1 <= i
        BY <1>2
      <4>2. curve[1].mv <= curve[i].mv
        BY <4>1, CurveOrder
      <4>3. QED
        BY <1>2, <2>3, <4>1, <4>2 DEF Between
    <3>2. ~(a >= curve[n].mv)
      <4>1. 1 \in 1..n /\ n \in 1..n /\ 1 <= n
        BY <1>2
      <4>2. curve[1].mv <= curve[n].mv
        BY <4>1, CurveOrder
      <4>3. QED
        BY <1>2, <2>3, <4>1, <4>2
    <3>3. B(a) = curve[1].permille
      BY <3>1, <3>2, PermilleCases
    <3>4. QED
      BY <1>3, <3>3
  <2>4. QED
    BY <1>2, <2>1, <2>2, <2>3
<1>7. QED
  BY <1>3, <1>4, <1>5, <1>6, PermilleCases

(* At a point of the curve the charge is the point's.                         *)
THEOREM ChargeAtPoints ==
  ASSUME NEW curve, Rising(curve), NEW i \in 1..Len(curve)
  PROVE  BatteryPermille(curve[i].mv, curve) = curve[i].permille
<1> DEFINE n == Len(curve)
           mv == curve[i].mv
<1>1. n \in Nat \ {0} /\ mv \in Int /\ \A k \in 1..n : curve[k].mv \in Int
  BY CurvePoints
<1>2. 1 \in 1..n /\ n \in 1..n
  BY <1>1
<1>3. ASSUME mv <= curve[1].mv, BatteryPermille(mv, curve) = curve[1].permille
      PROVE  BatteryPermille(mv, curve) = curve[i].permille
  <2>1. ~(1 < i)
    BY <1>1, <1>2, <1>3, CurveOrder
  <2>2. QED
    BY <1>3, <2>1
<1>4. ASSUME mv >= curve[n].mv, BatteryPermille(mv, curve) = curve[n].permille
      PROVE  BatteryPermille(mv, curve) = curve[i].permille
  <2>1. ~(i < n)
    BY <1>1, <1>2, <1>4, CurveOrder
  <2>2. QED
    BY <1>1, <1>4, <2>1
<1>5. ASSUME NEW k \in 1..(n - 1), Between(k, mv, curve),
             BatteryPermille(mv, curve) = OnLine(mv, curve[k], curve[k + 1])
      PROVE  BatteryPermille(mv, curve) = curve[i].permille
  <2>1. k \in 1..n /\ k + 1 \in 1..n /\ k \in Int /\ i \in Int
    BY <1>1
  <2>2. curve[k].mv <= mv /\ mv < curve[k + 1].mv
    BY <1>5 DEF Between
  <2>3. ~(i < k)
    BY <1>1, <2>1, <2>2, CurveOrder
  <2>4. ~(k + 1 <= i)
    BY <1>1, <2>1, <2>2, CurveOrder
  <2>5. i = k
    BY <2>1, <2>3, <2>4
  <2>6. mv <= mv /\ mv <= curve[k + 1].mv
    BY <1>1, <2>1, <2>2
  <2>7. OnLine(curve[k].mv, curve[k], curve[k + 1]) = curve[k].permille
    BY <1>1, <2>2, <2>6, SegmentRises
  <2>8. QED
    BY <1>5, <2>5, <2>7
<1>6. QED
  BY <1>1, <1>3, <1>4, <1>5, PermilleCases

-----------------------------------------------------------------------------
(* The clusters. *)

\* A wait of a run loop is over once for each report at the most, and a reading
\* reports each value once at the most.
CountsInStep ==
  /\ turn = "battery" => batteryVer < readings
  /\ soilNotes <= soilVer
  /\ soilChanged => soilNotes < soilVer

\* No controller knows a version that is still to come.
VersionsBehind ==
  /\ toldVer["soil"] # Unread => toldVer["soil"] \in Nat /\ toldVer["soil"] <= soilVer
  /\ toldVer["battery"] # Unread => toldVer["battery"] \in Nat /\ toldVer["battery"] <= batteryVer

\* The cell lies in the band of the readings, and it moves only when the band is wide.
CellInBand ==
  /\ soil = Nothing <=> soilVer = 0
  /\ soil = Nothing <=> low = Unread
  /\ soil = Nothing <=> high = Unread
  /\ soil # Nothing => low <= soil /\ soil <= high
  /\ soilVer > 1 => high - low >= SoilDelta

TypeInv == TypeOK /\ CountsInStep

(* No value is neither a number nor a reading (Clusters, ClusterTuning).      *)
LEMMA NoValue ==
  /\ Nothing \notin Int /\ Unread \notin Int /\ Nothing # Unread
  /\ \A r \in Readings : r # Nothing /\ r # Unread
BY ClusterTuning DEF Readings

(* What SoilMeasurementHandler::report does to the cell, whichever way it     *)
(* decides.                                                                   *)
LEMMA SoilReported ==
  ASSUME NEW percent \in Percents, soil \in Percents \cup {Nothing}, soilVer \in Nat, ReportSoil(percent)
  PROVE  /\ soil' \in Percents
         /\ soilVer' \in {soilVer, soilVer + 1}
         /\ Distance(soil', percent) < SoilDelta
         /\ \/ soil' = percent /\ soilVer' = soilVer + 1 /\ soilChanged' = TRUE
               /\ (soil # Nothing => Distance(soil, percent) >= SoilDelta)
            \/ soil # Nothing /\ UNCHANGED <<soil, soilVer, soilChanged>>
<1>1. Percents \subseteq Int /\ SoilDelta \in Nat \ {0}
  BY ClusterTuning
<1>2. CASE MovedEnough(soil, percent, SoilDelta)
  BY <1>1, <1>2 DEF ReportSoil, MovedEnough, Distance
<1>3. CASE ~MovedEnough(soil, percent, SoilDelta)
  BY <1>1, <1>3 DEF ReportSoil, MovedEnough, Distance
<1>4. QED
  BY <1>2, <1>3

(* The estimate of a voltage is no reading, or the reading of that voltage.   *)
LEMMA Estimated ==
  ASSUME NEW mv \in Voltages
  PROVE  \/ Estimate(mv) = Nothing
         \/ /\ Estimate(mv) \in Readings /\ Estimate(mv) # Nothing
            /\ Estimate(mv).rest_mv = mv /\ Estimate(mv).percent = Charge[mv]
<1>1. Charge[mv] \in 0..100
  BY ClusterTuning
<1>2. [percent |-> Charge[mv], rest_mv |-> mv] \in Readings
  BY <1>1 DEF Readings
<1>3. QED
  BY <1>2, NoValue DEF Estimate

(* What PowerSourceHandler::report does to the cell, whichever way it decides.*)
LEMMA BatteryReported ==
  ASSUME NEW mv \in Voltages, battery \in Readings \cup {Nothing}, batteryVer \in Nat,
         ReportBattery(Estimate(mv))
  PROVE  /\ battery' \in Readings \cup {Nothing}
         /\ battery' = Nothing <=> Estimate(mv) = Nothing
         /\ battery' # Nothing => Distance(battery'.rest_mv, mv) < BatteryDelta
         /\ \/ battery' = Estimate(mv) /\ batteryVer' = batteryVer + 1 /\ batteryChanged' = TRUE
            \/ UNCHANGED <<battery, batteryVer, batteryChanged>>
<1> DEFINE reading == Estimate(mv)
<1>1. Voltages \subseteq Int /\ BatteryDelta \in Nat \ {0}
  BY ClusterTuning
<1>2. Nothing \notin Int
  BY NoValue
<1>3. battery # Nothing => battery.rest_mv \in Voltages
  BY DEF Readings
<1>4. CASE BatteryNews(reading)
  <2>1. battery' = reading /\ batteryVer' = batteryVer + 1 /\ batteryChanged' = TRUE
    BY <1>4 DEF ReportBattery
  <2>2. reading # Nothing => Distance(reading.rest_mv, mv) < BatteryDelta
    BY <1>1, Estimated DEF Distance
  <2>3. QED
    BY <2>1, <2>2, Estimated
<1>5. CASE ~BatteryNews(reading)
  <2>1. UNCHANGED <<battery, batteryVer, batteryChanged>>
    BY <1>5 DEF ReportBattery
  <2>2. CASE reading = Nothing
    BY <2>1, <2>2, <1>5 DEF BatteryNews
  <2>3. CASE reading # Nothing
    <3>1. reading.rest_mv = mv
      BY <2>3, Estimated
    <3>2. ~MovedEnough(IF battery = Nothing THEN Nothing ELSE battery.rest_mv, mv, BatteryDelta)
      BY <2>3, <3>1, <1>5 DEF BatteryNews
    <3>3. battery # Nothing
      BY <3>2 DEF MovedEnough
    <3>4. ~(Distance(battery.rest_mv, mv) >= BatteryDelta)
      BY <3>2, <3>3 DEF MovedEnough
    <3>5. battery.rest_mv \in Int /\ mv \in Int
      BY <3>3, <1>1, <1>3
    <3>6. Distance(battery.rest_mv, mv) \in Int
      BY <3>5 DEF Distance
    <3>7. Distance(battery.rest_mv, mv) < BatteryDelta
      BY <3>4, <3>6, <1>1
    <3>8. QED
      BY <2>1, <2>3, <3>3, <3>7
  <2>4. QED
    BY <2>2, <2>3
<1>6. QED
  BY <1>4, <1>5

-----------------------------------------------------------------------------
(* Types and counts.                                                         *)

(* The cells, signals and counts start inside their types.                    *)
LEMMA TypeInit == Init => TypeInv
<1>1. SUFFICES ASSUME Init PROVE TypeInv
  OBVIOUS
<1>2. DOMAIN told = Attributes /\ DOMAIN toldVer = {"soil", "battery"}
  BY <1>1 DEF Init, NoVersion
<1>3. /\ soilVer \in 0..readings /\ batteryVer \in 0..readings /\ soilNotes \in 0..readings
      /\ readings \in Nat /\ soilNotes <= soilVer
  BY <1>1 DEF Init
<1>4. turn # "battery" /\ ~soilChanged
  BY <1>1 DEF Init
<1>5. TypeOK
  BY <1>1, <1>2, <1>3 DEF Init, TypeOK
<1>6. QED
  BY <1>3, <1>4, <1>5 DEF TypeInv, CountsInStep

(* Every step of the sampling loop, the run loops, the stack and the          *)
(* controller keeps the types, and a signal still stands for a new version.   *)
LEMMA TypeStep == TypeInv /\ [Next]_vars => TypeInv'
<1>1. SUFFICES ASSUME TypeInv, [Next]_vars PROVE TypeInv'
  OBVIOUS
<1> USE DEF TypeInv, TypeOK, CountsInStep
<1>2. CASE SampleSoil
  <2>1. PICK percent \in Percents :
          /\ ReportSoil(percent)
          /\ lastSoil' = percent
          /\ low' = IF low = Unread \/ percent < low THEN percent ELSE low
          /\ high' = IF high = Unread \/ percent > high THEN percent ELSE high
    BY <1>2 DEF SampleSoil
  <2>2. /\ turn = "soil" /\ turn' = "battery" /\ readings' = readings + 1
        /\ UNCHANGED <<battery, batteryVer, batteryChanged, running, subscribed, dirty, told, toldVer,
                       lastBattery, soilNotes>>
    BY <1>2 DEF SampleSoil
  <2>3. soilVer \in Nat /\ soilNotes \in Nat /\ readings \in Nat /\ batteryVer \in Nat
    BY <1>1
  <2>4. /\ soil' \in Percents
        /\ \/ soilVer' = soilVer + 1 /\ soilChanged' = TRUE
           \/ UNCHANGED <<soil, soilVer, soilChanged>>
    BY <1>1, <2>1, <2>3, SoilReported
  <2>5. low' \in Percents \cup {Unread} /\ high' \in Percents \cup {Unread} /\ lastSoil' \in Percents
    BY <1>1, <2>1
  <2>6. /\ soilVer' \in 0..readings' /\ soilNotes' \in 0..readings' /\ batteryVer' \in 0..readings'
        /\ soilNotes' <= soilVer' /\ batteryVer' < readings' /\ readings' \in Nat
    BY <1>1, <2>2, <2>3, <2>4
  <2>7. soilChanged' \in BOOLEAN /\ (soilChanged' => soilNotes' < soilVer')
    <3>1. CASE soilVer' = soilVer + 1 /\ soilChanged' = TRUE
      BY <1>1, <2>2, <2>3, <3>1
    <3>2. CASE UNCHANGED <<soil, soilVer, soilChanged>>
      BY <1>1, <2>2, <3>2
    <3>3. QED
      BY <2>4, <3>1, <3>2
  <2>8. QED
    BY <1>1, <2>2, <2>4, <2>5, <2>6, <2>7
<1>3. CASE SampleBattery
  <2>1. PICK mv \in Voltages :
          /\ ReportBattery(Estimate(mv))
          /\ lastBattery' = IF Estimate(mv) = Nothing THEN Nothing ELSE mv
    BY <1>3 DEF SampleBattery
  <2>2. /\ turn = "battery" /\ turn' = "soil"
        /\ UNCHANGED <<soil, soilVer, soilChanged, running, subscribed, dirty, told, toldVer,
                       lastSoil, low, high, soilNotes, readings>>
    BY <1>3 DEF SampleBattery
  <2>3. batteryVer \in Nat /\ readings \in Nat /\ batteryVer < readings
    BY <1>1, <2>2
  <2>4. /\ battery' \in Readings \cup {Nothing}
        /\ \/ batteryVer' = batteryVer + 1 /\ batteryChanged' = TRUE
           \/ UNCHANGED <<battery, batteryVer, batteryChanged>>
    BY <1>1, <2>1, <2>3, BatteryReported
  <2>5. batteryVer' \in 0..readings' /\ batteryChanged' \in BOOLEAN
    <3>1. CASE batteryVer' = batteryVer + 1 /\ batteryChanged' = TRUE
      BY <2>2, <2>3, <3>1
    <3>2. CASE UNCHANGED <<battery, batteryVer, batteryChanged>>
      BY <1>1, <2>2, <3>2
    <3>3. QED
      BY <2>4, <3>1, <3>2
  <2>6. QED
    BY <1>1, <2>1, <2>2, <2>4, <2>5
<1>4. CASE StartRunning
  BY <1>1, <1>4 DEF StartRunning, cells, past
<1>5. CASE RunSoil
  <2>1. /\ soilChanged /\ soilChanged' = FALSE /\ soilNotes' = soilNotes + 1
        /\ UNCHANGED <<turn, soil, soilVer, battery, batteryVer, batteryChanged, running, subscribed, told,
                       toldVer, lastSoil, lastBattery, low, high, readings>>
    BY <1>5 DEF RunSoil
  <2>2. dirty' \subseteq Notified
    BY <1>1, <1>5 DEF RunSoil, Notify, Notified
  <2>3. soilNotes < soilVer /\ soilVer \in 0..readings /\ soilNotes \in Nat /\ readings \in Nat
    BY <1>1, <2>1
  <2>4. soilNotes' \in 0..readings' /\ soilNotes' <= soilVer'
    BY <2>1, <2>3
  <2>5. QED
    BY <1>1, <2>1, <2>2, <2>4
<1>6. CASE RunBattery
  <2>1. dirty' \subseteq Notified
    BY <1>1, <1>6 DEF RunBattery, Notify, Notified
  <2>2. QED
    BY <1>1, <1>6, <2>1 DEF RunBattery, past
<1>7. CASE Subscribe
  <2>1. /\ subscribed' = TRUE /\ dirty' = {} /\ DOMAIN told' = Attributes
        /\ DOMAIN toldVer' = {"soil", "battery"}
    BY <1>7 DEF Subscribe
  <2>2. QED
    BY <1>1, <1>7, <2>1 DEF Subscribe, cells, past
<1>8. CASE Push
  <2>1. dirty' \subseteq Notified /\ DOMAIN told' = Attributes
    BY <1>1, <1>8 DEF Push
  <2>2. QED
    BY <1>1, <1>8, <2>1 DEF Push, cells, past
<1>9. CASE Read
  <2>1. DOMAIN told' = Attributes /\ DOMAIN toldVer' = {"soil", "battery"}
    BY <1>1, <1>9 DEF Read
  <2>2. QED
    BY <1>1, <1>9, <2>1 DEF Read, cells, past
<1>10. CASE Reboot
  <2>1. DOMAIN told' = Attributes /\ DOMAIN toldVer' = {"soil", "battery"}
    BY <1>1, <1>10 DEF Reboot, NoVersion
  <2>2. /\ soilVer' \in 0..readings' /\ batteryVer' \in 0..readings' /\ soilNotes' \in 0..readings'
        /\ readings' \in Nat /\ soilNotes' <= soilVer'
    BY <1>10 DEF Reboot
  <2>3. turn' # "battery" /\ ~soilChanged'
    BY <1>10 DEF Reboot
  <2>4. TypeOK'
    BY <1>10, <2>1, <2>2 DEF Reboot
  <2>5. QED
    BY <2>2, <2>3, <2>4
<1>11. CASE UNCHANGED vars
  BY <1>1, <1>11 DEF vars, cells, past
<1>12. QED
  BY <1>1, <1>2, <1>3, <1>4, <1>5, <1>6, <1>7, <1>8, <1>9, <1>10, <1>11 DEF Next

(* The cells, their data versions and their signals keep their types; no      *)
(* version and no notification counts more than the readings.                 *)
THEOREM ClusterTypes == Spec => []TypeOK
<1>1. TypeInv => TypeOK
  BY DEF TypeInv
<1>2. QED
  BY <1>1, TypeInit, TypeStep, PTL DEF Spec

-----------------------------------------------------------------------------
(* The deadband.                                                             *)

(* A report leaves what is served within the deadband, and nothing else       *)
(* touches it (SoilMeasurementHandler::report, PowerSourceHandler::report).   *)
LEMMA ServedStep == TypeInv /\ ServedWithinDeadband /\ [Next]_vars => ServedWithinDeadband'
<1>1. SUFFICES ASSUME TypeInv, ServedWithinDeadband, [Next]_vars PROVE ServedWithinDeadband'
  OBVIOUS
<1>2. soilVer \in Nat /\ batteryVer \in Nat /\ soil \in Percents \cup {Nothing} /\ battery \in Readings \cup {Nothing}
  BY <1>1 DEF TypeInv, TypeOK
<1>3. CASE SampleSoil
  <2>1. PICK percent \in Percents : ReportSoil(percent) /\ lastSoil' = percent
    BY <1>3 DEF SampleSoil
  <2>2. UNCHANGED <<battery, lastBattery>>
    BY <1>3 DEF SampleSoil
  <2>3. soil' \in Percents /\ Distance(soil', percent) < SoilDelta
    BY <1>2, <2>1, SoilReported
  <2>4. soil' # Nothing
    BY <2>3, NoValue, ClusterTuning
  <2>5. QED
    BY <1>1, <2>1, <2>2, <2>3, <2>4 DEF ServedWithinDeadband, Distance
<1>4. CASE SampleBattery
  <2>1. PICK mv \in Voltages :
          /\ ReportBattery(Estimate(mv))
          /\ lastBattery' = IF Estimate(mv) = Nothing THEN Nothing ELSE mv
    BY <1>4 DEF SampleBattery
  <2>2. UNCHANGED <<soil, lastSoil>>
    BY <1>4 DEF SampleBattery
  <2>3. /\ battery' = Nothing <=> Estimate(mv) = Nothing
        /\ battery' # Nothing => Distance(battery'.rest_mv, mv) < BatteryDelta
        /\ battery' = Estimate(mv) \/ battery' = battery
    BY <1>2, <2>1, BatteryReported
  <2>4. mv # Nothing /\ mv # Unread
    BY NoValue, ClusterTuning
  <2>5. /\ lastSoil' # Unread => soil' # Nothing /\ Distance(soil', lastSoil') < SoilDelta
    BY <1>1, <2>2 DEF ServedWithinDeadband, Distance
  <2>6. lastBattery' # Unread => (battery' = Nothing <=> lastBattery' = Nothing)
    BY <2>1, <2>3, <2>4
  <2>7. lastBattery' \notin {Unread, Nothing} => Distance(battery'.rest_mv, lastBattery') < BatteryDelta
    BY <2>1, <2>3, <2>4
  <2>8. battery' # Nothing => battery'.percent = Charge[battery'.rest_mv]
    BY <1>1, <2>3, Estimated DEF ServedWithinDeadband
  <2>9. QED
    BY <2>5, <2>6, <2>7, <2>8 DEF ServedWithinDeadband
<1>5. CASE Reboot
  <2>1. lastSoil' = Unread /\ lastBattery' = Unread /\ battery' = Nothing
    BY <1>5 DEF Reboot
  <2>2. QED
    BY <2>1 DEF ServedWithinDeadband
<1>6. CASE UNCHANGED <<soil, battery, lastSoil, lastBattery>>
  BY <1>1, <1>6 DEF ServedWithinDeadband, Distance
<1>7. QED
  <2>1. StartRunning \/ RunSoil \/ RunBattery \/ Subscribe \/ Push \/ Read \/ UNCHANGED vars
          => UNCHANGED <<soil, battery, lastSoil, lastBattery>>
    BY DEF StartRunning, RunSoil, RunBattery, Subscribe, Push, Read, vars, cells, past
  <2>2. QED
    BY <1>1, <1>3, <1>4, <1>5, <1>6, <2>1 DEF Next

(* However the readings run, the clusters serve a value within the deadband   *)
(* of the last reading, and the charge that belongs to the voltage.           *)
THEOREM DeadbandTheorem == Spec => []ServedWithinDeadband
<1>1. Init => ServedWithinDeadband
  BY DEF Init, ServedWithinDeadband
<1>2. QED
  BY <1>1, ServedStep, TypeInit, TypeStep, PTL DEF Spec

-----------------------------------------------------------------------------
(* The way to the subscriber.                                                *)

(* A report to the subscriber is a value that a read returns.                 *)
LEMMA ToldIsTracked ==
  ASSUME TypeInv, NothingForgotten, Push
  PROVE  NothingForgotten'
<1>1. PICK a \in dirty :
        /\ dirty' = dirty \ {a}
        /\ told' = [told EXCEPT ![a] = Value(a)]
        /\ UNCHANGED <<turn, cells, running, subscribed, toldVer, past>>
  BY DEF Push
<1>2. \A b : Value(b)' = Value(b)
  BY <1>1 DEF Value, cells
<1>3. \A b : told[b] = Value(b) \/ b \in dirty => told'[b] = Value(b)' \/ b \in dirty'
  <2>1. SUFFICES ASSUME NEW b, told[b] = Value(b) \/ b \in dirty
                 PROVE  told'[b] = Value(b) \/ b \in dirty'
    BY <1>2
  <2>2. CASE b = a
    <3>1. a \in DOMAIN told
      BY <1>1 DEF TypeInv, TypeOK, Notified, Attributes, SoilAttributes, BatteryAttributes
    <3>2. QED
      BY <1>1, <2>2, <3>1
  <2>3. CASE b # a
    BY <1>1, <2>1, <2>3
  <2>4. QED
    BY <2>2, <2>3
<1>4. QED
  BY <1>1, <1>3 DEF NothingForgotten, cells

(* What is served changes only with a signal, and a signal is taken only for  *)
(* a notification of each attribute that may have changed.                    *)
LEMMA NothingForgottenStep == TypeInv /\ NothingForgotten /\ [Next]_vars => NothingForgotten'
<1>1. SUFFICES ASSUME TypeInv, NothingForgotten, [Next]_vars PROVE NothingForgotten'
  OBVIOUS
<1>a. ASSUME NEW a \in Notified \cap SoilAttributes, soil' = soil PROVE Value(a)' = Value(a)
  BY <1>a DEF Value, SoilAttributes
<1>b. ASSUME NEW a \in Notified \cap BatteryAttributes, battery' = battery PROVE Value(a)' = Value(a)
  BY <1>b DEF Value, BatteryAttributes
<1>2. CASE SampleSoil
  <2>1. PICK percent \in Percents : ReportSoil(percent)
    BY <1>2 DEF SampleSoil
  <2>2. UNCHANGED <<battery, batteryChanged, subscribed, dirty, told>>
    BY <1>2 DEF SampleSoil
  <2>3. soilChanged' \/ UNCHANGED <<soil, soilChanged>>
    BY <2>1 DEF ReportSoil
  <2>4. QED
    BY <1>1, <1>a, <1>b, <2>2, <2>3 DEF NothingForgotten
<1>3. CASE SampleBattery
  <2>1. PICK mv \in Voltages : ReportBattery(Estimate(mv))
    BY <1>3 DEF SampleBattery
  <2>2. UNCHANGED <<soil, soilChanged, subscribed, dirty, told>>
    BY <1>3 DEF SampleBattery
  <2>3. batteryChanged' \/ UNCHANGED <<battery, batteryChanged>>
    BY <2>1 DEF ReportBattery
  <2>4. QED
    BY <1>1, <1>a, <1>b, <2>2, <2>3 DEF NothingForgotten
<1>4. CASE RunSoil
  <2>1. UNCHANGED <<soil, battery, batteryChanged, subscribed, told>>
    BY <1>4 DEF RunSoil
  <2>2. subscribed => dirty' = dirty \cup {"SoilMoistureMeasuredValue"}
    BY <1>4 DEF RunSoil, Notify
  <2>3. QED
    BY <1>1, <1>a, <1>b, <2>1, <2>2 DEF NothingForgotten, SoilAttributes
<1>5. CASE RunBattery
  <2>1. UNCHANGED <<soil, battery, soilChanged, subscribed, told>>
    BY <1>5 DEF RunBattery, past
  <2>2. subscribed => dirty' = dirty \cup {"BatPercentRemaining", "BatVoltage"}
    BY <1>5 DEF RunBattery, Notify
  <2>3. QED
    BY <1>1, <1>a, <1>b, <2>1, <2>2 DEF NothingForgotten, Notified, BatteryAttributes
<1>6. CASE Subscribe
  <2>1. UNCHANGED <<soil, battery>> /\ told' = [a \in Attributes |-> Value(a)]
    BY <1>6 DEF Subscribe, cells
  <2>2. QED
    BY <1>a, <1>b, <2>1 DEF NothingForgotten, Attributes
<1>7. CASE Push
  BY <1>1, <1>7, ToldIsTracked
<1>8. CASE Read
  <2>1. PICK c \in {"soil", "battery"} :
          told' = [a \in Attributes |->
                     IF a \in (IF c = "soil" THEN SoilAttributes ELSE BatteryAttributes) THEN Value(a) ELSE told[a]]
    BY <1>8 DEF Read
  <2>2. UNCHANGED <<soil, battery, soilChanged, batteryChanged, subscribed, dirty>>
    BY <1>8 DEF Read, cells
  <2>3. \A a \in Attributes : told'[a] = Value(a) \/ told'[a] = told[a]
    BY <2>1
  <2>4. QED
    BY <1>1, <1>a, <1>b, <2>2, <2>3 DEF NothingForgotten, Attributes
<1>9. CASE Reboot
  BY <1>9 DEF Reboot, NothingForgotten
<1>10. CASE StartRunning \/ UNCHANGED vars
  <2>1. UNCHANGED <<soil, battery, soilChanged, batteryChanged, subscribed, dirty, told>>
    BY <1>10 DEF StartRunning, vars, cells
  <2>2. QED
    BY <1>1, <1>a, <1>b, <2>1 DEF NothingForgotten
<1>11. QED
  BY <1>1, <1>2, <1>3, <1>4, <1>5, <1>6, <1>7, <1>8, <1>9, <1>10 DEF Next

(* Whatever order reports, run loops and the stack go in, no change that a    *)
(* subscriber has not been told of is forgotten.                              *)
THEOREM SubscriberTheorem == Spec => []NothingForgotten
<1>1. Init => NothingForgotten
  BY DEF Init, NothingForgotten
<1>2. QED
  BY <1>1, NothingForgottenStep, TypeInit, TypeStep, PTL DEF Spec

-----------------------------------------------------------------------------
(* Data versions.                                                            *)

VersionInv == VersionsBehind /\ SameVersionSameData

(* A cell changes only together with its version, so a version that a         *)
(* controller holds is older than the cell or names what it was told.         *)
LEMMA VersionStep == TypeInv /\ VersionInv /\ [Next]_vars => VersionInv'
<1>1. SUFFICES ASSUME TypeInv, VersionInv, [Next]_vars PROVE VersionInv'
  OBVIOUS
<1> USE DEF VersionInv
<1>2. /\ soilVer \in Nat /\ batteryVer \in Nat /\ Unread \notin Int
      /\ soil \in Percents \cup {Nothing} /\ battery \in Readings \cup {Nothing}
  BY <1>1, NoValue DEF TypeInv, TypeOK
<1>a. ASSUME NEW a \in SoilAttributes, soil' = soil PROVE Value(a)' = Value(a)
  BY <1>a DEF Value, SoilAttributes
<1>b. ASSUME NEW a \in BatteryAttributes, battery' = battery PROVE Value(a)' = Value(a)
  BY <1>b DEF Value, BatteryAttributes
<1>3. CASE SampleSoil
  <2>1. PICK percent \in Percents : ReportSoil(percent)
    BY <1>3 DEF SampleSoil
  <2>2. UNCHANGED <<battery, batteryVer, told, toldVer>>
    BY <1>3 DEF SampleSoil
  <2>3. soilVer' = soilVer + 1 \/ UNCHANGED <<soil, soilVer>>
    BY <2>1 DEF ReportSoil
  <2>4. VersionsBehind'
    BY <1>1, <1>2, <2>2, <2>3 DEF VersionsBehind
  <2>5. toldVer'["soil"] = soilVer' => UNCHANGED soil /\ toldVer["soil"] = soilVer
    BY <1>1, <1>2, <2>2, <2>3 DEF VersionsBehind
  <2>6. QED
    BY <1>1, <1>a, <1>b, <2>2, <2>4, <2>5 DEF SameVersionSameData
<1>4. CASE SampleBattery
  <2>1. PICK mv \in Voltages : ReportBattery(Estimate(mv))
    BY <1>4 DEF SampleBattery
  <2>2. UNCHANGED <<soil, soilVer, told, toldVer>>
    BY <1>4 DEF SampleBattery
  <2>3. batteryVer' = batteryVer + 1 \/ UNCHANGED <<battery, batteryVer>>
    BY <2>1 DEF ReportBattery
  <2>4. VersionsBehind'
    BY <1>1, <1>2, <2>2, <2>3 DEF VersionsBehind
  <2>5. toldVer'["battery"] = batteryVer' => UNCHANGED battery /\ toldVer["battery"] = batteryVer
    BY <1>1, <1>2, <2>2, <2>3 DEF VersionsBehind
  <2>6. QED
    BY <1>1, <1>a, <1>b, <2>2, <2>4, <2>5 DEF SameVersionSameData
<1>5. CASE Subscribe
  <2>1. /\ UNCHANGED <<soil, soilVer, battery, batteryVer>>
        /\ told' = [a \in Attributes |-> Value(a)]
        /\ toldVer' = [c \in {"soil", "battery"} |-> Version(c)]
    BY <1>5 DEF Subscribe, cells
  <2>2. toldVer'["soil"] = soilVer /\ toldVer'["battery"] = batteryVer
    BY <2>1 DEF Version
  <2>3. QED
    BY <1>2, <1>a, <1>b, <2>1, <2>2 DEF VersionsBehind, SameVersionSameData, Attributes
<1>6. CASE Push
  <2>1. PICK a \in dirty :
          /\ told' = [told EXCEPT ![a] = Value(a)]
          /\ UNCHANGED <<soil, soilVer, battery, batteryVer, toldVer>>
    BY <1>6 DEF Push, cells
  <2>2. \A b \in Attributes : told'[b] = Value(b) \/ told'[b] = told[b]
    BY <1>1, <2>1 DEF TypeInv, TypeOK
  <2>3. QED
    BY <1>1, <1>a, <1>b, <2>1, <2>2 DEF VersionsBehind, SameVersionSameData, Attributes
<1>7. CASE Read
  <2>1. PICK c \in {"soil", "battery"} :
          /\ told' = [a \in Attributes |->
                         IF a \in (IF c = "soil" THEN SoilAttributes ELSE BatteryAttributes)
                         THEN Value(a) ELSE told[a]]
          /\ toldVer' = [toldVer EXCEPT ![c] = Version(c)]
          /\ UNCHANGED <<soil, soilVer, battery, batteryVer>>
    BY <1>7 DEF Read, cells
  <2>2. DOMAIN toldVer = {"soil", "battery"}
    BY <1>1 DEF TypeInv, TypeOK
  <2>3. SoilAttributes \cap BatteryAttributes = {}
    BY DEF SoilAttributes, BatteryAttributes
  <2>4. CASE c = "soil"
    <3>1. toldVer'["soil"] = soilVer /\ toldVer'["battery"] = toldVer["battery"]
      BY <2>1, <2>2, <2>4 DEF Version
    <3>2. /\ \A a \in SoilAttributes : told'[a] = Value(a)
          /\ \A a \in BatteryAttributes : told'[a] = told[a]
      BY <2>1, <2>3, <2>4 DEF Attributes
    <3>3. QED
      BY <1>1, <1>2, <1>a, <1>b, <2>1, <3>1, <3>2 DEF VersionsBehind, SameVersionSameData
  <2>5. CASE c = "battery"
    <3>1. toldVer'["battery"] = batteryVer /\ toldVer'["soil"] = toldVer["soil"]
      BY <2>1, <2>2, <2>5 DEF Version
    <3>2. /\ \A a \in BatteryAttributes : told'[a] = Value(a)
          /\ \A a \in SoilAttributes : told'[a] = told[a]
      BY <2>1, <2>3, <2>5 DEF Attributes
    <3>3. QED
      BY <1>1, <1>2, <1>a, <1>b, <2>1, <3>1, <3>2 DEF VersionsBehind, SameVersionSameData
  <2>6. QED
    BY <2>4, <2>5
<1>8. CASE Reboot
  <2>1. /\ toldVer'["soil"] = Unread /\ toldVer'["battery"] = Unread
        /\ soilVer' = 0 /\ batteryVer' = 0
    BY <1>8 DEF Reboot, NoVersion
  <2>2. QED
    BY <1>2, <2>1 DEF VersionsBehind, SameVersionSameData
<1>9. CASE StartRunning \/ RunSoil \/ RunBattery \/ UNCHANGED vars
  <2>1. UNCHANGED <<soil, soilVer, battery, batteryVer, told, toldVer>>
    BY <1>9 DEF StartRunning, RunSoil, RunBattery, vars, cells
  <2>2. QED
    BY <1>1, <1>a, <1>b, <2>1 DEF VersionsBehind, SameVersionSameData
<1>10. QED
  BY <1>1, <1>3, <1>4, <1>5, <1>6, <1>7, <1>8, <1>9 DEF Next

(* A controller that is refused data because it names the current version     *)
(* has been told all that a read would return.                                *)
THEOREM VersionTheorem == Spec => []SameVersionSameData
<1>1. Init => VersionInv
  <2>1. SUFFICES ASSUME Init PROVE VersionInv
    OBVIOUS
  <2>2. /\ toldVer["soil"] = Unread /\ toldVer["battery"] = Unread
        /\ soilVer = 0 /\ batteryVer = 0
    BY <2>1 DEF Init, NoVersion
  <2>3. QED
    BY <2>2, NoValue DEF VersionInv, VersionsBehind, SameVersionSameData
<1>2. VersionInv => SameVersionSameData
  BY DEF VersionInv
<1>3. QED
  BY <1>1, <1>2, VersionStep, TypeInit, TypeStep, PTL DEF Spec

-----------------------------------------------------------------------------
(* Jitter.                                                                   *)

(* Two points of a band that are a deadband apart make it a deadband wide.    *)
LEMMA BandWidth ==
  ASSUME NEW lowest \in Int, NEW highest \in Int, NEW a \in Int, NEW b \in Int, NEW delta \in Int,
         lowest <= a, a <= highest, lowest <= b, b <= highest,
         a - b >= delta \/ b - a >= delta
  PROVE  highest - lowest >= delta
OBVIOUS

(* The first report of a boot is always made; each later one needs a reading  *)
(* a whole deadband away from an earlier one (should_report).                 *)
LEMMA BandStep == TypeInv /\ CellInBand /\ [Next]_vars => CellInBand'
<1>1. SUFFICES ASSUME TypeInv, CellInBand, [Next]_vars PROVE CellInBand'
  OBVIOUS
<1>2. /\ soilVer \in Nat /\ soil \in Percents \cup {Nothing}
      /\ low \in Percents \cup {Unread} /\ high \in Percents \cup {Unread}
      /\ Nothing \notin Percents /\ Unread \notin Percents
      /\ Percents \subseteq Int /\ SoilDelta \in Nat \ {0}
  <2>1. Percents \subseteq Int /\ SoilDelta \in Nat \ {0}
    BY ClusterTuning
  <2>2. Nothing \notin Percents /\ Unread \notin Percents
    BY <2>1, NoValue
  <2>3. soilVer \in Nat /\ soil \in Percents \cup {Nothing}
    BY <1>1 DEF TypeInv, TypeOK
  <2>4. low \in Percents \cup {Unread} /\ high \in Percents \cup {Unread}
    BY <1>1 DEF TypeInv, TypeOK
  <2>5. QED
    BY <2>1, <2>2, <2>3, <2>4
<1>3. CASE SampleSoil
  <2>1. PICK percent \in Percents :
          /\ ReportSoil(percent)
          /\ low' = IF low = Unread \/ percent < low THEN percent ELSE low
          /\ high' = IF high = Unread \/ percent > high THEN percent ELSE high
    BY <1>3 DEF SampleSoil
  <2>2. /\ soil' \in Percents
        /\ \/ soil' = percent /\ soilVer' = soilVer + 1
              /\ (soil # Nothing => Distance(soil, percent) >= SoilDelta)
           \/ soil # Nothing /\ UNCHANGED <<soil, soilVer>>
    BY <1>2, <2>1, SoilReported
  <2>3. soil' # Nothing /\ low' # Unread /\ high' # Unread /\ soilVer' # 0
    BY <1>1, <1>2, <2>1, <2>2 DEF CellInBand
  <2>4. low' <= percent /\ percent <= high'
    BY <1>2, <2>1
  <2>5. soil # Nothing => /\ low \in Int /\ high \in Int /\ soil \in Int
                          /\ low' <= low /\ high <= high' /\ low <= soil /\ soil <= high
    BY <1>1, <1>2, <2>1 DEF CellInBand
  <2>6. low' \in Int /\ high' \in Int /\ percent \in Int
    BY <1>2, <2>1
  <2>7. low' <= soil' /\ soil' <= high'
    BY <2>2, <2>4, <2>5, <2>6
  <2>8. soilVer' > 1 => high' - low' >= SoilDelta
    <3>1. CASE soil = Nothing
      BY <1>1, <1>2, <2>2, <3>1 DEF CellInBand
    <3>2. CASE soil # Nothing /\ soil' = percent /\ Distance(soil, percent) >= SoilDelta
      <4>1. low' <= soil /\ soil <= high' /\ soil \in Int
        BY <2>5, <2>6, <3>2
      <4>2. soil - percent >= SoilDelta \/ percent - soil >= SoilDelta
        BY <3>2 DEF Distance
      <4>3. SoilDelta \in Int
        BY <1>2
      <4>4. high' - low' >= SoilDelta
        BY <2>4, <2>6, <4>1, <4>2, <4>3, BandWidth, Zenon
      <4>5. QED
        BY <4>4
    <3>3. CASE soil # Nothing /\ UNCHANGED <<soil, soilVer>>
      <4>1. soilVer > 1 => high - low >= SoilDelta
        BY <1>1 DEF CellInBand
      <4>2. high' - low' >= high - low
        BY <2>5, <2>6, <3>3
      <4>3. high - low \in Int /\ high' - low' \in Int
        BY <2>5, <2>6, <3>3
      <4>4. QED
        BY <1>2, <3>3, <4>1, <4>2, <4>3
    <3>4. QED
      BY <2>2, <3>1, <3>2, <3>3
  <2>9. QED
    BY <2>3, <2>7, <2>8 DEF CellInBand
<1>4. CASE Reboot
  BY <1>4 DEF Reboot, CellInBand
<1>5. CASE UNCHANGED <<soil, soilVer, low, high>>
  BY <1>1, <1>5 DEF CellInBand
<1>6. QED
  <2>1. SampleBattery \/ StartRunning \/ RunSoil \/ RunBattery \/ Subscribe \/ Push \/ Read \/ UNCHANGED vars
          => UNCHANGED <<soil, soilVer, low, high>>
    BY DEF SampleBattery, StartRunning, RunSoil, RunBattery, Subscribe, Push, Read, vars, cells, past
  <2>2. QED
    BY <1>1, <1>3, <1>4, <1>5, <2>1 DEF Next

(* Readings that stay in a band narrower than the deadband notify once in a   *)
(* boot, whatever the deadband and however many they are.                     *)
THEOREM JitterTheorem == Spec => []JitterNotifiesOnce
<1>1. Init => CellInBand
  BY DEF Init, CellInBand
<1>2. TypeInv /\ CellInBand => JitterNotifiesOnce
  <2>1. SUFFICES ASSUME TypeInv, CellInBand, low # Unread, high - low < SoilDelta PROVE soilNotes <= 1
    BY DEF JitterNotifiesOnce
  <2>2. /\ soilVer \in Nat /\ soilNotes \in Nat /\ soilNotes <= soilVer
        /\ low \in Int /\ high \in Int /\ SoilDelta \in Nat
    BY <2>1, ClusterTuning DEF TypeInv, TypeOK, CountsInStep, CellInBand
  <2>3. QED
    BY <2>1, <2>2 DEF CellInBand
<1>3. QED
  BY <1>1, <1>2, BandStep, TypeInit, TypeStep, PTL DEF Spec
=============================================================================
