------------------------- MODULE ZoneGeometry_proofs -------------------------
(* The zones' shape, for every resolution and every impedance a unit may show. *)
EXTENDS ZoneGeometry, TLAPS

LEMMA Quotient ==
    ASSUME NEW n \in Int, NEW r \in Nat, r > 0
    PROVE  n \div r \in Int /\ r * (n \div r) <= n /\ n < r * (n \div r) + r
BY SMT

LEMMA QuotientsOrdered ==
    ASSUME NEW m \in Int, NEW n \in Int, NEW r \in Nat, r > 0, NEW k \in Nat, m + k * r <= n
    PROVE  (m \div r) + k <= n \div r
<1> DEFINE x == m \div r
           y == n \div r
<1>1. x \in Int /\ y \in Int /\ r * x <= m /\ n < r * y + r
  BY SMT, Quotient
<1> HIDE DEF x, y
<1>2. SUFFICES ASSUME x + k >= y + 1 PROVE FALSE
  BY SMT, <1>1 DEF x, y
<1>3. r * (x + k) >= r * (y + 1)
  BY SMT, <1>1, <1>2
<1>4. r * (y + 1) = r * y + r /\ r * (x + k) = r * x + k * r
  BY SMT, <1>1
<1> QED BY SMT, <1>1, <1>3, <1>4

LEMMA QuotientsMirrored ==
    ASSUME NEW m \in Int, NEW n \in Int, NEW r \in Nat, r > 0, NEW k \in Nat,
           n >= k * r + r - m
    PROVE  k - (m \div r) <= n \div r
<1> DEFINE x == m \div r
           y == n \div r
<1>1. x \in Int /\ y \in Int /\ r * x <= m /\ m < r * x + r /\ n < r * y + r
  BY SMT, Quotient
<1> HIDE DEF x, y
<1>2. SUFFICES ASSUME y <= k - x - 1 PROVE FALSE
  BY SMT, <1>1 DEF x, y
<1>3. r * (y + 1) <= r * (k - x)
  BY SMT, <1>1, <1>2
<1>4. r * (y + 1) = r * y + r /\ r * (k - x) = k * r - r * x
  BY SMT, <1>1
<1> QED BY SMT, <1>1, <1>3, <1>4

-----------------------------------------------------------------------------
(* A quadrilateral with its first vertex at the relay, a flat top, and the    *)
(* rest of it to the right.                                                   *)
Point(x, y) == [R |-> Fin(x), X |-> Fin(y)]

Corners(a, b, c, d, e) == << Point(0, 0), Point(a, b), Point(c, b), Point(d, e) >>

Shape(a, b, c, d, e) ==
    /\ a \in Int /\ b \in Int /\ c \in Int /\ d \in Int /\ e \in Int
    /\ a < 0 /\ 0 < b /\ 0 < c /\ 0 < d /\ e < 0
    /\ d <= c /\ -a <= b /\ -e < d

\* The vertices of the code keep this shape, rounded to at most 10 ohm.
LEMMA RoundedShape ==
    ASSUME NEW a \in Int, NEW b \in Int, NEW c \in Int, NEW d \in Int, NEW e \in Int,
           NEW r \in Nat, r > 0,
           a < 0, r <= b, r <= c, r <= d, e < 0, d <= c, b >= r - a, d >= r + r - e
    PROVE  Shape(a \div r, b \div r, c \div r, d \div r, e \div r)
<1>0. /\ a \div r \in Int /\ b \div r \in Int /\ c \div r \in Int
      /\ d \div r \in Int /\ e \div r \in Int
  BY SMT, Quotient
<1>1. \A n \in Int : n < 0 => n \div r < 0
  <2> SUFFICES ASSUME NEW n \in Int, n < 0, n \div r >= 0 PROVE FALSE
    BY SMT, Quotient
  <2>1. n \div r \in Int /\ r * (n \div r) <= n
    BY SMT, Quotient
  <2>2. \A x \in Int : x >= 0 => r * x >= 0
    BY SMT
  <2> QED BY SMT, <2>1, <2>2
<1>2. \A n \in Int : r <= n => 0 < n \div r
  <2> SUFFICES ASSUME NEW n \in Int, r <= n PROVE 0 < n \div r
    OBVIOUS
  <2>1. (0 \div r) + 1 <= n \div r
    BY SMT, QuotientsOrdered
  <2>2. 0 \div r = 0
    BY SMT
  <2> QED BY SMT, <2>1, <2>2, Quotient
<1>3. d \div r <= c \div r
  BY SMT, <1>0, QuotientsOrdered
<1>4. -(a \div r) <= b \div r
  <2>1. 0 - (a \div r) <= b \div r
    BY SMT, QuotientsMirrored
  <2> QED BY SMT, <1>0, <2>1
<1>5. -(e \div r) < d \div r
  <2>1. 1 - (e \div r) <= d \div r
    BY SMT, QuotientsMirrored
  <2> QED BY SMT, <1>0, <2>1
<1> QED BY SMT, <1>0, <1>1, <1>2, <1>3, <1>4, <1>5 DEF Shape

AtResolution(a, b, c, d, e) ==
    Corners(a \div Resolution, b \div Resolution, c \div Resolution,
            d \div Resolution, e \div Resolution)

LEMMA ZoneCorners ==
    /\ Zone1Ground = AtResolution(-2928321, 5072000, 6985812, 6580660, -2658759)
    /\ Zone1Phase  = AtResolution(-2928321, 5072000, 4745812, 4387107, -1772506)
    /\ Zone2Ground = AtResolution(-4392481, 7608000, 7118719, 6580660, -2658759)
    /\ Zone2Phase  = AtResolution(-4392481, 7608000, 4878719, 4387107, -1772506)
<1>0. 0 \div Resolution = 0
  <2>1. Resolution \in Nat /\ Resolution > 0
    BY SMT, ResolutionAssumption
  <2> QED BY SMT, <2>1
<1>1. Vertex(0, 0) = Point(0, 0)
  BY SMT, <1>0 DEF Vertex, Point
<1> USE SMT, <1>1 DEF AtResolution, Corners, Vertex, Point
<1>2. Zone1Ground = AtResolution(-2928321, 5072000, 6985812, 6580660, -2658759)
  BY DEF Zone1Ground
<1>3. Zone1Phase = AtResolution(-2928321, 5072000, 4745812, 4387107, -1772506)
  BY DEF Zone1Phase
<1>4. Zone2Ground = AtResolution(-4392481, 7608000, 7118719, 6580660, -2658759)
  BY DEF Zone2Ground
<1>5. Zone2Phase = AtResolution(-4392481, 7608000, 4878719, 4387107, -1772506)
  BY DEF Zone2Phase
<1> QED BY <1>2, <1>3, <1>4, <1>5

LEMMA ZoneShapes ==
    ASSUME NEW q \in Zones
    PROVE  \E a, b, c, d, e : q = Corners(a, b, c, d, e) /\ Shape(a, b, c, d, e)
<1>1. ASSUME NEW a \in Int, NEW b \in Int, NEW c \in Int, NEW d \in Int, NEW e \in Int,
             a < 0, Resolution <= b, Resolution <= c, Resolution <= d, e < 0, d <= c,
             b >= Resolution - a, d >= Resolution + Resolution - e,
             q = AtResolution(a, b, c, d, e)
      PROVE  \E v, w, x, y, z : q = Corners(v, w, x, y, z) /\ Shape(v, w, x, y, z)
  <2>1. Resolution \in Nat /\ Resolution > 0
    BY SMT, ResolutionAssumption
  <2>2. Shape(a \div Resolution, b \div Resolution, c \div Resolution,
              d \div Resolution, e \div Resolution)
    BY SMT, <1>1, <2>1, RoundedShape
  <2> QED BY SMT, <1>1, <2>2 DEF AtResolution
<1>2. Resolution \in Int /\ 0 < Resolution /\ Resolution <= 1000000
  BY SMT, ResolutionAssumption
<1>3. CASE q = Zone1Ground
  <2>1. q = AtResolution(-2928321, 5072000, 6985812, 6580660, -2658759)
    BY SMT, <1>3, ZoneCorners
  <2> QED BY SMT, <1>1, <1>2, <2>1
<1>4. CASE q = Zone1Phase
  <2>1. q = AtResolution(-2928321, 5072000, 4745812, 4387107, -1772506)
    BY SMT, <1>4, ZoneCorners
  <2> QED BY SMT, <1>1, <1>2, <2>1
<1>5. CASE q = Zone2Ground
  <2>1. q = AtResolution(-4392481, 7608000, 7118719, 6580660, -2658759)
    BY SMT, <1>5, ZoneCorners
  <2> QED BY SMT, <1>1, <1>2, <2>1
<1>6. CASE q = Zone2Phase
  <2>1. q = AtResolution(-4392481, 7608000, 4878719, 4387107, -1772506)
    BY SMT, <1>6, ZoneCorners
  <2> QED BY SMT, <1>1, <1>2, <2>1
<1> QED BY SMT, <1>3, <1>4, <1>5, <1>6 DEF Zones

-----------------------------------------------------------------------------
LEMMA Coordinates == \A x, y : Point(x, y).R = Fin(x) /\ Point(x, y).X = Fin(y)
BY SMT DEF Point

\* The products of numbers are numbers.
LEMMA FiniteProduct ==
    ASSUME NEW a \in Int, NEW b \in Int, NEW c \in Int, NEW d \in Int,
           NEW x \in Int, NEW y \in Int
    PROVE  vectorProduct(Point(a, b), Point(c, d), Point(x, y)) =
               Fin((c - a) * (y - b) - (d - b) * (x - a))
<1>1. \A m, n \in Int : DoubleMinus(Fin(m), Fin(n)) = Fin(m - n)
  BY SMT DEF DoubleMinus, Fin
<1>2. \A m, n \in Int : DoubleTimes(Fin(m), Fin(n)) = Fin(m * n)
  BY SMT DEF DoubleTimes, Fin
<1>3. \A m, n \in Int : m - n \in Int /\ m * n \in Int
  BY SMT
<1>4. /\ DoubleMinus(Fin(c), Fin(a)) = Fin(c - a) /\ DoubleMinus(Fin(y), Fin(b)) = Fin(y - b)
      /\ DoubleMinus(Fin(d), Fin(b)) = Fin(d - b) /\ DoubleMinus(Fin(x), Fin(a)) = Fin(x - a)
  BY Zenon, <1>1
<1>5. /\ DoubleTimes(Fin(c - a), Fin(y - b)) = Fin((c - a) * (y - b))
      /\ DoubleTimes(Fin(d - b), Fin(x - a)) = Fin((d - b) * (x - a))
  BY Zenon, <1>2, <1>3
<1>6. DoubleMinus(Fin((c - a) * (y - b)), Fin((d - b) * (x - a)))
        = Fin((c - a) * (y - b) - (d - b) * (x - a))
  BY Zenon, <1>1, <1>3
<1> QED BY Zenon, <1>4, <1>5, <1>6, Coordinates DEF vectorProduct

LEMMA Sides ==
    ASSUME NEW p1, NEW p2, NEW p3, NEW p4, NEW z
    PROVE  Products(z, <<p1, p2, p3, p4>>) =
               {vectorProduct(p1, p2, z), vectorProduct(p2, p3, z),
                vectorProduct(p3, p4, z), vectorProduct(p4, p1, z)}
<1> DEFINE q == <<p1, p2, p3, p4>>
<1>1. 1 .. 4 = {1, 2, 3, 4}
  BY SMT
<1>2. /\ (1 % 4) + 1 = 2 /\ (2 % 4) + 1 = 3 /\ (3 % 4) + 1 = 4 /\ (4 % 4) + 1 = 1
      /\ q[1] = p1 /\ q[2] = p2 /\ q[3] = p3 /\ q[4] = p4
  BY SMT
<1> QED BY Zenon, <1>1, <1>2 DEF Products

\* Where a point is, by its side of each line: the right-hand one is inside.
P1(a, b, x, y) == a * y - b * x
P2(a, b, c, y) == (c - a) * (y - b)
P3(b, c, d, e, x, y) == (d - c) * (y - b) - (e - b) * (x - c)
P4(d, e, x, y) == e * x - d * y

LEMMA InsideOrOutside ==
    ASSUME NEW a \in Int, NEW b \in Int, NEW c \in Int, NEW d \in Int, NEW e \in Int,
           NEW x \in Int, NEW y \in Int
    PROVE  isInsideQuadrilateral(Point(x, y), Corners(a, b, c, d, e)) <=>
             \/ /\ P1(a, b, x, y) >= 0 /\ P2(a, b, c, y) >= 0
                /\ P3(b, c, d, e, x, y) >= 0 /\ P4(d, e, x, y) >= 0
             \/ /\ P1(a, b, x, y) <= 0 /\ P2(a, b, c, y) <= 0
                /\ P3(b, c, d, e, x, y) <= 0 /\ P4(d, e, x, y) <= 0
<1> DEFINE z == Point(x, y)
<1>1. vectorProduct(Point(0, 0), Point(a, b), z) = Fin(P1(a, b, x, y))
  <2>1. (a - 0) * (y - 0) - (b - 0) * (x - 0) = P1(a, b, x, y)
    BY SMT DEF P1
  <2>2. vectorProduct(Point(0, 0), Point(a, b), z)
          = Fin((a - 0) * (y - 0) - (b - 0) * (x - 0))
    BY SMTT(60), FiniteProduct
  <2> QED BY Zenon, <2>1, <2>2
<1>2. vectorProduct(Point(a, b), Point(c, b), z) = Fin(P2(a, b, c, y))
  <2>1. (c - a) * (y - b) - (b - b) * (x - a) = P2(a, b, c, y)
    BY SMT DEF P2
  <2>2. vectorProduct(Point(a, b), Point(c, b), z)
          = Fin((c - a) * (y - b) - (b - b) * (x - a))
    BY SMTT(60), FiniteProduct
  <2> QED BY Zenon, <2>1, <2>2
<1>3. vectorProduct(Point(c, b), Point(d, e), z) = Fin(P3(b, c, d, e, x, y))
  BY SMTT(60), FiniteProduct DEF P3
<1>4. vectorProduct(Point(d, e), Point(0, 0), z) = Fin(P4(d, e, x, y))
  <2>1. (0 - d) * (y - e) - (0 - e) * (x - d) = P4(d, e, x, y)
    BY SMT DEF P4
  <2>2. vectorProduct(Point(d, e), Point(0, 0), z)
          = Fin((0 - d) * (y - e) - (0 - e) * (x - d))
    BY SMTT(60), FiniteProduct
  <2> QED BY Zenon, <2>1, <2>2
<1>5. Products(z, Corners(a, b, c, d, e)) =
        {Fin(P1(a, b, x, y)), Fin(P2(a, b, c, y)),
         Fin(P3(b, c, d, e, x, y)), Fin(P4(d, e, x, y))}
  <2>1. Products(z, Corners(a, b, c, d, e)) =
          {vectorProduct(Point(0, 0), Point(a, b), z),
           vectorProduct(Point(a, b), Point(c, b), z),
           vectorProduct(Point(c, b), Point(d, e), z),
           vectorProduct(Point(d, e), Point(0, 0), z)}
    <3>1. Corners(a, b, c, d, e) = <<Point(0, 0), Point(a, b), Point(c, b), Point(d, e)>>
      BY DEF Corners
    <3> HIDE DEF z
    <3> QED BY SMT, <3>1, Sides
  <2> QED BY Zenon, <1>1, <1>2, <1>3, <1>4, <2>1
<1>6. \A n : (NotNegative(Fin(n)) <=> n >= 0) /\ (NotPositive(Fin(n)) <=> n <= 0)
  BY SMT DEF NotNegative, NotPositive, Fin
<1> QED BY Zenon, <1>5, <1>6 DEF isInsideQuadrilateral

LEMMA SignOfProduct ==
    ASSUME NEW m \in Int, NEW n \in Int
    PROVE  /\ m * n \in Int
           /\ m > 0 /\ n > 0 => m * n > 0
           /\ m < 0 /\ n < 0 => m * n > 0
           /\ m < 0 /\ n > 0 => m * n < 0
           /\ m > 0 /\ n < 0 => m * n < 0
           /\ m = 0 \/ n = 0 => m * n = 0
BY SMT

\* No point is to the left of all four sides.
LEMMA NeverOutside ==
    ASSUME NEW a, NEW b, NEW c, NEW d, NEW e, Shape(a, b, c, d, e),
           NEW x \in Int, NEW y \in Int
    PROVE  ~(P1(a, b, x, y) >= 0 /\ P2(a, b, c, y) >= 0 /\ P3(b, c, d, e, x, y) >= 0)
<1> SUFFICES ASSUME P1(a, b, x, y) >= 0, P2(a, b, c, y) >= 0, P3(b, c, d, e, x, y) >= 0
             PROVE  FALSE
  OBVIOUS
<1>0. /\ a \in Int /\ b \in Int /\ c \in Int /\ d \in Int /\ e \in Int
      /\ a < 0 /\ 0 < b /\ 0 < c /\ d <= c /\ e < 0
  BY SMT DEF Shape
<1>1. y >= b
  <2> SUFFICES ASSUME y - b < 0 PROVE FALSE
    BY SMT, <1>0
  <2>1. c - a \in Int /\ c - a > 0 /\ y - b \in Int
    BY SMT, <1>0
  <2>2. (c - a) * (y - b) < 0
    BY Zenon, <2>1, SignOfProduct
  <2> QED BY SMT, <2>1, <2>2, SignOfProduct DEF P2
<1>2. x < 0
  <2>1. y > 0
    BY SMT, <1>0, <1>1
  <2>2. a * y \in Int /\ a * y < 0 /\ b * x \in Int
    BY SMT, <1>0, <2>1, SignOfProduct
  <2>3. b * x < 0
    BY SMT, <2>2 DEF P1
  <2> QED BY SMT, <1>0, <2>3, SignOfProduct
<1>3. (d - c) * (y - b) \in Int /\ (d - c) * (y - b) <= 0
  <2>1. d - c \in Int /\ y - b \in Int /\ d - c <= 0 /\ y - b >= 0
    BY SMT, <1>0, <1>1
  <2> QED BY SMT, <2>1, SignOfProduct
<1>4. (e - b) * (x - c) \in Int /\ (e - b) * (x - c) > 0
  <2>1. e - b \in Int /\ x - c \in Int /\ e - b < 0 /\ x - c < 0
    BY SMT, <1>0, <1>2
  <2> QED BY Zenon, <2>1, SignOfProduct
<1> QED BY SMT, <1>3, <1>4 DEF P3

\* The two sides at the relay make an angle of less than half a turn.
LEMMA Wedge ==
    ASSUME NEW a \in Int, NEW b \in Int, NEW d \in Int, NEW e \in Int,
           NEW u \in Int, NEW w \in Int,
           0 < a, a <= b, 0 < e, e < d, u > 0, w > 0
    PROVE  ~(e * u = d * w /\ a * w = b * u)
<1> SUFFICES ASSUME e * u = d * w, a * w = b * u PROVE FALSE
  OBVIOUS
<1>1. w < u
  <2>1. (d - e) * u > 0 /\ (d - e) * u = d * u - e * u
    BY SMT
  <2>2. d * w < d * u /\ d * (u - w) = d * u - d * w
    BY SMT, <2>1
  <2> QED BY SMT, <2>2, SignOfProduct
<1>2. a * w <= b * w
  <2>1. (b - a) * w >= 0 /\ (b - a) * w = b * w - a * w
    BY SMT
  <2> QED BY SMT, <2>1
<1>3. b * (u - w) > 0 /\ b * (u - w) = b * u - b * w
  BY SMT, <1>1
<1> QED BY SMT, <1>2, <1>3

LEMMA OppositeIsOrigin ==
    ASSUME NEW a, NEW b, NEW c, NEW d, NEW e, Shape(a, b, c, d, e),
           NEW x \in Int, NEW y \in Int,
           P1(a, b, x, y) <= 0, P1(a, b, -x, -y) <= 0,
           P4(d, e, x, y) <= 0, P4(d, e, -x, -y) <= 0
    PROVE  x = 0 /\ y = 0
<1>0. /\ a \in Int /\ b \in Int /\ d \in Int /\ e \in Int
      /\ a < 0 /\ 0 < b /\ 0 < d /\ e < 0 /\ -a <= b /\ -e < d
  BY SMT DEF Shape
<1>1. a * y = b * x
  <2>1. a * (-y) = -(a * y) /\ b * (-x) = -(b * x) /\ a * y \in Int /\ b * x \in Int
    BY SMT, <1>0
  <2> QED BY SMT, <2>1 DEF P1
<1>2. e * x = d * y
  <2>1. e * (-x) = -(e * x) /\ d * (-y) = -(d * y) /\ e * x \in Int /\ d * y \in Int
    BY SMT, <1>0
  <2> QED BY SMT, <2>1 DEF P4
<1>3. \A u, w \in Int : u > 0 /\ w > 0 => ~((-e) * u = d * w /\ (-a) * w = b * u)
  <2>1. -a \in Int /\ -e \in Int /\ 0 < -a /\ 0 < -e
    BY SMT, <1>0
  <2> QED BY SMT, <1>0, <2>1, Wedge
<1>4. CASE y > 0
  <2>1. x < 0
    BY SMT, <1>0, <1>1, <1>4, SignOfProduct
  <2>2. (-e) * (-x) = d * y /\ (-a) * y = b * (-x)
    BY SMT, <1>0, <1>1, <1>2
  <2> QED BY SMT, <1>3, <1>4, <2>1, <2>2
<1>5. CASE y < 0
  <2>1. x > 0
    BY SMT, <1>0, <1>1, <1>5, SignOfProduct
  <2>2. (-e) * x = d * (-y) /\ (-a) * (-y) = b * x
    BY SMT, <1>0, <1>1, <1>2
  <2> QED BY SMT, <1>3, <1>5, <2>1, <2>2
<1>6. CASE y = 0
  <2>1. b * x = 0
    BY SMT, <1>0, <1>1, <1>6
  <2> QED BY SMT, <1>0, <1>6, <2>1, SignOfProduct
<1> QED BY SMT, <1>4, <1>5, <1>6

\* Half way to a point inside is inside.
LEMMA HalfWay ==
    ASSUME NEW a, NEW b, NEW c, NEW d, NEW e, Shape(a, b, c, d, e),
           NEW x \in Int, NEW y \in Int,
           P1(a, b, 2 * x, 2 * y) <= 0, P2(a, b, c, 2 * y) <= 0,
           P3(b, c, d, e, 2 * x, 2 * y) <= 0, P4(d, e, 2 * x, 2 * y) <= 0
    PROVE  /\ P1(a, b, x, y) <= 0 /\ P2(a, b, c, y) <= 0
           /\ P3(b, c, d, e, x, y) <= 0 /\ P4(d, e, x, y) <= 0
<1>0. /\ a \in Int /\ b \in Int /\ c \in Int /\ d \in Int /\ e \in Int
      /\ a < 0 /\ 0 < b /\ 0 < c /\ 0 < d /\ e < 0
  BY SMT DEF Shape
<1>1. P1(a, b, x, y) <= 0
  <2>1. /\ a * (2 * y) = 2 * (a * y) /\ b * (2 * x) = 2 * (b * x)
        /\ a * y \in Int /\ b * x \in Int
    BY SMT, <1>0
  <2> QED BY SMT, <2>1 DEF P1
<1>2. P4(d, e, x, y) <= 0
  <2>1. /\ e * (2 * x) = 2 * (e * x) /\ d * (2 * y) = 2 * (d * y)
        /\ e * x \in Int /\ d * y \in Int
    BY SMT, <1>0
  <2> QED BY SMT, <2>1 DEF P4
<1>3. P2(a, b, c, y) <= 0
  <2>1. c - a \in Int /\ c - a > 0 /\ y - b \in Int /\ 2 * y - b \in Int
    BY SMT, <1>0
  <2>2. ~(2 * y - b > 0)
    BY SMT, <2>1, SignOfProduct DEF P2
  <2>3. y - b < 0
    BY SMT, <1>0, <2>1, <2>2
  <2> QED BY SMT, <2>1, <2>3, SignOfProduct DEF P2
<1>4. P3(b, c, d, e, x, y) <= 0
  <2>1. /\ 2 * ((d - c) * (y - b)) = (d - c) * (2 * y - b) - (d - c) * b
        /\ 2 * ((e - b) * (x - c)) = (e - b) * (2 * x - c) - (e - b) * c
    BY SMT, <1>0
  <2>2. (d - c) * b - (e - b) * c = d * b - e * c
    BY SMT, <1>0
  <2>3. d * b > 0 /\ e * c < 0 /\ d * b \in Int /\ e * c \in Int
    BY SMT, <1>0, SignOfProduct
  <2>4. /\ (d - c) * (y - b) \in Int /\ (d - c) * (2 * y - b) \in Int /\ (d - c) * b \in Int
        /\ (e - b) * (x - c) \in Int /\ (e - b) * (2 * x - c) \in Int /\ (e - b) * c \in Int
    BY SMT, <1>0
  <2> QED BY SMT, <2>1, <2>2, <2>3, <2>4 DEF P3
<1> QED BY SMT, <1>1, <1>2, <1>3, <1>4

\* In a zone, a point is to the right of all four sides.
LEMMA InZone ==
    ASSUME NEW a, NEW b, NEW c, NEW d, NEW e, Shape(a, b, c, d, e),
           NEW x \in Int, NEW y \in Int
    PROVE  isInsideQuadrilateral(Point(x, y), Corners(a, b, c, d, e)) <=>
             /\ P1(a, b, x, y) <= 0 /\ P2(a, b, c, y) <= 0
             /\ P3(b, c, d, e, x, y) <= 0 /\ P4(d, e, x, y) <= 0
<1>1. a \in Int /\ b \in Int /\ c \in Int /\ d \in Int /\ e \in Int
  BY SMT DEF Shape
<1>2. ~(P1(a, b, x, y) >= 0 /\ P2(a, b, c, y) >= 0 /\ P3(b, c, d, e, x, y) >= 0)
  BY SMT, NeverOutside
<1>3. isInsideQuadrilateral(Point(x, y), Corners(a, b, c, d, e)) <=>
        \/ /\ P1(a, b, x, y) >= 0 /\ P2(a, b, c, y) >= 0
           /\ P3(b, c, d, e, x, y) >= 0 /\ P4(d, e, x, y) >= 0
        \/ /\ P1(a, b, x, y) <= 0 /\ P2(a, b, c, y) <= 0
           /\ P3(b, c, d, e, x, y) <= 0 /\ P4(d, e, x, y) <= 0
  BY Zenon, <1>1, InsideOrOutside
<1> QED BY Zenon, <1>2, <1>3

\* An infinity or a NaN makes the flat top's product one of zero and infinity.
LEMMA UndefinedOutside ==
    ASSUME NEW q \in Zones, NEW z \in Undefined
    PROVE  ~isInsideQuadrilateral(z, q)
<1>1. PICK a, b, c, d, e : q = Corners(a, b, c, d, e) /\ Shape(a, b, c, d, e)
  BY Zenon, ZoneShapes
<1>2. a \in Int /\ b \in Int /\ c \in Int
  BY SMT, <1>1 DEF Shape
<1> DEFINE v == vectorProduct(Point(a, b), Point(c, b), z)
<1>3. z.R \in NonFinite /\ z.X \in NonFinite
  BY SMT DEF Undefined
<1>4. /\ \A n \in NonFinite : \A m \in Int :
            DoubleMinus(n, Fin(m)) \in NonFinite /\ DoubleTimes(Fin(0), n) = NaN
      /\ \A n : DoubleMinus(n, NaN) = NaN
      /\ DoubleMinus(Fin(b), Fin(b)) = Fin(0)
  <2>1. ASSUME NEW n \in NonFinite, NEW m \in Int
        PROVE  DoubleMinus(n, Fin(m)) \in NonFinite
    BY SMT DEF NonFinite, DoubleMinus, Fin, Inf, NaN
  <2>2. ASSUME NEW n \in NonFinite PROVE DoubleTimes(Fin(0), n) = NaN
    BY SMT DEF NonFinite, DoubleTimes, Fin, Inf, NaN
  <2>3. ASSUME NEW n PROVE DoubleMinus(n, NaN) = NaN
    BY SMT DEF DoubleMinus, NaN
  <2>4. DoubleMinus(Fin(b), Fin(b)) = Fin(0)
    BY SMT, <1>2 DEF DoubleMinus, Fin
  <2> QED BY SMT, <2>1, <2>2, <2>3, <2>4
<1>5. v = NaN
  BY SMT, <1>2, <1>3, <1>4, Coordinates DEF vectorProduct
<1>6. v \in Products(z, q)
  <2>1. q = <<Point(0, 0), Point(a, b), Point(c, b), Point(d, e)>>
    BY SMT, <1>1 DEF Corners
  <2> HIDE DEF v
  <2> QED BY SMT, <2>1, Sides DEF v
<1>7. ~NotNegative(NaN) /\ ~NotPositive(NaN)
  BY SMT DEF NotNegative, NotPositive, NaN
<1> QED BY Zenon, <1>5, <1>6, <1>7 DEF isInsideQuadrilateral

-----------------------------------------------------------------------------
(* An impedance is two numbers, or two values neither of which is finite.     *)
THEOREM ZoneInvariant == ZoneSpec => []ZoneInv
<1>1. ZoneInit => ZoneInv
  BY SMT DEF ZoneInit, ZoneInv
<1>2. ZoneInv /\ [ZoneNext]_Zr => ZoneInv'
  <2> SUFFICES ASSUME ZoneInv, [ZoneNext]_Zr PROVE ZoneInv'
    OBVIOUS
  <2>1. CASE Moves
    <3>1. \A n \in Int : Fin(n) \in {Fin(m) : m \in Int}
      BY Zenon
    <3>2. \A n : Fin(n).kind = "fin" /\ Fin(n).val = n
      BY SMT DEF Fin
    <3>3. \A n \in NonFinite : n.kind # "fin"
      BY SMT DEF NonFinite, Inf, NaN
    <3>4. \A v \in {Fin(n) : n \in Int} \cup NonFinite : \A i \in {-1, 0, 1} :
            Shift(v, i) \in {Fin(n) : n \in Int}
      BY SMT, <3>1, <3>2, <3>3 DEF Shift
    <3>5. /\ Zr.R \in {Fin(n) : n \in Int} \cup NonFinite
          /\ Zr.X \in {Fin(n) : n \in Int} \cup NonFinite
      BY SMT DEF ZoneInv, Undefined
    <3> QED BY SMT, <2>1, <3>4, <3>5 DEF Moves, ZoneInv
  <2>2. CASE CurrentVanishes
    BY SMT, <2>2 DEF CurrentVanishes, ZoneInv
  <2>3. CASE UNCHANGED Zr
    BY SMT, <2>3 DEF ZoneInv
  <2> QED BY SMT, <2>1, <2>2, <2>3 DEF ZoneNext
<1> QED BY <1>1, <1>2, PTL DEF ZoneSpec

LEMMA FinitePoint ==
    ASSUME NEW z \in [R : {Fin(n) : n \in Int}, X : {Fin(n) : n \in Int}] \cup Undefined,
           Finite(z)
    PROVE  \E x, y \in Int : z = Point(x, y) /\ \A k \in Int : Scaled(z, k) = Point(k * x, k * y)
<1>1. \A n \in NonFinite : n.kind # "fin"
  BY SMT DEF NonFinite, Inf, NaN
<1>2. z \in [R : {Fin(n) : n \in Int}, X : {Fin(n) : n \in Int}]
  BY SMT, <1>1 DEF Finite, Undefined
<1>3. PICK x \in Int, y \in Int : z.R = Fin(x) /\ z.X = Fin(y)
  BY SMT, <1>2
<1>4. z = Point(x, y)
  BY SMT, <1>2, <1>3 DEF Point
<1>5. \A k \in Int : Scaled(z, k) = Point(k * x, k * y)
  BY SMT, <1>3 DEF Scaled, Point, Fin
<1> QED BY Zenon, <1>4, <1>5

(* A division by a current that vanished trips nothing.                       *)
THEOREM VanishedCurrentRestrains == ZoneSpec => []UndefinedRestrains
<1>1. UndefinedRestrains
  BY UndefinedOutside DEF UndefinedRestrains
<1> QED BY <1>1, PTL

(* Of two opposite impedances a zone holds one at most.                       *)
THEOREM ZonesDirectional == ZoneSpec => []Directional
<1>1. ZoneInv => Directional
  <2> SUFFICES ASSUME ZoneInv, Finite(Zr), Zr # [R |-> Fin(0), X |-> Fin(0)], NEW q \in Zones,
                      isInsideQuadrilateral(Zr, q), isInsideQuadrilateral(Scaled(Zr, -1), q)
               PROVE  FALSE
    BY Zenon DEF Directional
  <2>1. PICK a, b, c, d, e : q = Corners(a, b, c, d, e) /\ Shape(a, b, c, d, e)
    BY Zenon, ZoneShapes
  <2>2. PICK x \in Int, y \in Int :
            Zr = Point(x, y) /\ \A k \in Int : Scaled(Zr, k) = Point(k * x, k * y)
    BY SMT, FinitePoint DEF ZoneInv
  <2>3. Scaled(Zr, -1) = Point(-x, -y) /\ -x \in Int /\ -y \in Int
    BY SMT, <2>2
  <2>4. /\ P1(a, b, x, y) <= 0 /\ P4(d, e, x, y) <= 0
        /\ P1(a, b, -x, -y) <= 0 /\ P4(d, e, -x, -y) <= 0
    BY Zenon, <2>1, <2>2, <2>3, InZone
  <2>5. x = 0 /\ y = 0
    BY Zenon, <2>1, <2>2, <2>4, OppositeIsOrigin
  <2> QED BY SMT, <2>2, <2>5 DEF Point
<1> QED BY <1>1, ZoneInvariant, PTL

(* A zone that holds an impedance holds its half.                             *)
THEOREM ZonesSeeCloser == ZoneSpec => []CloserFaultSeen
<1>1. ZoneInv => CloserFaultSeen
  <2> SUFFICES ASSUME ZoneInv, Finite(Zr), NEW q \in Zones,
                      isInsideQuadrilateral(Scaled(Zr, 2), q)
               PROVE  isInsideQuadrilateral(Zr, q)
    BY Zenon DEF CloserFaultSeen
  <2>1. PICK a, b, c, d, e : q = Corners(a, b, c, d, e) /\ Shape(a, b, c, d, e)
    BY Zenon, ZoneShapes
  <2>2. PICK x \in Int, y \in Int :
            Zr = Point(x, y) /\ \A k \in Int : Scaled(Zr, k) = Point(k * x, k * y)
    BY SMT, FinitePoint DEF ZoneInv
  <2>3. Scaled(Zr, 2) = Point(2 * x, 2 * y) /\ 2 * x \in Int /\ 2 * y \in Int
    BY SMT, <2>2
  <2>4. /\ P1(a, b, 2 * x, 2 * y) <= 0 /\ P2(a, b, c, 2 * y) <= 0
        /\ P3(b, c, d, e, 2 * x, 2 * y) <= 0 /\ P4(d, e, 2 * x, 2 * y) <= 0
    BY Zenon, <2>1, <2>3, InZone
  <2> QED BY Zenon, <2>1, <2>2, <2>4, HalfWay, InZone
<1> QED BY <1>1, ZoneInvariant, PTL

-----------------------------------------------------------------------------
\* The four sides together, and a point with its eight neighbours.
Within(a, b, c, d, e, x, y) ==
    /\ P1(a, b, x, y) <= 0 /\ P2(a, b, c, y) <= 0
    /\ P3(b, c, d, e, x, y) <= 0 /\ P4(d, e, x, y) <= 0

WellWithin(a, b, c, d, e, x, y) ==
    \A i, j \in {-1, 0, 1} : Within(a, b, c, d, e, x + i, y + j)

LEMMA GroundBackUp ==
    ASSUME NEW x \in Int, NEW y \in Int,
           WellWithin(-2928321, 5072000, 6985812, 6580660, -2658759, x, y)
    PROVE  Within(-4392481, 7608000, 7118719, 6580660, -2658759, x, y)
<1>1. \A i, j \in {-1, 0, 1} :
        Within(-2928321, 5072000, 6985812, 6580660, -2658759, x + i, y + j)
  BY SMT DEF WellWithin
<1> QED BY SMT, <1>1 DEF Within, P1, P2, P3, P4

LEMMA PhaseBackUp ==
    ASSUME NEW x \in Int, NEW y \in Int,
           WellWithin(-2928321, 5072000, 4745812, 4387107, -1772506, x, y)
    PROVE  Within(-4392481, 7608000, 4878719, 4387107, -1772506, x, y)
<1>1. \A i, j \in {-1, 0, 1} :
        Within(-2928321, 5072000, 4745812, 4387107, -1772506, x + i, y + j)
  BY SMT DEF WellWithin
<1> QED BY SMT, <1>1 DEF Within, P1, P2, P3, P4

\* A point whose neighbours are all in one quadrilateral is in another.
LEMMA Overreaching ==
    ASSUME NEW a1, NEW b1, NEW c1, NEW d1, NEW e1, Shape(a1, b1, c1, d1, e1),
           NEW a2, NEW b2, NEW c2, NEW d2, NEW e2, Shape(a2, b2, c2, d2, e2),
           NEW x \in Int, NEW y \in Int, Zr = Point(x, y),
           WellWithin(a1, b1, c1, d1, e1, x, y) => Within(a2, b2, c2, d2, e2, x, y)
    PROVE  Overreaches(Corners(a1, b1, c1, d1, e1), Corners(a2, b2, c2, d2, e2))
<1> SUFFICES ASSUME \A z \in Around(Zr) : isInsideQuadrilateral(z, Corners(a1, b1, c1, d1, e1))
             PROVE  isInsideQuadrilateral(Zr, Corners(a2, b2, c2, d2, e2))
  BY Zenon DEF Overreaches
<1>1. ASSUME NEW i \in {-1, 0, 1}, NEW j \in {-1, 0, 1}
      PROVE  Within(a1, b1, c1, d1, e1, x + i, y + j)
  <2>1. Shift(Zr.R, i) = Fin(x + i) /\ Shift(Zr.X, j) = Fin(y + j)
    BY SMT DEF Shift, Fin, Point
  <2>2. Point(x + i, y + j) \in Around(Zr)
    <3>1. [R |-> Shift(Zr.R, i), X |-> Shift(Zr.X, j)] \in Around(Zr)
      BY SMT DEF Around
    <3> QED BY Zenon, <2>1, <3>1 DEF Point
  <2>3. x + i \in Int /\ y + j \in Int
    BY SMT
  <2>4. isInsideQuadrilateral(Point(x + i, y + j), Corners(a1, b1, c1, d1, e1))
    BY Zenon, <2>2
  <2> QED BY Zenon, <2>3, <2>4, InZone DEF Within
<1>2. Within(a2, b2, c2, d2, e2, x, y)
  BY Zenon, <1>1 DEF WellWithin
<1> QED BY Zenon, <1>2, InZone DEF Within

(* With the vertices as the code writes them: what is inside zone 1 by one    *)
(* unit is inside zone 2, for every impedance.                                *)
THEOREM ZonesBackUp ==
    ASSUME Resolution = 1 PROVE ZoneSpec => []ZoneTwoBacksUp
<1>1. ASSUME ZoneInv PROVE ZoneTwoBacksUp
  <2> SUFFICES ASSUME Finite(Zr)
               PROVE  Overreaches(Zone1Ground, Zone2Ground) /\ Overreaches(Zone1Phase, Zone2Phase)
    BY SMT DEF ZoneTwoBacksUp
  <2>1. PICK x \in Int, y \in Int : Zr = Point(x, y)
    BY SMT, <1>1, FinitePoint DEF ZoneInv
  <2>2. /\ Zone1Ground = Corners(-2928321, 5072000, 6985812, 6580660, -2658759)
        /\ Shape(-2928321, 5072000, 6985812, 6580660, -2658759)
    BY SMT, ZoneCorners DEF AtResolution, Shape
  <2>3. /\ Zone2Ground = Corners(-4392481, 7608000, 7118719, 6580660, -2658759)
        /\ Shape(-4392481, 7608000, 7118719, 6580660, -2658759)
    BY SMT, ZoneCorners DEF AtResolution, Shape
  <2>4. /\ Zone1Phase = Corners(-2928321, 5072000, 4745812, 4387107, -1772506)
        /\ Shape(-2928321, 5072000, 4745812, 4387107, -1772506)
    BY SMT, ZoneCorners DEF AtResolution, Shape
  <2>5. /\ Zone2Phase = Corners(-4392481, 7608000, 4878719, 4387107, -1772506)
        /\ Shape(-4392481, 7608000, 4878719, 4387107, -1772506)
    BY SMT, ZoneCorners DEF AtResolution, Shape
  <2>6. Overreaches(Zone1Ground, Zone2Ground)
    BY SMT, <2>1, <2>2, <2>3, Overreaching, GroundBackUp
  <2>7. Overreaches(Zone1Phase, Zone2Phase)
    BY SMT, <2>1, <2>4, <2>5, Overreaching, PhaseBackUp
  <2> QED BY SMT, <2>6, <2>7
<1>2. ZoneInv => ZoneTwoBacksUp
  BY <1>1
<1> QED BY <1>2, ZoneInvariant, PTL
=============================================================================
