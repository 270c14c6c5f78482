------------------------------ MODULE Geometry ------------------------------
(***************************************************************************)
(* The geometry of the zones, on a plane in units of 25 m                  *)
(* (ingress/consumer/consumer.py; backend/app/utils/geometry.py holds the  *)
(* same).  A point is a pair <<x, y>>, a ring a sequence of points, closed *)
(* or not.  Squared distances are fractions <<numerator, denominator>>, so *)
(* that every comparison is exact.                                         *)
(***************************************************************************)
EXTENDS Integers, Sequences, FiniteSets

Edges(ring) == {<<ring[i], ring[1 + (i % Len(ring))]>> : i \in 1..Len(ring)}
\* The edges as a function: two of them may be the same.
EdgeOf(ring, i) == <<ring[i], ring[1 + (i % Len(ring))]>>

Less(f, g)  == f[1] * g[2] < g[1] * f[2]
Square(n)   == <<n * n, 1>>

\* The edge straddles the point's latitude and crosses it to the point's right:
\* x < xi + (xj - xi) * (y - yi) / (yj - yi), multiplied out.
Crosses(p, e) ==
    LET xi == e[2][1] yi == e[2][2] xj == e[1][1] yj == e[1][2]
        left  == (p[1] - xi) * (yj - yi)
        right == (xj - xi) * (p[2] - yi) IN
    /\ (yi > p[2]) # (yj > p[2])
    /\ IF yj > yi THEN left < right ELSE left > right

\* Ray casting: an odd number of edges is crossed.
PointInPolygon(p, ring) ==
    /\ Len(ring) >= 3
    /\ Cardinality({i \in 1..Len(ring) : Crosses(p, EdgeOf(ring, i))}) % 2 = 1

Dot(a, b) == a[1] * b[1] + a[2] * b[2]

\* The point of the edge nearest to p: a corner, or the foot of the perpendicular.
EdgeDistanceSq(p, e) ==
    LET a == <<e[1][1] - p[1], e[1][2] - p[2]>>
        b == <<e[2][1] - p[1], e[2][2] - p[2]>>
        d == <<b[1] - a[1], b[2] - a[2]>>
        length == Dot(d, d)
        t      == -Dot(a, d)
        cross  == a[1] * b[2] - a[2] * b[1] IN
    IF length = 0 \/ t <= 0 THEN <<Dot(a, a), 1>>
    ELSE IF t >= length     THEN <<Dot(b, b), 1>>
    ELSE <<cross * cross, length>>

\* distance_to_polygon_m, squared; of a ring with three points or more.
DistanceSq(p, ring) ==
    IF PointInPolygon(p, ring) THEN <<0, 1>>
    ELSE LET all == {EdgeDistanceSq(p, e) : e \in Edges(ring)} IN
         CHOOSE f \in all : \A g \in all : ~Less(g, f)

\* Three points or more are a polygon.
Usable(ring) == Len(ring) >= 3

=============================================================================
