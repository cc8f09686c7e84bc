---------------------------- MODULE GatewayReach ----------------------------
(***************************************************************************)
(* What the Network Explorer works out from positions: how far a gateway   *)
(* reaches and what a radius covers (coverage.ts, with the panel whose     *)
(* slider asks for it), which gateway is the nearest to a meter, and the   *)
(* box the map is fitted to (networkModel.ts).  Positions are on a line.   *)
(***************************************************************************)
EXTENDS PagedList

CONSTANTS
  MeterPoints,   \* the lists of meters that may be on the map: at, status, gateway
  GatewayRow,    \* gateways in the order of the answer: id, at, radius (0: none stored)
  NoGatewayId,
  MinRadius, Nudge, \* MIN_RADIUS_M, NUDGE_M
  LeastMax, RoundTo, UsualRadius, \* 3000, 500 and 500 m
  TrimFrom,      \* how many points there must be for the outermost to be left out
  TrimPart       \* one in how many

ASSUME ReachAssumption ==
  /\ {MinRadius, Nudge, LeastMax, UsualRadius} \subseteq Nat
  /\ {RoundTo, TrimFrom, TrimPart} \subseteq Nat \ {0}
  /\ TrimPart > 2 \* the outer parts leave something between them
  /\ \A list \in MeterPoints \cup {GatewayRow} :
       list \in Seq(Members(list)) /\ \A p \in Members(list) : p.at \in Int
  /\ \A gw \in Members(GatewayRow) : gw.radius \in Nat

VARIABLES
  reachPoints,   \* the meters on the map
  reachGateway,  \* which gateway is open
  reachRadius    \* the radius of the panel

reachVars == <<reachPoints, reachGateway, reachRadius>>

Distance(a, b) == IF a < b THEN b - a ELSE a - b
Smaller(a, b) == IF a < b THEN a ELSE b
Larger(a, b) == IF a < b THEN b ELSE a

-----------------------------------------------------------------------------
(* computeGatewayReach.                                                    *)

DistanceTo(gw, i) == Distance(gw.at, reachPoints[i].at)

\* The stable sort by distance, as the positions in the list.
DistanceRank(gw, i) ==
  Cardinality({j \in DOMAIN reachPoints :
    \/ DistanceTo(gw, j) < DistanceTo(gw, i)
    \/ DistanceTo(gw, j) = DistanceTo(gw, i) /\ j <= i})
ByDistance(gw) ==
  [k \in DOMAIN reachPoints |-> CHOOSE i \in DOMAIN reachPoints : DistanceRank(gw, i) = k]

GroupOf(gw, p) ==
  IF p.gateway = gw.id THEN "this" ELSE IF p.gateway # NoGatewayId THEN "other" ELSE "none"

\* Running totals: how many of the k closest are such.
Running(gw, such) ==
  LET rows == ByDistance(gw)
      upTo[k \in 0..Len(reachPoints)] ==
        IF k = 0 THEN 0 ELSE upTo[k - 1] + (IF rows[k] \in such THEN 1 ELSE 0)
  IN upTo

\* Mutant: the radius itself is outside.
CountShort(gw, radius) ==
  LET rows == ByDistance(gw)
      n == Len(reachPoints)
      within[b \in (0..n) \X (0..n)] ==
        LET lo == b[1] hi == b[2] mid == (lo + hi) \div 2
        IN IF lo >= hi THEN lo
           ELSE IF DistanceTo(gw, rows[mid + 1]) < radius THEN within[<<mid + 1, hi>>]
           ELSE within[<<lo, mid>>]
  IN within[<<0, n>>]

\* The binary search over the sorted rows, which count from 0.
CountWithin(gw, radius) ==
  LET rows == ByDistance(gw)
      n == Len(reachPoints)
      within[b \in (0..n) \X (0..n)] ==
        LET lo == b[1] hi == b[2] mid == (lo + hi) \div 2
        IN IF lo >= hi THEN lo
           ELSE IF DistanceTo(gw, rows[mid + 1]) <= radius THEN within[<<mid + 1, hi>>]
           ELSE within[<<lo, mid>>]
  IN within[<<0, n>>]

CoverageAt(gw, radius) ==
  LET k == CountWithin(gw, radius)
  IN [total |-> k,
      groups |-> [g \in {"this", "other", "none"} |->
                    Running(gw, {i \in DOMAIN reachPoints : GroupOf(gw, reachPoints[i]) = g})[k]],
      statuses |-> [s \in {"connected", "disconnected", "never"} |->
                      Running(gw, {i \in DOMAIN reachPoints : reachPoints[i].status = s})[k]]]

Own(gw) ==
  RowsAt(ByDistance(gw), {k \in DOMAIN reachPoints : GroupOf(gw, reachPoints[ByDistance(gw)[k]]) = "this"})
Nearest(gw)  == IF Own(gw) = <<>> THEN 0 ELSE Own(gw)[1]
Farthest(gw) == IF Own(gw) = <<>> THEN 0 ELSE Own(gw)[Len(Own(gw))]

-----------------------------------------------------------------------------
(* nearestGateway and lastGatewayInfo of the open meter.                   *)

NearestGateway(p) ==
  LET best[i \in 0..Len(GatewayRow)] ==
        IF i = 0 THEN 0
        ELSE LET b == best[i - 1] IN
          IF b = 0 \/ Distance(p.at, GatewayRow[i].at) < Distance(p.at, GatewayRow[b].at)
            THEN i ELSE b
  IN best[Len(GatewayRow)]

\* The gateway is named also when it is not on the map; then its distance is not.
LastGateway(p) ==
  LET known == {i \in DOMAIN GatewayRow : GatewayRow[i].id = p.gateway}
  IN IF p.gateway = NoGatewayId THEN [id |-> NoGatewayId, distance |-> -1]
     ELSE [id |-> p.gateway,
           distance |-> IF known = {} THEN -1
                        ELSE LET first == CHOOSE i \in known : \A j \in known : i <= j
                             IN Distance(p.at, GatewayRow[first].at)]

-----------------------------------------------------------------------------
(* trimmedBounds and unionBounds, in one dimension.                        *)

SortedPlaces(list) ==
  [k \in DOMAIN list |->
     CHOOSE a \in {list[i].at : i \in DOMAIN list} :
       /\ Cardinality({i \in DOMAIN list : list[i].at < a}) < k
       /\ Cardinality({i \in DOMAIN list : list[i].at <= a}) >= k]

Cut(list, trim) == IF trim /\ Len(list) >= TrimFrom THEN Len(list) \div TrimPart ELSE 0

NoBox == [from |-> 1, to |-> 0]
TrimmedBox(list, trim) ==
  IF list = <<>> THEN NoBox
  ELSE LET places == SortedPlaces(list)
       IN [from |-> places[1 + Cut(list, trim)], to |-> places[Len(list) - Cut(list, trim)]]

UnionBox(a, b) ==
  IF a = NoBox THEN b ELSE IF b = NoBox THEN a
  ELSE [from |-> Smaller(a.from, b.from), to |-> Larger(a.to, b.to)]

\* What the map is fitted to: trimmed for an area, whole for what a search found.
FittedBox(trim) == UnionBox(TrimmedBox(reachPoints, trim), TrimmedBox(GatewayRow, trim))

-----------------------------------------------------------------------------
(* The panel.                                                              *)

StoredRadius(gw) == IF gw.radius > 0 THEN gw.radius ELSE UsualRadius

MaxRadius(gw) ==
  Larger(LeastMax, ((2 * StoredRadius(gw) + RoundTo - 1) \div RoundTo) * RoundTo)
ClampRadius(gw, r) == Smaller(MaxRadius(gw), Larger(MinRadius, r))

OpenGateway == GatewayRow[reachGateway]

\* Opening a gateway starts at its own radius.
ReachInit ==
  /\ reachPoints \in MeterPoints
  /\ reachGateway \in DOMAIN GatewayRow
  /\ reachRadius = StoredRadius(OpenGateway)

SetRadius(r) ==
  /\ reachRadius' = ClampRadius(OpenGateway, r)
  /\ UNCHANGED <<reachPoints, reachGateway>>

ShrinkRadius == reachRadius > MinRadius /\ SetRadius(reachRadius - Nudge)
GrowRadius   == reachRadius < MaxRadius(OpenGateway) /\ SetRadius(reachRadius + Nudge)
TypeRadius(r) == SetRadius(r)
ResetRadius ==
  /\ reachRadius # ClampRadius(OpenGateway, StoredRadius(OpenGateway))
  /\ SetRadius(StoredRadius(OpenGateway))

ReachNext ==
  \/ ShrinkRadius \/ GrowRadius \/ ResetRadius
  \/ \E r \in 0..(MaxRadius(OpenGateway) + 1) : TypeRadius(r)

-----------------------------------------------------------------------------
Inside(gw, radius) == {i \in DOMAIN reachPoints : DistanceTo(gw, i) <= radius}

\* coverage.ts:46: the panel's numbers, found by a binary search over running totals,
\* are those of the meters in the circle; the nearest and the farthest are the
\* gateway's own.
ReachTold ==
  LET gw == OpenGateway
      told == CoverageAt(gw, reachRadius)
      own == {i \in DOMAIN reachPoints : reachPoints[i].gateway = gw.id}
      IsOwn(i) == IF own = {} THEN i = 0 ELSE i \in own
  IN /\ told.total = Cardinality(Inside(gw, reachRadius))
     /\ \A g \in DOMAIN told.groups :
          told.groups[g] = Cardinality({i \in Inside(gw, reachRadius) :
                                          GroupOf(gw, reachPoints[i]) = g})
     /\ \A s \in DOMAIN told.statuses :
          told.statuses[s] = Cardinality({i \in Inside(gw, reachRadius) :
                                            reachPoints[i].status = s})
     /\ IsOwn(Nearest(gw)) /\ IsOwn(Farthest(gw))
     /\ \A i \in own : /\ DistanceTo(gw, Nearest(gw)) <= DistanceTo(gw, i)
                       /\ DistanceTo(gw, i) <= DistanceTo(gw, Farthest(gw))

\* NetworkExplorerPage.tsx:287 and networkModel.ts:57: the meter's nearest gateway has
\* none closer, its last one is not farther than told; and the map leaves out at
\* most the outer part of the meters and of the gateways on each side, of a
\* short list and of what a search found nothing.
PlacesTold ==
  /\ \A i \in DOMAIN reachPoints :
       LET p == reachPoints[i] IN
         /\ \A g \in DOMAIN GatewayRow :
              Distance(p.at, GatewayRow[NearestGateway(p)].at) <= Distance(p.at, GatewayRow[g].at)
         /\ LastGateway(p).distance >= 0 =>
              Distance(p.at, GatewayRow[NearestGateway(p)].at) <= LastGateway(p).distance
  /\ \A list \in {reachPoints, GatewayRow}, trim \in BOOLEAN :
       LET before == {i \in DOMAIN list : list[i].at < FittedBox(trim).from}
           after == {i \in DOMAIN list : list[i].at > FittedBox(trim).to}
       IN /\ Cardinality(before) * TrimPart <= Len(list)
          /\ Cardinality(after) * TrimPart <= Len(list)
          /\ ~trim \/ Len(list) < TrimFrom => before = {} /\ after = {}
=============================================================================
