----------------------- MODULE ConnectionManager_proofs -----------------------
(***************************************************************************)
(* What the operators of the routing table and of the connection manager    *)
(* return, for every table and every manager.                               *)
(***************************************************************************)
EXTENDS ConnectionManager, FiniteSetTheorems, SequenceTheorems, WellFoundedInduction, TLAPS

-----------------------------------------------------------------------------
(* The routing table.                                                       *)

DefaultsLast(routes) ==
    \A i, j \in DOMAIN routes :
        i < j /\ IsDefault(routes[i].route) => IsDefault(routes[j].route)

(* A table as the router keeps it: no mapping twice, default routes last. *)
TableOK(routes) ==
    /\ routes \in Seq(Range(routes))
    /\ IsInjective(routes)
    /\ DefaultsLast(routes)

Mapping(route, id) == [route |-> route, endpoint_id |-> id]

(* Positions are naturals, and some position is the first. *)
LEMMA FirstPosition ==
    ASSUME NEW S \in SUBSET Nat, S # {}
    PROVE  Min(S) \in S /\ \A k \in S : Min(S) <= k
<1>1. PICK m \in S : \A k \in S : <<k, m>> \notin OpToRel(<, Nat)
  BY WFMin, NatLessThanWellFounded, Zenon
<1>2. ASSUME NEW k \in S PROVE m <= k
  <2>1. <<k, m>> \in Nat \X Nat
    OBVIOUS
  <2>2. ~(<<k, m>>[1] < <<k, m>>[2])
    BY <1>1, <2>1, Zenon DEF OpToRel
  <2> QED BY <2>2
<1> QED BY <1>2 DEF Min

(* A known mapping leaves the table as it is, a new one is its last. *)
LEMMA AppendOK ==
    ASSUME NEW routes, routes \in Seq(Range(routes)), IsInjective(routes), NEW mapping
    PROVE  LET pushed == IF mapping \in Range(routes) THEN routes ELSE Append(routes, mapping)
           IN /\ pushed \in Seq(Range(routes) \cup {mapping})
              /\ Range(pushed) = Range(routes) \cup {mapping}
              /\ IsInjective(pushed)
<1>1. CASE mapping \in Range(routes)
  BY <1>1 DEF Range
<1>2. CASE mapping \notin Range(routes)
  <2> DEFINE pushed == Append(routes, mapping)
  <2>1. /\ pushed \in Seq(Range(routes) \cup {mapping})
        /\ Len(pushed) = Len(routes) + 1
        /\ \A i \in 1 .. Len(routes) : pushed[i] = routes[i]
        /\ pushed[Len(routes) + 1] = mapping
        /\ DOMAIN routes = 1 .. Len(routes) /\ DOMAIN pushed = 1 .. Len(pushed)
        /\ Len(routes) \in Nat
    OBVIOUS
  <2>2. Range(pushed) = Range(routes) \cup {mapping}
    BY <2>1 DEF Range
  <2>3. IsInjective(pushed)
    BY <1>2, <2>1 DEF IsInjective, Range
  <2> QED BY <1>2, <2>1, <2>2, <2>3
<1> QED BY <1>1, <1>2

(* The first default route and the last mapping change places. *)
LEMMA SwapOK ==
    ASSUME NEW M, NEW pushed \in Seq(M), Range(pushed) = M, IsInjective(pushed),
           DefaultPositions(pushed) # {},
           NEW first, first = Min(DefaultPositions(pushed)),
           NEW last, last = Len(pushed),
           \A i, j \in 1 .. last - 1 :
                i < j /\ IsDefault(pushed[i].route) => IsDefault(pushed[j].route)
    PROVE  LET swapped == [pushed EXCEPT ![first] = pushed[last], ![last] = pushed[first]]
           IN swapped \in Seq(M) /\ Range(swapped) = M /\ IsInjective(swapped) /\ DefaultsLast(swapped)
<1> DEFINE swapped == [pushed EXCEPT ![first] = pushed[last], ![last] = pushed[first]]
<1>1. /\ DOMAIN pushed = 1 .. last /\ last \in Nat
      /\ \A i \in 1 .. last : pushed[i] \in M
  OBVIOUS
<1>2. /\ first \in 1 .. last /\ IsDefault(pushed[first].route)
      /\ \A i \in 1 .. last : IsDefault(pushed[i].route) => first <= i
  <2>1. DefaultPositions(pushed) \in SUBSET (1 .. last) /\ 1 .. last \in SUBSET Nat
    BY <1>1 DEF DefaultPositions
  <2>2. /\ first \in DefaultPositions(pushed)
        /\ \A k \in DefaultPositions(pushed) : first <= k
    BY <2>1, FirstPosition
  <2> QED BY <1>1, <2>1, <2>2 DEF DefaultPositions
<1>3. /\ DOMAIN swapped = 1 .. last
      /\ \A i \in 1 .. last : swapped[i] = IF i = last THEN pushed[first]
                                           ELSE IF i = first THEN pushed[last] ELSE pushed[i]
      /\ \A i \in 1 .. last : swapped[i] \in M
  BY <1>1, <1>2
<1>4. swapped \in Seq(M)
  <2>1. swapped = [i \in 1 .. last |-> swapped[i]]
    BY <1>1
  <2> HIDE DEF swapped
  <2>2. swapped \in [1 .. last -> M]
    BY <1>3, <2>1
  <2> QED BY <1>1, <2>2, SeqDef
<1>5. Range(swapped) = M
  <2>1. ASSUME NEW i \in 1 .. last PROVE \E j \in 1 .. last : swapped[j] = pushed[i]
    BY <1>1, <1>2, <1>3
  <2>2. M = {pushed[i] : i \in 1 .. last}
    BY <1>1 DEF Range
  <2>3. Range(swapped) = {swapped[i] : i \in 1 .. last}
    BY <1>3, Zenon DEF Range
  <2> HIDE DEF swapped
  <2>4. Range(swapped) \subseteq M
    BY <1>3, <2>3
  <2>5. M \subseteq Range(swapped)
    <3> SUFFICES ASSUME NEW i \in 1 .. last PROVE pushed[i] \in Range(swapped)
      BY <2>2
    <3>1. PICK j \in 1 .. last : swapped[j] = pushed[i]
      BY <2>1
    <3> QED BY <2>3, <3>1, Zenon
  <2> QED BY <2>4, <2>5, Zenon
<1>6. IsInjective(swapped)
  BY <1>1, <1>2, <1>3 DEF IsInjective
<1>7. DefaultsLast(swapped)
  <2> SUFFICES ASSUME NEW i \in 1 .. last, NEW j \in 1 .. last, i < j,
                      IsDefault(swapped[i].route)
               PROVE  IsDefault(swapped[j].route)
    BY <1>3 DEF DefaultsLast
  <2>1. CASE j = last
    BY <1>2, <1>3, <2>1
  <2>2. CASE j # last
    <3>1. i \in 1 .. last - 1 /\ j \in 1 .. last - 1
      BY <1>1, <2>2
    <3>2. first <= i
      BY <1>1, <1>2, <1>3, <3>1
    <3>3. swapped[j] = pushed[j]
      BY <1>1, <1>2, <1>3, <2>2, <3>2
    <3>4. first \in 1 .. last - 1 /\ first < j
      BY <1>1, <1>2, <3>1, <3>2
    <3> QED BY <1>2, <3>1, <3>3, <3>4
  <2> QED BY <2>1, <2>2
<1> QED BY <1>4, <1>5, <1>6, <1>7

(* insert_route *)
LEMMA InsertRouteOK ==
    ASSUME NEW routes, TableOK(routes), NEW route, NEW id
    PROVE  /\ TableOK(InsertRoute(routes, route, id))
           /\ Range(InsertRoute(routes, route, id)) = Range(routes) \cup {Mapping(route, id)}
<1> DEFINE mapping == Mapping(route, id)
           pushed == IF mapping \in Range(routes) THEN routes ELSE Append(routes, mapping)
           first == Min(DefaultPositions(pushed))
           last == Len(pushed)
           swapped == [pushed EXCEPT ![first] = pushed[last], ![last] = pushed[first]]
           M == Range(routes) \cup {mapping}
<1>1. /\ routes \in Seq(Range(routes)) /\ IsInjective(routes)
      /\ DOMAIN routes = 1 .. Len(routes) /\ Len(routes) \in Nat
  BY DEF TableOK
<1>2. pushed \in Seq(M) /\ Range(pushed) = M /\ IsInjective(pushed)
  BY <1>1, AppendOK
<1>3. InsertRoute(routes, route, id) = IF DefaultPositions(pushed) = {} THEN pushed ELSE swapped
  BY DEF InsertRoute, Mapping
<1> HIDE DEF pushed
<1>4. CASE DefaultPositions(pushed) = {}
  <2>1. DefaultsLast(pushed)
    BY <1>4 DEF DefaultsLast, DefaultPositions
  <2> QED BY <1>2, <1>3, <1>4, <2>1 DEF TableOK
<1>5. CASE DefaultPositions(pushed) # {}
  <2>1. last - 1 <= Len(routes) /\ \A i \in 1 .. last - 1 : i \in DOMAIN routes /\ pushed[i] = routes[i]
    BY <1>1 DEF pushed
  <2>2. \A i, j \in 1 .. last - 1 :
            i < j /\ IsDefault(pushed[i].route) => IsDefault(pushed[j].route)
    BY <2>1 DEF TableOK, DefaultsLast
  <2>3. swapped \in Seq(M) /\ Range(swapped) = M /\ IsInjective(swapped) /\ DefaultsLast(swapped)
    <3> HIDE DEF M
    <3> QED BY <1>2, <1>5, <2>2, SwapOK
  <2> QED BY <1>3, <1>5, <2>3 DEF TableOK
<1> QED BY <1>4, <1>5

(* insert[i] is the table after i routes of a message. *)
InsertSteps(insert, routes, static_routes, id) ==
    insert = [i \in 0 .. Len(static_routes) |->
                IF i = 0 THEN routes ELSE InsertRoute(insert[i - 1], static_routes[i], id)]

(* The loop over the routes of a message is well defined. *)
LEMMA InsertRoutesSteps ==
    ASSUME NEW routes, NEW static_routes, Len(static_routes) \in Nat, NEW id
    PROVE  \E insert :
                /\ InsertSteps(insert, routes, static_routes, id)
                /\ InsertRoutes(routes, static_routes, id) = insert[Len(static_routes)]
<1> DEFINE Step(f, i) == IF i = 0 THEN routes ELSE InsertRoute(f[i - 1], static_routes[i], id)
           Table(f, n) == f = [i \in 0 .. n |-> Step(f, i)]
           Bad == {n \in Nat : ~\E f : Table(f, n)}
<1>1. Bad = {}
  <2> SUFFICES ASSUME Bad # {} PROVE FALSE
    OBVIOUS
  <2>1. PICK n \in Bad : \A k \in Bad : n <= k
    BY FirstPosition, Bad \in SUBSET Nat
  <2>2. CASE n = 0
    <3> DEFINE f == [i \in 0 .. 0 |-> routes]
    <3>1. Table(f, 0)
      OBVIOUS
    <3> QED BY <2>1, <2>2, <3>1
  <2>3. CASE n # 0
    <3>1. PICK g : Table(g, n - 1)
      <4> HIDE DEF Table
      <4>1. n - 1 \in Nat /\ ~(n <= n - 1)
        BY <2>1, <2>3
      <4>2. n - 1 \notin Bad
        BY <2>1, <4>1, Zenon
      <4> QED BY <4>1, <4>2, Zenon
    <3> DEFINE f == [i \in 0 .. n |-> IF i = n THEN Step(g, n) ELSE g[i]]
    <3>2. ASSUME NEW i \in 0 .. n PROVE f[i] = Step(f, i)
      <4>1. CASE i = n
        BY <2>1, <2>3, <4>1
      <4>2. CASE i # n
        <5>1. i \in 0 .. n - 1 /\ f[i] = g[i]
          BY <2>1, <4>2
        <5>2. g[i] = Step(g, i)
          BY <3>1, <5>1
        <5>3. i # 0 => f[i - 1] = g[i - 1]
          BY <2>1, <5>1
        <5> HIDE DEF f
        <5> QED BY <5>1, <5>2, <5>3
      <4> QED BY <4>1, <4>2
    <3>3. Table(f, n)
      <4>1. f = [i \in 0 .. n |-> f[i]]
        OBVIOUS
      <4> HIDE DEF f, Step
      <4> QED BY <3>2, <4>1
    <3> HIDE DEF f, Table
    <3> QED BY <2>1, <3>3
  <2> QED BY <2>2, <2>3
<1>2. \E f : Table(f, Len(static_routes))
  BY <1>1
<1>3. Table(CHOOSE f : Table(f, Len(static_routes)), Len(static_routes))
  <2> HIDE DEF Table
  <2> QED BY <1>2
<1>4. InsertRoutes(routes, static_routes, id)
        = (CHOOSE f : Table(f, Len(static_routes)))[Len(static_routes)]
  BY DEF InsertRoutes
<1> QED BY <1>3, <1>4 DEF InsertSteps

(* The routes of a message are inserted one by one. *)
LEMMA InsertRoutesOK ==
    ASSUME NEW routes, TableOK(routes),
           NEW static_routes, static_routes \in Seq(Range(static_routes)), NEW id
    PROVE  /\ TableOK(InsertRoutes(routes, static_routes, id))
           /\ Range(InsertRoutes(routes, static_routes, id))
                = Range(routes) \cup {Mapping(r, id) : r \in Range(static_routes)}
<1> DEFINE n == Len(static_routes)
<1>0. n \in Nat /\ DOMAIN static_routes = 1 .. n
  OBVIOUS
<1>1. PICK insert : /\ InsertSteps(insert, routes, static_routes, id)
                     /\ InsertRoutes(routes, static_routes, id) = insert[n]
  BY <1>0, InsertRoutesSteps
<1> DEFINE Inserted(i) ==
                /\ TableOK(insert[i])
                /\ Range(insert[i]) = Range(routes) \cup {Mapping(static_routes[j], id) : j \in 1 .. i}
           Bad == {i \in 0 .. n : ~Inserted(i)}
<1>2. Bad = {}
  <2> SUFFICES ASSUME Bad # {} PROVE FALSE
    OBVIOUS
  <2>1. PICK i \in Bad : \A k \in Bad : i <= k
    BY <1>0, FirstPosition, Bad \in SUBSET Nat
  <2>2. CASE i = 0
    <3>1. insert[0] = routes
      BY <1>0, <1>1 DEF InsertSteps
    <3> QED BY <2>1, <2>2, <3>1
  <2>3. CASE i # 0
    <3>1. i \in 1 .. n /\ i - 1 \in 0 .. n
      BY <1>0, <2>1, <2>3
    <3>2. Inserted(i - 1)
      BY <2>1, <3>1
    <3>3. insert[i] = InsertRoute(insert[i - 1], static_routes[i], id)
      <4>1. i \in 0 .. n /\ i # 0
        BY <1>0, <3>1
      <4> QED BY <1>1, <4>1, Zenon DEF InsertSteps
    <3>4. /\ TableOK(insert[i])
          /\ Range(insert[i]) = Range(insert[i - 1]) \cup {Mapping(static_routes[i], id)}
      BY <3>2, <3>3, InsertRouteOK
    <3>5. {Mapping(static_routes[j], id) : j \in 1 .. i}
            = {Mapping(static_routes[j], id) : j \in 1 .. (i - 1)} \cup {Mapping(static_routes[i], id)}
      BY <3>1
    <3> QED BY <2>1, <3>2, <3>4, <3>5
  <2> QED BY <2>2, <2>3
<1>3. Inserted(n)
  BY <1>0, <1>2
<1>4. {Mapping(static_routes[j], id) : j \in 1 .. n} = {Mapping(r, id) : r \in Range(static_routes)}
  BY <1>0 DEF Range
<1> QED BY <1>1, <1>3, <1>4

(* kept[i] is what stays of the first i mappings. *)
KeepSteps(kept, routes, gone) ==
    kept = [i \in 0 .. Len(routes) |->
                IF i = 0 THEN <<>>
                ELSE IF routes[i].endpoint_id \in gone THEN kept[i - 1]
                ELSE Append(kept[i - 1], routes[i])]

(* The loop over the table is well defined. *)
LEMMA RemoveRoutesSteps ==
    ASSUME NEW routes, Len(routes) \in Nat, NEW gone
    PROVE  \E kept : /\ KeepSteps(kept, routes, gone)
                     /\ RemoveRoutes(routes, gone) = kept[Len(routes)]
<1> DEFINE Step(f, i) == IF i = 0 THEN <<>>
                         ELSE IF routes[i].endpoint_id \in gone THEN f[i - 1]
                         ELSE Append(f[i - 1], routes[i])
           Table(f, n) == f = [i \in 0 .. n |-> Step(f, i)]
           Bad == {n \in Nat : ~\E f : Table(f, n)}
<1>1. Bad = {}
  <2> SUFFICES ASSUME Bad # {} PROVE FALSE
    OBVIOUS
  <2>1. PICK n \in Bad : \A k \in Bad : n <= k
    BY FirstPosition, Bad \in SUBSET Nat
  <2>2. CASE n = 0
    <3> DEFINE f == [i \in 0 .. 0 |-> <<>>]
    <3>1. Table(f, 0)
      OBVIOUS
    <3> QED BY <2>1, <2>2, <3>1
  <2>3. CASE n # 0
    <3>1. PICK g : Table(g, n - 1)
      <4> HIDE DEF Table
      <4>1. n - 1 \in Nat /\ ~(n <= n - 1)
        BY <2>1, <2>3
      <4>2. n - 1 \notin Bad
        BY <2>1, <4>1, Zenon
      <4> QED BY <4>1, <4>2, Zenon
    <3> DEFINE f == [i \in 0 .. n |-> IF i = n THEN Step(g, n) ELSE g[i]]
    <3>2. ASSUME NEW i \in 0 .. n PROVE f[i] = Step(f, i)
      <4>1. CASE i = n
        BY <2>1, <2>3, <4>1
      <4>2. CASE i # n
        <5>1. i \in 0 .. n - 1 /\ f[i] = g[i]
          BY <2>1, <4>2
        <5>2. g[i] = Step(g, i)
          BY <3>1, <5>1
        <5>3. i # 0 => f[i - 1] = g[i - 1]
          BY <2>1, <5>1
        <5> HIDE DEF f
        <5> QED BY <5>1, <5>2, <5>3
      <4> QED BY <4>1, <4>2
    <3>3. Table(f, n)
      <4>1. f = [i \in 0 .. n |-> f[i]]
        OBVIOUS
      <4> HIDE DEF f, Step
      <4> QED BY <3>2, <4>1
    <3> HIDE DEF f, Table
    <3> QED BY <2>1, <3>3
  <2> QED BY <2>2, <2>3
<1>2. \E f : Table(f, Len(routes))
  BY <1>1
<1>3. Table(CHOOSE f : Table(f, Len(routes)), Len(routes))
  <2> HIDE DEF Table
  <2> QED BY <1>2
<1>4. RemoveRoutes(routes, gone) = (CHOOSE f : Table(f, Len(routes)))[Len(routes)]
  BY DEF RemoveRoutes
<1> QED BY <1>3, <1>4 DEF KeepSteps

(* A mapping that follows all of a table in another one may be added to it. *)
LEMMA AppendLaterOK ==
    ASSUME NEW kept, TableOK(kept), NEW mapping, mapping \notin Range(kept),
           (\E m \in Range(kept) : IsDefault(m.route)) => IsDefault(mapping.route)
    PROVE  TableOK(Append(kept, mapping)) /\ Range(Append(kept, mapping)) = Range(kept) \cup {mapping}
<1>1. /\ Append(kept, mapping) \in Seq(Range(kept) \cup {mapping})
      /\ Range(Append(kept, mapping)) = Range(kept) \cup {mapping}
      /\ IsInjective(Append(kept, mapping))
  BY AppendOK DEF TableOK
<1>2. DefaultsLast(Append(kept, mapping))
  <2>1. /\ DOMAIN kept = 1 .. Len(kept) /\ Len(kept) \in Nat
        /\ DOMAIN Append(kept, mapping) = 1 .. Len(kept) + 1
        /\ \A i \in 1 .. Len(kept) : Append(kept, mapping)[i] = kept[i]
        /\ Append(kept, mapping)[Len(kept) + 1] = mapping
    BY DEF TableOK
  <2> SUFFICES ASSUME NEW i \in 1 .. Len(kept) + 1, NEW j \in 1 .. Len(kept) + 1, i < j,
                      IsDefault(Append(kept, mapping)[i].route)
               PROVE  IsDefault(Append(kept, mapping)[j].route)
    BY <2>1 DEF DefaultsLast
  <2>2. i \in 1 .. Len(kept) /\ IsDefault(kept[i].route) /\ kept[i] \in Range(kept)
    BY <2>1 DEF Range
  <2>3. CASE j = Len(kept) + 1
    BY <2>1, <2>2, <2>3
  <2>4. CASE j # Len(kept) + 1
    BY <2>1, <2>2, <2>4 DEF TableOK, DefaultsLast
  <2> QED BY <2>3, <2>4
<1> QED BY <1>1, <1>2 DEF TableOK

(* Exactly the mappings of the endpoints that are gone leave. *)
LEMMA RemoveRoutesOK ==
    ASSUME NEW routes, TableOK(routes), NEW gone
    PROVE  /\ TableOK(RemoveRoutes(routes, gone))
           /\ Range(RemoveRoutes(routes, gone)) = {m \in Range(routes) : m.endpoint_id \notin gone}
<1> DEFINE n == Len(routes)
           Stay(i) == {routes[j] : j \in {k \in 1 .. i : routes[k].endpoint_id \notin gone}}
<1>0. n \in Nat /\ DOMAIN routes = 1 .. n
  BY DEF TableOK
<1>1. PICK kept : KeepSteps(kept, routes, gone) /\ RemoveRoutes(routes, gone) = kept[n]
  BY <1>0, RemoveRoutesSteps
<1> DEFINE Kept(i) == TableOK(kept[i]) /\ Range(kept[i]) = Stay(i)
           Bad == {i \in 0 .. n : ~Kept(i)}
<1>2. Bad = {}
  <2> SUFFICES ASSUME Bad # {} PROVE FALSE
    OBVIOUS
  <2>1. PICK i \in Bad : \A k \in Bad : i <= k
    BY <1>0, FirstPosition, Bad \in SUBSET Nat
  <2>2. CASE i = 0
    <3>1. kept[0] = <<>>
      BY <1>0, <1>1 DEF KeepSteps
    <3>2. Range(<<>>) = {} /\ Stay(0) = {}
      BY DEF Range
    <3>3. TableOK(<<>>)
      BY <3>2 DEF TableOK, IsInjective, DefaultsLast
    <3> QED BY <2>1, <2>2, <3>1, <3>2, <3>3
  <2>3. CASE i # 0
    <3>1. i \in 1 .. n /\ i - 1 \in 0 .. n
      BY <1>0, <2>1, <2>3
    <3>2. Kept(i - 1)
      <4> HIDE DEF Kept
      <4> QED BY <2>1, <3>1
    <3>3. kept[i] = IF routes[i].endpoint_id \in gone THEN kept[i - 1]
                    ELSE Append(kept[i - 1], routes[i])
      <4>1. i \in 0 .. n /\ i # 0
        BY <3>1
      <4> QED BY <1>1, <4>1, Zenon DEF KeepSteps
    <3>4. Stay(i) = IF routes[i].endpoint_id \in gone THEN Stay(i - 1)
                    ELSE Stay(i - 1) \cup {routes[i]}
      BY <3>1
    <3>5. CASE routes[i].endpoint_id \in gone
      BY <2>1, <3>2, <3>3, <3>4, <3>5
    <3>6. CASE routes[i].endpoint_id \notin gone
      <4>1. routes[i] \notin Stay(i - 1)
        BY <1>0, <3>1 DEF TableOK, IsInjective
      <4>2. (\E m \in Stay(i - 1) : IsDefault(m.route)) => IsDefault(routes[i].route)
        BY <1>0, <3>1 DEF TableOK, DefaultsLast
      <4> HIDE DEF Stay
      <4>3. Kept(i)
        BY <3>2, <3>3, <3>4, <3>6, <4>1, <4>2, AppendLaterOK
      <4> QED BY <2>1, <4>3
    <3> QED BY <3>5, <3>6
  <2> QED BY <2>2, <2>3
<1>3. Kept(n)
  BY <1>0, <1>2
<1>4. Stay(n) = {m \in Range(routes) : m.endpoint_id \notin gone}
  BY <1>0 DEF Range
<1> QED BY <1>1, <1>3, <1>4

-----------------------------------------------------------------------------
(* Endpoints.                                                               *)

EndpointOK(e) ==
    /\ e = [session_id |-> e.session_id, connections |-> e.connections, tx_counter |-> e.tx_counter]
    /\ e.connections \in [Keys(e) -> [state : ConnectionStates, enabled : BOOLEAN]]
    /\ e.tx_counter \in Nat

(* f has the session of e and the connections in keys. *)
SameWithKeys(e, f, keys) ==
    /\ EndpointOK(f)
    /\ f.session_id = e.session_id
    /\ Keys(f) = keys

(* An endpoint is its three fields. *)
LEMMA SetConnections ==
    ASSUME NEW e, EndpointOK(e), NEW conns
    PROVE  [e EXCEPT !.connections = conns]
                = [session_id |-> e.session_id, connections |-> conns, tx_counter |-> e.tx_counter]
BY DEF EndpointOK

(* A new endpoint has no connections. *)
LEMMA NewEndpointOK ==
    ASSUME NEW session
    PROVE  /\ EndpointOK(NewEndpoint(session))
           /\ NewEndpoint(session).session_id = session
           /\ NewEndpoint(session).tx_counter = 0
           /\ Keys(NewEndpoint(session)) = {}
BY DEF EndpointOK, NewEndpoint, Keys

(* Connections are added as Startup, those that are listed stay as they are. *)
LEMMA WithConnectionsOK ==
    ASSUME NEW e, EndpointOK(e), NEW keys
    PROVE  LET f == WithConnections(e, keys)
           IN /\ SameWithKeys(e, f, Keys(e) \cup keys)
              /\ f.tx_counter = e.tx_counter
              /\ \A k \in Keys(e) : f.connections[k] = e.connections[k]
              /\ \A k \in keys \ Keys(e) : f.connections[k] = NewConnection
<1> DEFINE conns == [k \in Keys(e) \cup keys |->
                        IF k \in Keys(e) THEN e.connections[k] ELSE NewConnection]
           f == WithConnections(e, keys)
<1>1. conns \in [Keys(e) \cup keys -> [state : ConnectionStates, enabled : BOOLEAN]]
  BY DEF EndpointOK, NewConnection, ConnectionStates
<1>2. f = [session_id |-> e.session_id, connections |-> conns, tx_counter |-> e.tx_counter]
  BY DEF EndpointOK, WithConnections
<1> QED BY <1>1, <1>2 DEF EndpointOK, SameWithKeys, Keys

(* Only the states of the connections change, and Disconnected is final. *)
StatesChange(e, f) ==
    /\ SameWithKeys(e, f, Keys(e))
    /\ f.tx_counter = e.tx_counter
    /\ DisconnectedKeys(e) \subseteq DisconnectedKeys(f)

(* The connections whose write failed are Disconnected. *)
LEMMA DisconnectOK ==
    ASSUME NEW e, EndpointOK(e), NEW failed
    PROVE  /\ StatesChange(e, Disconnect(e, failed))
           /\ DisconnectedKeys(Disconnect(e, failed)) = DisconnectedKeys(e) \cup (Keys(e) \cap failed)
           /\ \A k \in Keys(e) \ failed : Disconnect(e, failed).connections[k] = e.connections[k]
<1> DEFINE State(k) == IF k \in failed THEN "Disconnected" ELSE e.connections[k].state
           conns == [k \in Keys(e) |-> [e.connections[k] EXCEPT !.state = State(k)]]
           f == Disconnect(e, failed)
<1>1. f = [session_id |-> e.session_id, connections |-> conns, tx_counter |-> e.tx_counter]
  BY DEF EndpointOK, Disconnect
<1>2. ASSUME NEW k \in Keys(e)
      PROVE  /\ conns[k] \in [state : ConnectionStates, enabled : BOOLEAN]
             /\ conns[k].state = State(k)
             /\ k \notin failed => conns[k] = e.connections[k]
  <2>1. e.connections[k] \in [state : ConnectionStates, enabled : BOOLEAN]
    BY DEF EndpointOK
  <2> QED BY <2>1 DEF ConnectionStates
<1>3. SameWithKeys(e, f, Keys(e)) /\ f.tx_counter = e.tx_counter
  BY <1>1, <1>2 DEF SameWithKeys, EndpointOK, Keys
<1>4. DisconnectedKeys(f) = DisconnectedKeys(e) \cup (Keys(e) \cap failed)
  <2>1. f.connections = conns /\ Keys(f) = Keys(e)
    BY <1>1, <1>3 DEF SameWithKeys
  <2>2. \A k \in Keys(e) :
            conns[k].state = "Disconnected"
                <=> e.connections[k].state = "Disconnected" \/ k \in failed
    BY <1>2
  <2> HIDE DEF conns, f
  <2> QED BY <2>1, <2>2 DEF DisconnectedKeys
<1> QED BY <1>1, <1>2, <1>3, <1>4 DEF StatesChange

(* A HelloAck is sent on the connections that are not Disconnected. *)
LEMMA AcknowledgeOK ==
    ASSUME NEW e, EndpointOK(e), NEW failed
    PROVE  StatesChange(e, Acknowledge(e, failed))
<1> DEFINE State(k) == IF e.connections[k].state = "Disconnected" \/ k \in failed
                       THEN "Disconnected" ELSE "Connected"
           conns == [k \in Keys(e) |-> [e.connections[k] EXCEPT !.state = State(k)]]
           f == Acknowledge(e, failed)
<1>1. f = [session_id |-> e.session_id, connections |-> conns, tx_counter |-> e.tx_counter]
  <2>1. f = [e EXCEPT !.connections = conns]
    <3>1. ASSUME NEW k \in Keys(e)
          PROVE  [e.connections[k] EXCEPT !.state =
                    IF @ = "Disconnected" \/ k \in failed THEN "Disconnected" ELSE "Connected"] = conns[k]
      OBVIOUS
    <3> QED BY <3>1, Zenon DEF Acknowledge
  <2> HIDE DEF conns, f
  <2> QED BY <2>1 DEF EndpointOK
<1>2. ASSUME NEW k \in Keys(e)
      PROVE  /\ conns[k] \in [state : ConnectionStates, enabled : BOOLEAN]
             /\ conns[k].state = State(k)
  <2>1. e.connections[k] \in [state : ConnectionStates, enabled : BOOLEAN]
    BY DEF EndpointOK
  <2> QED BY <2>1 DEF ConnectionStates
<1>3. SameWithKeys(e, f, Keys(e)) /\ f.tx_counter = e.tx_counter
  BY <1>1, <1>2 DEF SameWithKeys, EndpointOK, Keys
<1>4. DisconnectedKeys(e) \subseteq DisconnectedKeys(f)
  <2>1. f.connections = conns /\ Keys(f) = Keys(e)
    BY <1>1, <1>3 DEF SameWithKeys
  <2>2. ASSUME NEW k \in Keys(e), e.connections[k].state = "Disconnected"
        PROVE  conns[k].state = "Disconnected"
    BY <1>2, <2>2
  <2> HIDE DEF conns, f
  <2> QED BY <2>1, <2>2 DEF DisconnectedKeys
<1> QED BY <1>3, <1>4 DEF StatesChange

(* The connections that stay keep their states. *)
LEMMA WithoutConnectionsOK ==
    ASSUME NEW e, EndpointOK(e), NEW keys
    PROVE  LET f == WithoutConnections(e, keys)
           IN /\ SameWithKeys(e, f, Keys(e) \ keys)
              /\ f.tx_counter = e.tx_counter
              /\ \A k \in Keys(e) \ keys : f.connections[k] = e.connections[k]
<1> DEFINE conns == [k \in Keys(e) \ keys |-> e.connections[k]]
           f == WithoutConnections(e, keys)
<1>1. f = [session_id |-> e.session_id, connections |-> conns, tx_counter |-> e.tx_counter]
  BY DEF EndpointOK, WithoutConnections, Restrict
<1>2. conns \in [Keys(e) \ keys -> [state : ConnectionStates, enabled : BOOLEAN]]
  BY DEF EndpointOK
<1> QED BY <1>1, <1>2 DEF SameWithKeys, EndpointOK, Keys

-----------------------------------------------------------------------------
(* Managers.                                                                *)

ManagerOK(cm) ==
    /\ cm = [endpoints |-> cm.endpoints, routes |-> cm.routes,
             session_history |-> cm.session_history]
    /\ cm.endpoints = [id \in Ids(cm) |-> cm.endpoints[id]]
    /\ \A id \in Ids(cm) : EndpointOK(cm.endpoints[id])
    /\ TableOK(cm.routes)

(* The endpoint f continues e: it has its session, all of its connections,  *)
(* perhaps some of new, and none that was Disconnected is anything else.    *)
Continues(e, f, new) ==
    /\ f.session_id = e.session_id
    /\ Keys(e) \subseteq Keys(f)
    /\ Keys(f) \subseteq Keys(e) \cup new
    /\ DisconnectedKeys(e) \subseteq DisconnectedKeys(f)

(* No endpoint came or left, and all continue. *)
Refreshed(cm, after, new) ==
    /\ ManagerOK(after)
    /\ Ids(after) = Ids(cm)
    /\ after.session_history = cm.session_history
    /\ \A id \in Ids(cm) : Continues(cm.endpoints[id], after.endpoints[id], new)

(* Connections and endpoints left, and with the endpoints their routes. *)
Shrunk(cm, after) ==
    /\ ManagerOK(after)
    /\ Ids(after) \subseteq Ids(cm)
    /\ after.session_history = cm.session_history
    /\ Range(after.routes) = {m \in Range(cm.routes) : m.endpoint_id \notin Ids(cm) \ Ids(after)}
    /\ \A id \in Ids(after) :
        LET e == cm.endpoints[id] f == after.endpoints[id]
        IN /\ f.session_id = e.session_id /\ f.tx_counter = e.tx_counter
           /\ Keys(f) \subseteq Keys(e)
           /\ \A k \in Keys(f) : f.connections[k] = e.connections[k]

NoneEmpty(cm) == \A id \in Ids(cm) : HasConnections(cm.endpoints[id])

(* A manager starts empty. *)
LEMMA NewManagerOK ==
    ManagerOK(NewManager) /\ Ids(NewManager) = {} /\ Range(NewManager.routes) = {}
<1>1. TableOK(<<>>) /\ Range(<<>>) = {}
  BY DEF TableOK, IsInjective, DefaultsLast, Range
<1> QED BY <1>1 DEF ManagerOK, NewManager, Ids

(* One endpoint is put into the manager. *)
LEMMA WithEndpointOK ==
    ASSUME NEW cm, ManagerOK(cm), NEW id, NEW e, EndpointOK(e)
    PROVE  LET after == WithEndpoint(cm, id, e)
           IN /\ ManagerOK(after)
              /\ Ids(after) = Ids(cm) \cup {id}
              /\ after.endpoints[id] = e
              /\ \A i \in Ids(cm) \ {id} : after.endpoints[i] = cm.endpoints[i]
              /\ after.routes = cm.routes
              /\ after.session_history = cm.session_history
<1> DEFINE endpoints == [i \in Ids(cm) \cup {id} |-> IF i = id THEN e ELSE cm.endpoints[i]]
           after == WithEndpoint(cm, id, e)
<1>1. after = [endpoints |-> endpoints, routes |-> cm.routes, session_history |-> cm.session_history]
  <2>1. after = [cm EXCEPT !.endpoints = endpoints]
    BY Zenon DEF WithEndpoint
  <2> HIDE DEF after, endpoints
  <2> QED BY <2>1 DEF ManagerOK
<1>2. /\ Ids(after) = Ids(cm) \cup {id}
      /\ \A i \in Ids(after) : EndpointOK(after.endpoints[i])
  BY <1>1 DEF Ids, ManagerOK
<1>3. after.endpoints = [i \in Ids(after) |-> after.endpoints[i]]
  BY <1>1, <1>2
<1> HIDE DEF after
<1>4. ManagerOK(after)
  BY <1>1, <1>2, <1>3 DEF ManagerOK
<1>5. /\ after.endpoints[id] = e
      /\ \A i \in Ids(cm) \ {id} : after.endpoints[i] = cm.endpoints[i]
      /\ after.routes = cm.routes
      /\ after.session_history = cm.session_history
  BY <1>1
<1> QED BY <1>2, <1>4, <1>5 DEF after

(* The routing table is replaced. *)
LEMMA WithRoutesOK ==
    ASSUME NEW cm, ManagerOK(cm), NEW routes, TableOK(routes),
           NEW after, after = [cm EXCEPT !.routes = routes]
    PROVE  /\ ManagerOK(after)
           /\ after.endpoints = cm.endpoints /\ Ids(after) = Ids(cm)
           /\ after.routes = routes
           /\ after.session_history = cm.session_history
<1>1. after = [endpoints |-> cm.endpoints, routes |-> routes, session_history |-> cm.session_history]
  BY DEF ManagerOK
<1>2. Ids(after) = Ids(cm)
  BY <1>1 DEF Ids
<1> QED BY <1>1, <1>2 DEF ManagerOK

(* Every endpoint is replaced. *)
LEMMA WithEndpointsOK ==
    ASSUME NEW cm, ManagerOK(cm), NEW endpoints,
           endpoints = [id \in Ids(cm) |-> endpoints[id]],
           \A id \in Ids(cm) : EndpointOK(endpoints[id]),
           NEW after, after = [cm EXCEPT !.endpoints = endpoints]
    PROVE  /\ ManagerOK(after)
           /\ after.endpoints = endpoints /\ Ids(after) = Ids(cm)
           /\ after.routes = cm.routes
           /\ after.session_history = cm.session_history
<1>1. after = [endpoints |-> endpoints, routes |-> cm.routes, session_history |-> cm.session_history]
  BY DEF ManagerOK
<1>2. DOMAIN endpoints = Ids(cm)
  BY Zenon
<1>3. Ids(after) = Ids(cm)
  BY <1>1, <1>2 DEF Ids
<1> QED BY <1>1, <1>3 DEF ManagerOK

(* A manager that does not change is refreshed and shrunk. *)
LEMMA UnchangedOK ==
    ASSUME NEW cm, ManagerOK(cm), NEW new
    PROVE  Refreshed(cm, cm, new) /\ Shrunk(cm, cm)
BY DEF Refreshed, Continues, Shrunk

(* A Hello on an established connection. *)
LEMMA HandleEstablishedHelloOK ==
    ASSUME NEW cm, ManagerOK(cm), NEW id, NEW key, NEW failed
    PROVE  LET after == HandleEstablishedHello(cm, id, key, failed)
           IN /\ Refreshed(cm, after, {key})
              /\ after.routes = cm.routes
              /\ \A i \in Ids(cm) : after.endpoints[i].tx_counter = cm.endpoints[i].tx_counter
<1> DEFINE after == HandleEstablishedHello(cm, id, key, failed)
<1>1. CASE id \notin Ids(cm)
  BY <1>1, UnchangedOK DEF HandleEstablishedHello
<1>2. CASE id \in Ids(cm)
  <2> DEFINE e == cm.endpoints[id]
             f == WithConnections(e, {key})
             g == Acknowledge(f, failed)
  <2>1. EndpointOK(e)
    BY <1>2 DEF ManagerOK
  <2>2. /\ SameWithKeys(e, f, Keys(e) \cup {key}) /\ f.tx_counter = e.tx_counter
        /\ \A k \in Keys(e) : f.connections[k] = e.connections[k]
    BY <2>1, WithConnectionsOK
  <2>3. StatesChange(f, g)
    BY <2>2, AcknowledgeOK DEF SameWithKeys
  <2>4. EndpointOK(g) /\ g.tx_counter = e.tx_counter /\ Continues(e, g, {key})
    BY <2>2, <2>3 DEF StatesChange, SameWithKeys, Continues, DisconnectedKeys
  <2>5. after = WithEndpoint(cm, id, g)
    BY <1>2 DEF HandleEstablishedHello
  <2> HIDE DEF g, after
  <2>6. /\ ManagerOK(after) /\ Ids(after) = Ids(cm) \cup {id} /\ after.endpoints[id] = g
        /\ \A i \in Ids(cm) \ {id} : after.endpoints[i] = cm.endpoints[i]
        /\ after.routes = cm.routes /\ after.session_history = cm.session_history
    BY <2>4, <2>5, WithEndpointOK
  <2>7. Refreshed(cm, after, {key})
    BY <1>2, <2>4, <2>6 DEF Refreshed, Continues
  <2> QED BY <1>2, <2>4, <2>6, <2>7 DEF after
<1> QED BY <1>1, <1>2

(* Some of the writes on the connections of e fail, all of them in keys.    *)
WritesFail(e, f, keys) ==
    /\ DisconnectedKeys(f) \subseteq DisconnectedKeys(e) \cup keys
    /\ \A k \in Keys(e) \ DisconnectedKeys(f) : f.connections[k] = e.connections[k]

(* A packet of the TUN device. *)
LEMMA HandlePacketFromTunOK ==
    ASSUME NEW cm, ManagerOK(cm), NEW address, NEW refused
    PROVE  LET after == HandlePacketFromTun(cm, address, refused)
           IN /\ Refreshed(cm, after, {})
              /\ after.routes = cm.routes
              /\ \A i \in Ids(cm) :
                    /\ after.endpoints[i].tx_counter =
                        IF i \in Lookup(cm.routes, address) THEN cm.endpoints[i].tx_counter + 1
                        ELSE cm.endpoints[i].tx_counter
                    /\ WritesFail(cm.endpoints[i], after.endpoints[i], refused[i])
<1> DEFINE after == HandlePacketFromTun(cm, address, refused)
           written(i) == {k \in Keys(cm.endpoints[i]) : cm.endpoints[i].connections[k].enabled}
           sent(i) == Disconnect(cm.endpoints[i], written(i) \cap refused[i])
           next(i) == IF i \notin Lookup(cm.routes, address) THEN cm.endpoints[i]
                      ELSE [sent(i) EXCEPT !.tx_counter = @ + 1]
           endpoints == [i \in Ids(cm) |-> next(i)]
<1>1. after = [cm EXCEPT !.endpoints = endpoints]
  BY DEF HandlePacketFromTun
<1>2. ASSUME NEW i \in Ids(cm)
      PROVE  /\ EndpointOK(next(i)) /\ Continues(cm.endpoints[i], next(i), {})
             /\ next(i).tx_counter =
                    IF i \in Lookup(cm.routes, address) THEN cm.endpoints[i].tx_counter + 1
                    ELSE cm.endpoints[i].tx_counter
             /\ WritesFail(cm.endpoints[i], next(i), refused[i])
  <2>1. EndpointOK(cm.endpoints[i])
    BY DEF ManagerOK
  <2>2. CASE i \notin Lookup(cm.routes, address)
    BY <2>1, <2>2 DEF Continues, WritesFail
  <2>3. CASE i \in Lookup(cm.routes, address)
    <3>1. /\ StatesChange(cm.endpoints[i], sent(i))
          /\ DisconnectedKeys(sent(i)) \subseteq DisconnectedKeys(cm.endpoints[i]) \cup refused[i]
          /\ \A k \in Keys(cm.endpoints[i]) \ DisconnectedKeys(sent(i)) :
                sent(i).connections[k] = cm.endpoints[i].connections[k]
      BY <2>1, DisconnectOK
    <3>2. next(i) = [sent(i) EXCEPT !.tx_counter = @ + 1]
      BY <2>3
    <3> HIDE DEF sent, next
    <3>3. next(i) = [session_id |-> sent(i).session_id, connections |-> sent(i).connections,
                     tx_counter |-> sent(i).tx_counter + 1]
      BY <3>1, <3>2 DEF StatesChange, SameWithKeys, EndpointOK
    <3> QED
      BY <2>3, <3>1, <3>3
      DEF StatesChange, SameWithKeys, EndpointOK, Continues, Keys, DisconnectedKeys, WritesFail
  <2> QED BY <2>2, <2>3
<1> HIDE DEF next, after
<1>3. /\ ManagerOK(after) /\ after.endpoints = endpoints /\ Ids(after) = Ids(cm)
      /\ after.routes = cm.routes /\ after.session_history = cm.session_history
  <2>1. /\ endpoints = [i \in Ids(cm) |-> endpoints[i]]
        /\ \A i \in Ids(cm) : EndpointOK(endpoints[i])
    BY <1>2
  <2> HIDE DEF endpoints
  <2> QED BY <1>1, <2>1, WithEndpointsOK
<1>4. Refreshed(cm, after, {})
  BY <1>2, <1>3 DEF Refreshed
<1> QED BY <1>2, <1>3, <1>4 DEF after

(* A keepalive on every connection. *)
LEMMA GreetAllOK ==
    ASSUME NEW cm, ManagerOK(cm), NEW unreachable
    PROVE  LET after == GreetAll(cm, unreachable)
           IN /\ Refreshed(cm, after, {})
              /\ after.routes = cm.routes
              /\ \A i \in Ids(cm) :
                    /\ after.endpoints[i].tx_counter = cm.endpoints[i].tx_counter
                    /\ WritesFail(cm.endpoints[i], after.endpoints[i], unreachable)
<1> DEFINE after == GreetAll(cm, unreachable)
           next(i) == Disconnect(cm.endpoints[i], unreachable)
           endpoints == [i \in Ids(cm) |-> next(i)]
<1>1. after = [cm EXCEPT !.endpoints = endpoints]
  BY DEF GreetAll
<1>2. ASSUME NEW i \in Ids(cm)
      PROVE  /\ EndpointOK(next(i)) /\ Continues(cm.endpoints[i], next(i), {})
             /\ next(i).tx_counter = cm.endpoints[i].tx_counter
             /\ WritesFail(cm.endpoints[i], next(i), unreachable)
  <2>1. EndpointOK(cm.endpoints[i])
    BY DEF ManagerOK
  <2>2. /\ StatesChange(cm.endpoints[i], next(i))
        /\ DisconnectedKeys(next(i))
                = DisconnectedKeys(cm.endpoints[i]) \cup (Keys(cm.endpoints[i]) \cap unreachable)
        /\ \A k \in Keys(cm.endpoints[i]) \ unreachable :
                next(i).connections[k] = cm.endpoints[i].connections[k]
    BY <2>1, DisconnectOK
  <2> HIDE DEF next
  <2> QED BY <2>2 DEF StatesChange, SameWithKeys, Continues, WritesFail
<1> HIDE DEF next, after
<1>3. /\ ManagerOK(after) /\ after.endpoints = endpoints /\ Ids(after) = Ids(cm)
      /\ after.routes = cm.routes /\ after.session_history = cm.session_history
  <2>1. /\ endpoints = [i \in Ids(cm) |-> endpoints[i]]
        /\ \A i \in Ids(cm) : EndpointOK(endpoints[i])
    BY <1>2
  <2> HIDE DEF endpoints
  <2> QED BY <1>1, <2>1, WithEndpointsOK
<1>4. Refreshed(cm, after, {})
  BY <1>2, <1>3 DEF Refreshed
<1> QED BY <1>2, <1>3, <1>4 DEF after

(* Enabling or disabling the connections of an interface. *)
LEMMA DuplicationCommandOK ==
    ASSUME NEW cm, ManagerOK(cm), NEW interface_name, NEW enabled \in BOOLEAN
    PROVE  LET after == DuplicationCommand(cm, interface_name, enabled)
           IN /\ Refreshed(cm, after, {})
              /\ after.routes = cm.routes
              /\ \A i \in Ids(cm) :
                    /\ after.endpoints[i].tx_counter = cm.endpoints[i].tx_counter
                    /\ DisconnectedKeys(after.endpoints[i]) = DisconnectedKeys(cm.endpoints[i])
                    /\ \A k \in Keys(cm.endpoints[i]) :
                        after.endpoints[i].connections[k].state = cm.endpoints[i].connections[k].state
<1> DEFINE after == DuplicationCommand(cm, interface_name, enabled)
           conn(i, k) == IF k[1] = interface_name
                         THEN [cm.endpoints[i].connections[k] EXCEPT !.enabled = enabled]
                         ELSE cm.endpoints[i].connections[k]
           conns(i) == [k \in Keys(cm.endpoints[i]) |-> conn(i, k)]
           next(i) == [cm.endpoints[i] EXCEPT !.connections = conns(i)]
           endpoints == [i \in Ids(cm) |-> next(i)]
<1>1. after = [cm EXCEPT !.endpoints = endpoints]
  BY Zenon DEF DuplicationCommand
<1>2. ASSUME NEW i \in Ids(cm)
      PROVE  /\ EndpointOK(next(i)) /\ Continues(cm.endpoints[i], next(i), {})
             /\ next(i).tx_counter = cm.endpoints[i].tx_counter
             /\ DisconnectedKeys(next(i)) = DisconnectedKeys(cm.endpoints[i])
             /\ \A k \in Keys(cm.endpoints[i]) :
                    next(i).connections[k].state = cm.endpoints[i].connections[k].state
  <2>1. EndpointOK(cm.endpoints[i])
    BY DEF ManagerOK
  <2>2. ASSUME NEW k \in Keys(cm.endpoints[i])
        PROVE  /\ conn(i, k) \in [state : ConnectionStates, enabled : BOOLEAN]
               /\ conn(i, k).state = cm.endpoints[i].connections[k].state
    <3>1. cm.endpoints[i].connections[k] \in [state : ConnectionStates, enabled : BOOLEAN]
      BY <2>1 DEF EndpointOK
    <3> QED BY <3>1
  <2> HIDE DEF conn
  <2>3. next(i) = [session_id |-> cm.endpoints[i].session_id, connections |-> conns(i),
                   tx_counter |-> cm.endpoints[i].tx_counter]
    BY <2>1 DEF EndpointOK
  <2> HIDE DEF next
  <2> QED BY <2>1, <2>2, <2>3 DEF EndpointOK, Continues, Keys, DisconnectedKeys
<1> HIDE DEF next, after
<1>3. /\ ManagerOK(after) /\ after.endpoints = endpoints /\ Ids(after) = Ids(cm)
      /\ after.routes = cm.routes /\ after.session_history = cm.session_history
  <2>1. /\ endpoints = [i \in Ids(cm) |-> endpoints[i]]
        /\ \A i \in Ids(cm) : EndpointOK(endpoints[i])
    BY <1>2
  <2> HIDE DEF endpoints
  <2> QED BY <1>1, <2>1, WithEndpointsOK
<1>4. Refreshed(cm, after, {})
  BY <1>2, <1>3 DEF Refreshed
<1> QED BY <1>2, <1>3, <1>4 DEF after

(* A HelloAck on an established connection: its state becomes Connected if  *)
(* it was Startup, and the routes are learnt.                               *)
LEMMA HandleHelloAckOK ==
    ASSUME NEW cm, ManagerOK(cm), NEW id \in Ids(cm), NEW key,
           NEW static_routes, static_routes \in Seq(Range(static_routes))
    PROVE  LET after == HandleHelloAck(cm, id, static_routes, key)
           IN /\ Refreshed(cm, after, {})
              /\ Range(after.routes)
                    = Range(cm.routes) \cup {Mapping(r, id) : r \in Range(static_routes)}
              /\ \A i \in Ids(cm) :
                    /\ after.endpoints[i].tx_counter = cm.endpoints[i].tx_counter
                    /\ DisconnectedKeys(after.endpoints[i]) = DisconnectedKeys(cm.endpoints[i])
<1> DEFINE after == HandleHelloAck(cm, id, static_routes, key)
           e == cm.endpoints[id]
           State(k) == IF k = key /\ e.connections[k].state = "Startup" THEN "Connected"
                       ELSE e.connections[k].state
           conn(k) == [e.connections[k] EXCEPT !.state = State(k)]
           conns == [k \in Keys(e) |-> conn(k)]
           f == [e EXCEPT !.connections = conns]
           routes == InsertRoutes(cm.routes, static_routes, id)
<1>1. EndpointOK(e)
  BY DEF ManagerOK
<1>2. ASSUME NEW k \in Keys(e)
      PROVE  /\ conn(k) \in [state : ConnectionStates, enabled : BOOLEAN]
             /\ conn(k).state = "Disconnected" <=> e.connections[k].state = "Disconnected"
  <2>1. e.connections[k] \in [state : ConnectionStates, enabled : BOOLEAN]
    BY <1>1 DEF EndpointOK
  <2> QED BY <2>1 DEF ConnectionStates
<1>3. after = [WithEndpoint(cm, id, f) EXCEPT !.routes = InsertRoutes(@, static_routes, id)]
  <2>1. \A k \in Keys(e) : [e.connections[k] EXCEPT !.state =
              IF k = key /\ @ = "Startup" THEN "Connected" ELSE @] = conn(k)
    OBVIOUS
  <2> QED BY <2>1, Zenon DEF HandleHelloAck
<1> HIDE DEF conn
<1>4. /\ EndpointOK(f) /\ Continues(e, f, {}) /\ f.tx_counter = e.tx_counter
      /\ DisconnectedKeys(f) = DisconnectedKeys(e)
  <2>1. f = [session_id |-> e.session_id, connections |-> conns, tx_counter |-> e.tx_counter]
    <3> HIDE DEF conns
    <3> QED BY <1>1, SetConnections
  <2> HIDE DEF f
  <2> QED BY <1>1, <1>2, <2>1 DEF EndpointOK, Continues, Keys, DisconnectedKeys
<1> HIDE DEF f, after
<1> DEFINE mid == WithEndpoint(cm, id, f)
<1>5. /\ ManagerOK(mid) /\ Ids(mid) = Ids(cm) /\ mid.endpoints[id] = f
      /\ \A i \in Ids(cm) \ {id} : mid.endpoints[i] = cm.endpoints[i]
      /\ mid.routes = cm.routes /\ mid.session_history = cm.session_history
  <2>1. Ids(cm) \cup {id} = Ids(cm)
    OBVIOUS
  <2>2. EndpointOK(f) /\ mid = WithEndpoint(cm, id, f)
    BY <1>4
  <2> HIDE DEF mid, e
  <2>3. /\ ManagerOK(mid) /\ Ids(mid) = Ids(cm) \cup {id} /\ mid.endpoints[id] = f
        /\ \A i \in Ids(cm) \ {id} : mid.endpoints[i] = cm.endpoints[i]
        /\ mid.routes = cm.routes /\ mid.session_history = cm.session_history
    BY <2>2, WithEndpointOK
  <2> QED BY <2>1, <2>3
<1> HIDE DEF mid
<1>6. /\ TableOK(routes)
      /\ Range(routes) = Range(cm.routes) \cup {Mapping(r, id) : r \in Range(static_routes)}
  BY InsertRoutesOK DEF ManagerOK
<1> HIDE DEF routes
<1>7. after = [mid EXCEPT !.routes = routes]
  BY <1>3, <1>5 DEF mid, routes
<1>8. /\ ManagerOK(after) /\ after.endpoints = mid.endpoints /\ Ids(after) = Ids(mid)
      /\ after.routes = routes /\ after.session_history = mid.session_history
  BY <1>5, <1>6, <1>7, WithRoutesOK
<1>9. Refreshed(cm, after, {})
  BY <1>4, <1>5, <1>8 DEF Refreshed, Continues
<1> QED BY <1>4, <1>5, <1>6, <1>8, <1>9 DEF after

(* Endpoints without connections leave. *)
LEMMA PurgeEmptyOK ==
    ASSUME NEW cm, ManagerOK(cm)
    PROVE  /\ Shrunk(cm, PurgeEmpty(cm))
           /\ Ids(PurgeEmpty(cm)) = {id \in Ids(cm) : HasConnections(cm.endpoints[id])}
           /\ \A id \in Ids(PurgeEmpty(cm)) : PurgeEmpty(cm).endpoints[id] = cm.endpoints[id]
           /\ NoneEmpty(PurgeEmpty(cm))
<1> DEFINE empty == {id \in Ids(cm) : ~HasConnections(cm.endpoints[id])}
           endpoints == [id \in Ids(cm) \ empty |-> cm.endpoints[id]]
           routes == RemoveRoutes(cm.routes, empty)
           after == PurgeEmpty(cm)
<1>1. after = [endpoints |-> endpoints, routes |-> routes, session_history |-> cm.session_history]
  <2>1. after = [cm EXCEPT !.endpoints = endpoints, !.routes = routes]
    BY DEF PurgeEmpty, Restrict
  <2> HIDE DEF after, endpoints, routes
  <2> QED BY <2>1 DEF ManagerOK
<1>2. /\ TableOK(routes)
      /\ Range(routes) = {m \in Range(cm.routes) : m.endpoint_id \notin empty}
  BY RemoveRoutesOK DEF ManagerOK
<1> HIDE DEF after, routes
<1>3. /\ Ids(after) = Ids(cm) \ empty
      /\ \A id \in Ids(after) : after.endpoints[id] = cm.endpoints[id]
      /\ after.endpoints = [id \in Ids(after) |-> after.endpoints[id]]
  BY <1>1 DEF Ids
<1>4. ManagerOK(after)
  BY <1>1, <1>2, <1>3 DEF ManagerOK
<1>5. Shrunk(cm, after)
  <2>1. Ids(cm) \ Ids(after) = empty
    BY <1>3
  <2> HIDE DEF empty
  <2> QED BY <1>1, <1>2, <1>3, <1>4, <2>1 DEF Shrunk
<1> QED BY <1>3, <1>5 DEF after, NoneEmpty

(* Shrinking in two steps, of which the first takes no endpoint. *)
LEMMA ShrunkTwice ==
    ASSUME NEW cm, NEW mid, NEW after, Shrunk(cm, mid), Ids(mid) = Ids(cm), Shrunk(mid, after)
    PROVE  Shrunk(cm, after)
<1>1. Range(mid.routes) = Range(cm.routes)
  BY DEF Shrunk
<1>2. Range(after.routes) = {m \in Range(cm.routes) : m.endpoint_id \notin Ids(cm) \ Ids(after)}
  BY <1>1 DEF Shrunk
<1>3. ASSUME NEW id \in Ids(after)
      PROVE  LET e == cm.endpoints[id] f == after.endpoints[id]
             IN /\ f.session_id = e.session_id /\ f.tx_counter = e.tx_counter
                /\ Keys(f) \subseteq Keys(e)
                /\ \A k \in Keys(f) : f.connections[k] = e.connections[k]
  <2> DEFINE e == cm.endpoints[id]
             d == mid.endpoints[id]
             f == after.endpoints[id]
  <2>1. id \in Ids(mid)
    BY DEF Shrunk
  <2>2. /\ f.session_id = d.session_id /\ f.tx_counter = d.tx_counter
        /\ Keys(f) \subseteq Keys(d)
        /\ \A k \in Keys(f) : f.connections[k] = d.connections[k]
    BY DEF Shrunk
  <2>3. /\ d.session_id = e.session_id /\ d.tx_counter = e.tx_counter
        /\ Keys(d) \subseteq Keys(e)
        /\ \A k \in Keys(d) : d.connections[k] = e.connections[k]
    BY <2>1 DEF Shrunk
  <2> HIDE DEF d, e, f
  <2>4. /\ f.session_id = e.session_id /\ f.tx_counter = e.tx_counter
        /\ Keys(f) \subseteq Keys(e)
        /\ \A k \in Keys(f) : f.connections[k] = e.connections[k]
    BY <2>2, <2>3
  <2> QED BY <2>4 DEF e, f
<1>4. /\ ManagerOK(after) /\ Ids(after) \subseteq Ids(cm)
      /\ after.session_history = cm.session_history
  BY DEF Shrunk
<1> QED BY <1>2, <1>3, <1>4 DEF Shrunk

(* remove_connection *)
LEMMA RemoveConnectionOK ==
    ASSUME NEW cm, ManagerOK(cm), NEW id, NEW key
    PROVE  /\ Shrunk(cm, RemoveConnection(cm, id, key))
           /\ NoneEmpty(RemoveConnection(cm, id, key))
<1> DEFINE e == cm.endpoints[id]
           f == WithoutConnections(e, {key})
           mid == IF id \notin Ids(cm) THEN cm ELSE WithEndpoint(cm, id, f)
<1>1. Shrunk(cm, mid) /\ Ids(mid) = Ids(cm)
  <2>1. CASE id \notin Ids(cm)
    BY <2>1, UnchangedOK
  <2>2. CASE id \in Ids(cm)
    <3>1. EndpointOK(e) /\ mid = WithEndpoint(cm, id, f) /\ Ids(cm) \cup {id} = Ids(cm)
      BY <2>2 DEF ManagerOK
    <3>2. /\ SameWithKeys(e, f, Keys(e) \ {key}) /\ f.tx_counter = e.tx_counter
          /\ \A k \in Keys(e) \ {key} : f.connections[k] = e.connections[k]
      BY <3>1, WithoutConnectionsOK
    <3> HIDE DEF f, mid
    <3>3. /\ ManagerOK(mid) /\ Ids(mid) = Ids(cm) \cup {id} /\ mid.endpoints[id] = f
          /\ \A i \in Ids(cm) \ {id} : mid.endpoints[i] = cm.endpoints[i]
          /\ mid.routes = cm.routes /\ mid.session_history = cm.session_history
      BY <3>1, <3>2, WithEndpointOK DEF SameWithKeys
    <3> QED BY <3>1, <3>2, <3>3 DEF Shrunk, SameWithKeys
  <2> QED BY <2>1, <2>2
<1>2. RemoveConnection(cm, id, key) = PurgeEmpty(mid)
  BY DEF RemoveConnection
<1> HIDE DEF mid
<1>3. Shrunk(mid, PurgeEmpty(mid)) /\ NoneEmpty(PurgeEmpty(mid))
  BY <1>1, PurgeEmptyOK DEF Shrunk
<1> QED BY <1>1, <1>2, <1>3, ShrunkTwice

(* remove_disconnected: if a connection was Disconnected, neither it nor an *)
(* endpoint without connections is left.                                    *)
LEMMA RemoveDisconnectedOK ==
    ASSUME NEW cm, ManagerOK(cm)
    PROVE  LET after == RemoveDisconnected(cm)
           IN /\ Shrunk(cm, after)
              /\ after = cm \/ NoneEmpty(after)
              /\ \A id \in Ids(after) : DisconnectedKeys(after.endpoints[id]) = {}
<1> DEFINE next(i) == WithoutConnections(cm.endpoints[i], DisconnectedKeys(cm.endpoints[i]))
           endpoints == [i \in Ids(cm) |-> next(i)]
           mid == [cm EXCEPT !.endpoints = endpoints]
           after == RemoveDisconnected(cm)
<1>1. CASE \A id \in Ids(cm) : DisconnectedKeys(cm.endpoints[id]) = {}
  BY <1>1, UnchangedOK DEF RemoveDisconnected
<1>2. CASE ~\A id \in Ids(cm) : DisconnectedKeys(cm.endpoints[id]) = {}
  <2>1. after = PurgeEmpty(mid)
    BY <1>2 DEF RemoveDisconnected
  <2>2. ASSUME NEW i \in Ids(cm)
        PROVE  LET e == cm.endpoints[i]
               IN /\ SameWithKeys(e, next(i), Keys(e) \ DisconnectedKeys(e))
                  /\ next(i).tx_counter = e.tx_counter
                  /\ \A k \in Keys(e) \ DisconnectedKeys(e) :
                        next(i).connections[k] = e.connections[k]
                  /\ DisconnectedKeys(next(i)) = {}
    <3> DEFINE e == cm.endpoints[i]
    <3>1. EndpointOK(e)
      BY DEF ManagerOK
    <3>2. /\ SameWithKeys(e, next(i), Keys(e) \ DisconnectedKeys(e))
          /\ next(i).tx_counter = e.tx_counter
          /\ \A k \in Keys(e) \ DisconnectedKeys(e) : next(i).connections[k] = e.connections[k]
      BY <3>1, WithoutConnectionsOK
    <3> HIDE DEF next
    <3>3. DisconnectedKeys(next(i)) = {}
      BY <3>2 DEF SameWithKeys, DisconnectedKeys
    <3> QED BY <3>2, <3>3
  <2> HIDE DEF next
  <2>3. /\ ManagerOK(mid) /\ mid.endpoints = endpoints /\ Ids(mid) = Ids(cm)
        /\ mid.routes = cm.routes /\ mid.session_history = cm.session_history
    <3>1. /\ endpoints = [i \in Ids(cm) |-> endpoints[i]]
          /\ \A i \in Ids(cm) : EndpointOK(endpoints[i])
      BY <2>2 DEF SameWithKeys
    <3>2. mid = [cm EXCEPT !.endpoints = endpoints]
      OBVIOUS
    <3> HIDE DEF endpoints, mid
    <3> QED BY <3>1, <3>2, WithEndpointsOK
  <2> HIDE DEF mid
  <2>4. Shrunk(cm, mid)
    BY <2>2, <2>3 DEF Shrunk, SameWithKeys
  <2>5. /\ Shrunk(mid, after) /\ NoneEmpty(after)
        /\ \A id \in Ids(after) : id \in Ids(mid) /\ after.endpoints[id] = mid.endpoints[id]
    BY <2>1, <2>3, PurgeEmptyOK
  <2>6. ASSUME NEW id \in Ids(after) PROVE DisconnectedKeys(after.endpoints[id]) = {}
    <3>1. id \in Ids(cm) /\ after.endpoints[id] = endpoints[id]
      BY <2>3, <2>5
    <3>2. endpoints[id] = next(id)
      BY <3>1
    <3>3. DisconnectedKeys(next(id)) = {}
      BY <2>2, <3>1
    <3> QED BY <3>1, <3>2, <3>3
  <2> QED BY <2>3, <2>4, <2>5, <2>6, ShrunkTwice
<1> QED BY <1>1, <1>2

(* The endpoint id when a Hello of session has been looked at: the one that *)
(* is known in this session, or a new one.                                  *)
Start(cm, id, session) ==
    IF id \in Ids(cm) /\ cm.endpoints[id].session_id = session THEN cm.endpoints[id]
    ELSE NewEndpoint(session)

(* What handle_hello has before it adds the connection.                     *)
GreetedAs(cm, greeted, id, session) ==
    LET known == id \in Ids(cm) /\ cm.endpoints[id].session_id = session
    IN /\ ManagerOK(greeted) /\ Ids(greeted) = Ids(cm) \cup {id}
       /\ greeted.endpoints[id] = Start(cm, id, session)
       /\ \A i \in Ids(cm) \ {id} : greeted.endpoints[i] = cm.endpoints[i]
       /\ greeted.routes = cm.routes
       /\ known => greeted.session_history = cm.session_history
       /\ ~known => greeted.session_history = cm.session_history \cup {session}
       /\ EndpointOK(Start(cm, id, session))
       /\ Start(cm, id, session).session_id = session

LEMMA GreetedOK ==
    ASSUME NEW cm, ManagerOK(cm), NEW id, NEW session,
           NEW greeted, greeted = Greeted(cm, id, session)
    PROVE  GreetedAs(cm, greeted, id, session)
<1> DEFINE known == id \in Ids(cm) /\ cm.endpoints[id].session_id = session
<1>0. EndpointOK(Start(cm, id, session)) /\ Start(cm, id, session).session_id = session
  BY NewEndpointOK DEF ManagerOK, Start
<1>1. CASE known
  BY <1>0, <1>1 DEF Greeted, Start, GreetedAs
<1>2. CASE ~known
  <2> DEFINE new == WithEndpoint(cm, id, NewEndpoint(session))
  <2>1. greeted = [new EXCEPT !.session_history = @ \cup {session}]
    BY <1>2 DEF Greeted, Start
  <2>2. /\ ManagerOK(new) /\ Ids(new) = Ids(cm) \cup {id}
        /\ new.endpoints[id] = NewEndpoint(session)
        /\ \A i \in Ids(cm) \ {id} : new.endpoints[i] = cm.endpoints[i]
        /\ new.routes = cm.routes /\ new.session_history = cm.session_history
    BY NewEndpointOK, WithEndpointOK
  <2> HIDE DEF new
  <2>3. greeted = [endpoints |-> new.endpoints, routes |-> new.routes,
                   session_history |-> new.session_history \cup {session}]
    BY <2>1, <2>2 DEF ManagerOK
  <2>4. Ids(greeted) = Ids(new) /\ greeted.endpoints = new.endpoints
    BY <2>3 DEF Ids
  <2>5. ManagerOK(greeted)
    BY <2>2, <2>3, <2>4 DEF ManagerOK
  <2>6. Start(cm, id, session) = NewEndpoint(session)
    BY <1>2 DEF Start
  <2> QED BY <1>0, <1>2, <2>2, <2>3, <2>4, <2>5, <2>6 DEF GreetedAs
<1> QED BY <1>1, <1>2

(* The endpoint id is in session afterwards, with the routes announced: it  *)
(* continues, or it is new and the session joins the history.               *)
Met(cm, after, id, session, static_routes, key, added) ==
    LET e == cm.endpoints[id]
        f == after.endpoints[id]
        known == id \in Ids(cm) /\ e.session_id = session
    IN /\ ManagerOK(after)
       /\ Ids(after) = Ids(cm) \cup {id}
       /\ \A i \in Ids(cm) \ {id} : after.endpoints[i] = cm.endpoints[i]
       /\ Range(after.routes) = Range(cm.routes) \cup {Mapping(r, id) : r \in Range(static_routes)}
       /\ f.session_id = session
       /\ known => /\ after.session_history = cm.session_history
                   /\ Continues(e, f, {key}) /\ f.tx_counter = e.tx_counter
       /\ ~known => /\ after.session_history = cm.session_history \cup {session}
                    /\ Keys(f) \subseteq {key} /\ f.tx_counter = 0
       /\ added => HasConnections(f)
       /\ known /\ HasConnections(e) => HasConnections(f)

(* A Hello that is not refused. *)
LEMMA HandleHelloOK ==
    ASSUME NEW cm, ManagerOK(cm), NEW id, NEW session, NEW key, NEW added \in BOOLEAN, NEW failed,
           NEW static_routes, static_routes \in Seq(Range(static_routes)),
           ~Refused(cm, id, session)
    PROVE  Met(cm, HandleHello(cm, id, session, static_routes, key, added, failed),
               id, session, static_routes, key, added)
<1> DEFINE e == cm.endpoints[id]
           known == id \in Ids(cm) /\ e.session_id = session
           start == Start(cm, id, session)
           greeted == Greeted(cm, id, session)
           history == IF known THEN cm.session_history ELSE cm.session_history \cup {session}
           f == IF added THEN WithConnections(start, {key}) ELSE start
           g == Acknowledge(f, failed)
           mid == WithEndpoint(greeted, id, g)
           routes == InsertRoutes(cm.routes, static_routes, id)
           after == HandleHello(cm, id, session, static_routes, key, added, failed)
<1>1. /\ ManagerOK(greeted) /\ Ids(greeted) = Ids(cm) \cup {id}
      /\ greeted.endpoints[id] = start
      /\ \A i \in Ids(cm) \ {id} : greeted.endpoints[i] = cm.endpoints[i]
      /\ greeted.routes = cm.routes
      /\ greeted.session_history = history
  <2>1. GreetedAs(cm, greeted, id, session)
    BY GreetedOK
  <2> HIDE DEF greeted
  <2> QED BY <2>1 DEF GreetedAs
<1>2. EndpointOK(start) /\ start.session_id = session
  BY NewEndpointOK DEF ManagerOK, Start
<1> HIDE DEF greeted, start
<1>3. /\ SameWithKeys(start, f, IF added THEN Keys(start) \cup {key} ELSE Keys(start))
      /\ f.tx_counter = start.tx_counter
      /\ DisconnectedKeys(start) \subseteq DisconnectedKeys(f)
  <2>1. CASE added
    <3>1. /\ SameWithKeys(start, f, Keys(start) \cup {key}) /\ f.tx_counter = start.tx_counter
          /\ \A k \in Keys(start) : f.connections[k] = start.connections[k]
      BY <1>2, <2>1, WithConnectionsOK
    <3> HIDE DEF f
    <3> QED BY <2>1, <3>1 DEF SameWithKeys, DisconnectedKeys
  <2>2. CASE ~added
    BY <1>2, <2>2 DEF SameWithKeys
  <2> QED BY <2>1, <2>2
<1> HIDE DEF f
<1>4. StatesChange(f, g)
  BY <1>3, AcknowledgeOK DEF SameWithKeys
<1> HIDE DEF g
<1>5. /\ EndpointOK(g) /\ g.session_id = session /\ g.tx_counter = start.tx_counter
      /\ Continues(start, g, {key})
      /\ added => HasConnections(g)
      /\ HasConnections(start) => HasConnections(g)
  BY <1>2, <1>3, <1>4 DEF StatesChange, SameWithKeys, Continues, HasConnections
<1>6. /\ ManagerOK(mid) /\ Ids(mid) = Ids(greeted) \cup {id} /\ mid.endpoints[id] = g
      /\ \A i \in Ids(greeted) \ {id} : mid.endpoints[i] = greeted.endpoints[i]
      /\ mid.routes = greeted.routes /\ mid.session_history = greeted.session_history
  BY <1>1, <1>5, WithEndpointOK
<1>7. after = [mid EXCEPT !.routes = InsertRoutes(@, static_routes, id)]
  BY <1>1, Zenon DEF HandleHello, mid, g, f, start, greeted
<1> HIDE DEF mid, after
<1>8. /\ TableOK(routes)
      /\ Range(routes) = Range(cm.routes) \cup {Mapping(r, id) : r \in Range(static_routes)}
  BY InsertRoutesOK DEF ManagerOK
<1>9. after = [mid EXCEPT !.routes = routes]
  BY <1>1, <1>6, <1>7
<1> HIDE DEF routes
<1>10. /\ ManagerOK(after) /\ after.endpoints = mid.endpoints /\ Ids(after) = Ids(mid)
       /\ after.routes = routes /\ after.session_history = mid.session_history
  BY <1>6, <1>8, <1>9, WithRoutesOK
<1>11. /\ Ids(after) = Ids(cm) \cup {id}
       /\ after.endpoints[id] = g /\ after.session_history = history
       /\ \A i \in Ids(cm) \ {id} : after.endpoints[i] = cm.endpoints[i]
  BY <1>1, <1>6, <1>10
<1>12. CASE known
  BY <1>5, <1>8, <1>10, <1>11, <1>12 DEF Start, start, after, Met
<1>13. CASE ~known
  <2>1. Keys(g) \subseteq {key} /\ g.tx_counter = 0
    BY <1>5, <1>13, NewEndpointOK DEF Start, start, Continues
  <2> QED BY <1>5, <1>8, <1>10, <1>11, <1>13, <2>1 DEF after, Met
<1> QED BY <1>12, <1>13

(* The endpoint id exists afterwards, and it has gained the connections in  *)
(* opened; or nothing was reached and nothing has changed.                  *)
Created(cm, after, id, session, reached, opened) ==
    LET e == cm.endpoints[id]
        f == after.endpoints[id]
    IN /\ ManagerOK(after)
       /\ after = cm \/ Ids(after) = Ids(cm) \cup {id}
       /\ \A i \in Ids(cm) \ {id} : after.endpoints[i] = cm.endpoints[i]
       /\ after.routes = cm.routes /\ after.session_history = cm.session_history
       /\ id \in Ids(cm) =>
            /\ Continues(e, f, opened) /\ f.tx_counter = e.tx_counter
            /\ DisconnectedKeys(f) = DisconnectedKeys(e)
            /\ \A k \in Keys(e) : f.connections[k] = e.connections[k]
            /\ \A k \in Keys(f) \ Keys(e) : f.connections[k] = NewConnection
       /\ id \notin Ids(cm) /\ id \in Ids(after) =>
            /\ f.session_id = session /\ f.tx_counter = 0
            /\ Keys(f) = opened
            /\ \A k \in Keys(f) : f.connections[k] = NewConnection
       /\ \A k \in opened : id \in Ids(after) /\ k \in Keys(f)
       /\ after # cm => reached # {}

(* create_new_connection for every key in keys. *)
LEMMA CreateConnectionsOK ==
    ASSUME NEW cm, ManagerOK(cm), NEW id, NEW keys, NEW session, NEW outcome
    PROVE  Created(cm, CreateConnections(cm, id, keys, session, outcome), id, session,
                   {k \in keys : outcome[k] # "socket_error"}, {k \in keys : outcome[k] = "ok"})
<1> DEFINE after == CreateConnections(cm, id, keys, session, outcome)
           reached == {k \in keys : outcome[k] # "socket_error"}
           opened == {k \in keys : outcome[k] = "ok"}
           e == cm.endpoints[id]
           start == IF id \in Ids(cm) THEN e ELSE NewEndpoint(session)
           f == WithConnections(start, opened)
<1>1. opened \subseteq reached
  OBVIOUS
<1>2. CASE reached = {}
  <2>1. after = cm /\ opened = {}
    BY <1>1, <1>2 DEF CreateConnections
  <2> QED BY <2>1 DEF Continues, Created
<1>3. CASE reached # {}
  <2>1. after = WithEndpoint(cm, id, f)
    BY <1>3 DEF CreateConnections
  <2>2. EndpointOK(start)
    BY NewEndpointOK DEF ManagerOK
  <2>3. /\ SameWithKeys(start, f, Keys(start) \cup opened) /\ f.tx_counter = start.tx_counter
        /\ \A k \in Keys(start) : f.connections[k] = start.connections[k]
        /\ \A k \in opened \ Keys(start) : f.connections[k] = NewConnection
    <3> HIDE DEF start, opened
    <3> QED BY <2>2, WithConnectionsOK
  <2> HIDE DEF after, f
  <2>4. /\ ManagerOK(after) /\ Ids(after) = Ids(cm) \cup {id} /\ after.endpoints[id] = f
        /\ \A i \in Ids(cm) \ {id} : after.endpoints[i] = cm.endpoints[i]
        /\ after.routes = cm.routes /\ after.session_history = cm.session_history
    BY <2>1, <2>3, WithEndpointOK DEF SameWithKeys
  <2>5. \A k \in opened : id \in Ids(after) /\ k \in Keys(f)
    BY <2>3, <2>4 DEF SameWithKeys
  <2>6. CASE id \in Ids(cm)
    <3>1. /\ Continues(e, f, opened) /\ f.tx_counter = e.tx_counter
          /\ \A k \in Keys(e) : f.connections[k] = e.connections[k]
          /\ \A k \in Keys(f) \ Keys(e) : f.connections[k] = NewConnection
      <4> HIDE DEF opened
      <4> QED BY <2>3, <2>6 DEF SameWithKeys, Continues, DisconnectedKeys
    <3>2. DisconnectedKeys(f) = DisconnectedKeys(e)
      <4>1. NewConnection.state # "Disconnected"
        BY DEF NewConnection
      <4> QED BY <3>1, <4>1 DEF Continues, DisconnectedKeys
    <3> QED BY <1>3, <2>4, <2>5, <2>6, <3>1, <3>2 DEF after, Created
  <2>7. CASE id \notin Ids(cm)
    <3>1. /\ f.session_id = session /\ f.tx_counter = 0 /\ Keys(f) = opened
          /\ \A k \in Keys(f) : f.connections[k] = NewConnection
      <4> HIDE DEF opened
      <4> QED BY <2>3, <2>7, NewEndpointOK DEF SameWithKeys
    <3> QED BY <1>3, <2>4, <2>5, <2>7, <3>1 DEF after, Created
  <2> QED BY <2>6, <2>7
<1> QED BY <1>2, <1>3
=============================================================================
