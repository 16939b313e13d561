--------------------------- MODULE Gateway_proofs ---------------------------
(***************************************************************************)
(* Safety of the gateway for any number of keys, accounts, requests, admin *)
(* requests, restarts and any page size and capacity.                      *)
(*                                                                         *)
(* Three arguments, one for each part of the state.  Keys: a key row never *)
(* becomes absent again, so a key that is still being made cannot be       *)
(* touched or revoked, and a touch() that has read a revoked row writes a  *)
(* revoked row (KeyInv).  Buckets: what a key was granted since a moment   *)
(* and what it may still spend is bounded together (BucketInv).  Accounts: *)
(* outside the pages still to be read, and outside the accounts that are   *)
(* being replaced, the pool holds what the rows hold (PoolInv).            *)
(***************************************************************************)
EXTENDS Gateway, FiniteSetTheorems, TLAPS

Rows == [state : {"none", "live", "revoked"}, account : Accounts \cup {0}]
AccountRows == [v : 0..MaxOps, at : 0..MaxTime]
Buckets == [tokens : 0..Capacity, last : Nat]
ReqRecords == [pc : {"idle", "lookup", "decide", "handle", "upstream"},
               key : Keys \cup {0}, row : Rows]
TouchRecords == [pc : {"none", "get", "put"}, key : Keys \cup {0}, row : Rows]
AdminRecords == [pc : {"idle", "add", "remove", "create", "revoke"}, key : Keys \cup {0},
                 account : Accounts \cup {0}, v : 0..MaxOps, row : Rows]

Types ==
    /\ phase \in {"opening", "open"} /\ cursor \in Nat \X Nat
    /\ keyRow \in [Keys -> Rows] /\ acctRow \in [Accounts -> AccountRows]
    /\ pool \in [Accounts -> 0..MaxOps]
    /\ bucket \in [Keys -> Buckets]
    /\ req \in [Requests -> ReqRecords] /\ touch \in [Requests -> TouchRecords]
    /\ admin \in [Admins -> AdminRecords]
    /\ now \in 0..MaxTime /\ ops \in 0..MaxOps /\ restarts \in Nat
    /\ revoked \in SUBSET Keys /\ clash \in SUBSET Accounts /\ overlap \in SUBSET Keys
    /\ grants \in [Keys -> [0..MaxTime -> Nat]]

\* Keys.  A request or a touch() that has seen a row knows a key that exists;
\* a key that is being made does not exist and is made by one request.
Making(p) == admin[p].pc \in {"add", "create"} /\ admin[p].key # 0

KeyInv ==
    /\ \A r \in Requests : req[r].row.state = "live" =>
          req[r].key \in Keys /\ keyRow[req[r].key].state # "none"
    /\ \A r \in Requests : touch[r].pc # "none" =>
          /\ touch[r].key \in Keys /\ keyRow[touch[r].key].state # "none"
          /\ touch[r].row.state # "none"
    /\ \A p \in Admins : admin[p].pc = "create" => admin[p].key # 0
    /\ \A p \in Admins : Making(p) =>
          /\ keyRow[admin[p].key].state = "none"
          /\ \A q \in Admins \ {p} : admin[q].key # admin[p].key
    /\ \A p \in Admins : admin[p].pc = "revoke" =>
          admin[p].key \in Keys /\ keyRow[admin[p].key].state # "none"
    /\ \A p \in Admins : admin[p].pc \in {"idle", "remove"} => admin[p].key = 0
    /\ \A k \in revoked : keyRow[k].state # "none"
    /\ \A k \in revoked \ overlap :
          /\ keyRow[k].state = "revoked"
          /\ \A r \in Requests : touch[r].pc = "put" /\ touch[r].key = k =>
                touch[r].row.state = "revoked"

\* Buckets.  From any moment on, what was granted and what is left.
BucketInv ==
    \A k \in Keys :
        /\ bucket[k].last <= now
        /\ \A t \in 0..now : grants[k][now] + Tokens(k) <= GrantsBefore(k, t) + Capacity + (now - t)
        /\ \A t \in now..MaxTime : grants[k][t] = grants[k][now]

\* Accounts.
Waits(a) == acctRow[a].v > 0 /\ Below(a, cursor)   \* on a page still to be read

PoolInv ==
    /\ \A p \in Admins : admin[p].pc \in {"add", "remove"} =>
          admin[p].account \in Accounts /\ acctRow[admin[p].account].v > 0
    /\ phase = "opening" => /\ \A p \in Admins : admin[p].pc = "idle"
                            /\ \A a \in Accounts : Waits(a) \/ pool[a] = acctRow[a].v
    /\ phase = "open" =>
         \A a \in Accounts \ clash :
            /\ Replacing(a) \/ pool[a] = acctRow[a].v
            /\ \A p \in Admins : admin[p].pc \in {"add", "remove"} /\ admin[p].account = a =>
                 /\ admin[p].v = acctRow[a].v
                 /\ \A q \in Admins \ {p} : ~(admin[q].pc \in {"add", "remove"} /\ admin[q].account = a)

IInv == Types /\ KeyInv /\ BucketInv /\ RateBound /\ PoolInv

---------------------------------------------------------------------------
(* Pages *)

(* A finite set has an element that nothing in the set precedes. *)
LEMMA FiniteHasFirst ==
  ASSUME NEW R, NEW B, IsFiniteSet(B), B # {},
         \A x \in B : <<x, x>> \notin R,
         \A x, y, z \in B : <<x, y>> \in R /\ <<y, z>> \in R => <<x, z>> \in R
  PROVE  \E x \in B : \A y \in B : <<y, x>> \notin R
<1> DEFINE Before(x) == {y \in B : <<y, x>> \in R}
           T == {Before(x) : x \in B}
<1>1. IsWellFoundedOn(StrictSubsetOrdering(B), FiniteSubsetsOf(B))
  BY FS_StrictSubsetOrderingWellFounded
<1>2. FiniteSubsetsOf(B) = SUBSET B
  BY FS_FiniteSubsetsOfFinite
<1>3. T \subseteq SUBSET B /\ T # {}
  <2>1. \A x \in B : Before(x) \subseteq B /\ Before(x) \in T
    OBVIOUS
  <2>2. \A X \in T : \E x \in B : X = Before(x)
    OBVIOUS
  <2>3. PICK x \in B : Before(x) \in T
    BY <2>1
  <2> HIDE DEF T, Before
  <2>4. QED
    BY <2>1, <2>2, <2>3
<1>4. PICK X \in T : \A Y \in T : <<Y, X>> \notin StrictSubsetOrdering(B)
  <2> HIDE DEF T
  <2>1. QED
    BY <1>1, <1>2, <1>3, WFMin
<1>5. PICK x \in B : X = Before(x)
  OBVIOUS
<1>6. \A y \in B : <<y, x>> \notin R
  <2> SUFFICES ASSUME NEW y \in B, <<y, x>> \in R PROVE FALSE
    OBVIOUS
  <2>1. Before(y) \subseteq Before(x) /\ y \in Before(x) /\ y \notin Before(y)
    OBVIOUS
  <2>2. <<Before(y), Before(x)>> \in (SUBSET B) \X (SUBSET B) /\ Before(y) # Before(x)
    BY <2>1
  <2> HIDE DEF Before
  <2>3. <<Before(y), Before(x)>> \in StrictSubsetOrdering(B)
    BY <2>1, <2>2 DEF StrictSubsetOrdering
  <2>4. QED
    BY <1>4, <1>5, <2>3
<1>7. QED
  BY <1>6

(* The order of the rows: by time, then by id. *)
LEMMA PrecedesOrder ==
  /\ \A x \in Nat \X Nat : ~Precedes(x, x)
  /\ \A x, y, z \in Nat \X Nat : Precedes(x, y) /\ Precedes(y, z) => Precedes(x, z)
  /\ \A x, y \in Nat \X Nat : x = y \/ Precedes(x, y) \/ Precedes(y, x)
BY DEF Precedes

\* The order of page(): every account has a position of its own, before the top.
LEMMA Spots ==
  ASSUME Types
  PROVE  /\ \A a \in Accounts : Spot(a) \in Nat \X Nat /\ Spot(a) # Top /\ Precedes(Spot(a), Top)
         /\ \A a, b \in Accounts : Spot(a) = Spot(b) => a = b
         /\ Top \in Nat \X Nat
BY GatewayAssumption DEF Types, AccountRows, Spot, Top, Precedes

(* The rows a page takes are the next ones: none is left behind that is    *)
(* not below the new cursor, and there is no cursor only when there is no  *)
(* row below the old one.                                                  *)
LEMMA PageFacts ==
  ASSUME Types, NEW c \in Nat \X Nat
  PROVE  /\ NextCursor(Batch, c) \in Nat \X Nat
         /\ \A a \in Accounts : acctRow[a].v > 0 /\ Below(a, c) =>
              \/ a \in Page(Batch, c)
              \/ NextCursor(Batch, c) # Top /\ Below(a, NextCursor(Batch, c))
<1> DEFINE below == {a \in Accounts : acctRow[a].v > 0 /\ Below(a, c)}
           Over(a) == {b \in below : Precedes(Spot(a), Spot(b))}
           page == Page(Batch, c)
<1>1. page = {a \in below : Cardinality(Over(a)) < Batch}
  BY DEF Page
<1>2. \A S \in SUBSET below : IsFiniteSet(S) /\ Cardinality(S) \in Nat
  BY GatewayAssumption, FS_Subset, FS_CardinalityType
<1>3. below # {} => page # {}
  <2> SUFFICES ASSUME below # {} PROVE page # {}
    OBVIOUS
  <2> DEFINE R == {x \in below \X below : Precedes(Spot(x[2]), Spot(x[1]))}
  <2>1. \A x \in below : <<x, x>> \notin R
    BY Spots, PrecedesOrder
  <2>2. \A x, y, z \in below : <<x, y>> \in R /\ <<y, z>> \in R => <<x, z>> \in R
    BY Spots, PrecedesOrder
  <2>3. IsFiniteSet(below)
    BY <1>2
  <2>4. PICK x \in below : \A y \in below : <<y, x>> \notin R
    <3> HIDE DEF R, below
    <3>1. QED
      BY <2>1, <2>2, <2>3, FiniteHasFirst
  <2>5. Over(x) = {}
    BY <2>4
  <2>6. Cardinality(Over(x)) = 0
    BY <2>5, FS_EmptySet
  <2>7. QED
    BY <1>1, <2>6, GatewayAssumption
<1>4. CASE page = below \/ page = {}
  <2>1. NextCursor(Batch, c) = Top
    BY <1>3, <1>4 DEF NextCursor
  <2>2. QED
    BY <1>3, <1>4, <2>1, Spots
<1>5. CASE page # below /\ page # {}
  <2> DEFINE x == NextCursor(Batch, c)
             R == {y \in page \X page : Precedes(Spot(y[1]), Spot(y[2]))}
  <2>1. page \in SUBSET below /\ page \in SUBSET Accounts
    BY <1>1
  <2>2. x = CHOOSE y \in {Spot(a) : a \in page} : \A a \in page : y = Spot(a) \/ Precedes(y, Spot(a))
    BY <1>5 DEF NextCursor
  <2>3. \E y \in {Spot(a) : a \in page} : \A a \in page : y = Spot(a) \/ Precedes(y, Spot(a))
    <3>1. \A y \in page : <<y, y>> \notin R
      BY <2>1, Spots, PrecedesOrder
    <3>2. \A y, z, w \in page : <<y, z>> \in R /\ <<z, w>> \in R => <<y, w>> \in R
      BY <2>1, Spots, PrecedesOrder
    <3>3. IsFiniteSet(page)
      BY <1>2, <2>1
    <3>4. PICK b \in page : \A y \in page : <<y, b>> \notin R
      <4> HIDE DEF R, page
      <4>1. QED
        BY <1>5, <3>1, <3>2, <3>3, FiniteHasFirst
    <3>5. \A a \in page : Spot(b) = Spot(a) \/ Precedes(Spot(b), Spot(a))
      BY <2>1, <3>4, Spots, PrecedesOrder
    <3>6. QED
      BY <3>5
  <2>4. PICK b \in page : x = Spot(b) /\ \A a \in page : x = Spot(a) \/ Precedes(x, Spot(a))
    <3> HIDE DEF page, x
    <3>1. QED
      BY <2>2, <2>3
  <2>5. x \in Nat \X Nat /\ x # Top
    BY <2>1, <2>4, Spots
  <2>6. ASSUME NEW a \in below, a \notin page PROVE Below(a, x)
    <3> SUFFICES ASSUME ~Precedes(Spot(a), Spot(b)) PROVE FALSE
      BY <2>4 DEF Below
    <3>1. Precedes(Spot(b), Spot(a))
      <4>1. a # b /\ a \in Accounts /\ b \in Accounts
        BY <2>1, <2>6
      <4>2. QED
        BY <4>1, Spots, PrecedesOrder
    <3>2. Over(a) \in SUBSET Over(b)
      <4>1. \A d \in below : Precedes(Spot(a), Spot(d)) => Precedes(Spot(b), Spot(d))
        BY <2>1, <3>1, Spots, PrecedesOrder
      <4>2. QED
        BY <4>1
    <3>3. Cardinality(Over(a)) <= Cardinality(Over(b))
      <4>1. IsFiniteSet(Over(b))
        BY <1>2
      <4> HIDE DEF Over
      <4>2. QED
        BY <3>2, <4>1, FS_Subset
    <3>4. /\ Cardinality(Over(a)) \in Nat /\ Cardinality(Over(b)) \in Nat
          /\ Cardinality(Over(b)) < Batch /\ ~(Cardinality(Over(a)) < Batch)
      BY <1>1, <1>2, <2>6
    <3>5. QED
      BY <3>3, <3>4, GatewayAssumption
  <2>7. QED
    BY <2>5, <2>6
<1>6. QED
  BY <1>4, <1>5

---------------------------------------------------------------------------
(* What leaves a part of the state alone keeps its invariant. *)
LEMMA BucketFrame ==
  ASSUME IInv, UNCHANGED <<bucket, grants, now>>
  PROVE  BucketInv' /\ RateBound'
BY DEF IInv, BucketInv, RateBound, GrantsBefore, Tokens

\* A step that leaves keys, requests and touches alone keeps what is said of them.
LEMMA KeyFrame ==
  ASSUME IInv, UNCHANGED <<keyRow, req, touch, admin, revoked, overlap>>
  PROVE  KeyInv'
BY DEF IInv, KeyInv, Making

(* Nobody begins, ends or moves a replacement. *)
LEMMA PoolFrame ==
  ASSUME IInv, UNCHANGED <<phase, cursor, acctRow, pool, clash>>,
         \A p \in Admins : \/ admin'[p] = admin[p]
                           \/ /\ phase = "open"
                              /\ admin[p].pc \notin {"add", "remove"}
                              /\ admin'[p].pc \notin {"add", "remove"}
  PROVE  PoolInv'
<1>1. \A a \in Accounts : Waits(a)' <=> Waits(a)
  BY DEF Waits, Below, Spot
<1>2. \A p \in Admins : admin[p].pc \in {"add", "remove"} \/ admin'[p].pc \in {"add", "remove"} =>
         admin'[p] = admin[p]
  OBVIOUS
<1>3. \A a \in Accounts : Replacing(a)' <=> Replacing(a)
  BY <1>2 DEF Replacing
<1>4. \A p \in Admins : admin'[p].pc \in {"add", "remove"} =>
         admin'[p].account \in Accounts /\ acctRow'[admin'[p].account].v > 0
  BY <1>2 DEF IInv, PoolInv
<1>5. phase' = "opening" => /\ \A p \in Admins : admin'[p].pc = "idle"
                            /\ \A a \in Accounts : Waits(a)' \/ pool'[a] = acctRow'[a].v
  BY <1>1 DEF IInv, PoolInv
<1>6. phase' = "open" => \A a \in Accounts \ clash :
         /\ Replacing(a)' \/ pool'[a] = acctRow'[a].v
         /\ \A p \in Admins : admin'[p].pc \in {"add", "remove"} /\ admin'[p].account = a =>
              /\ admin'[p].v = acctRow'[a].v
              /\ \A q \in Admins \ {p} : ~(admin'[q].pc \in {"add", "remove"} /\ admin'[q].account = a)
  BY <1>2, <1>3 DEF IInv, PoolInv
<1>7. QED
  BY <1>4, <1>5, <1>6 DEF PoolInv

(* The empty records are well typed. *)
LEMMA EmptyRecords ==
  /\ NoRow \in Rows /\ NoAdmin \in AdminRecords /\ NoReq \in ReqRecords /\ NoTouch \in TouchRecords
  /\ NoRow.state = "none" /\ NoAdmin.pc = "idle" /\ NoAdmin.key = 0
  /\ NoReq.pc = "idle" /\ NoReq.row = NoRow /\ NoTouch.pc = "none"
  /\ \A a \in Accounts : LiveRow(a) \in Rows
<1>1. NoRow \in Rows /\ \A a \in Accounts : LiveRow(a) \in Rows
  BY DEF NoRow, LiveRow, Rows
<1>2. NoAdmin \in AdminRecords /\ NoReq \in ReqRecords /\ NoTouch \in TouchRecords
  BY <1>1, GatewayAssumption DEF NoAdmin, NoReq, NoTouch, AdminRecords, ReqRecords, TouchRecords
<1>3. QED
  BY <1>1, <1>2 DEF NoRow, NoAdmin, NoReq, NoTouch

\* The initial states satisfy the invariant.
LEMMA InitIInv == Init => IInv
<1> SUFFICES ASSUME Init PROVE IInv
  OBVIOUS
<1>1. Types
  <2>1. Full \in Buckets /\ Top \in Nat \X Nat
    BY GatewayAssumption DEF Full, Buckets, Top
  <2>2. acctRow \in [Accounts -> AccountRows]
    BY GatewayAssumption DEF Init, AccountRows
  <2>3. QED
    BY <2>1, <2>2, EmptyRecords, GatewayAssumption DEF Init, Types
<1>2. KeyInv
  BY EmptyRecords DEF Init, KeyInv, Making
<1>3. BucketInv /\ RateBound
  <2>1. \A k \in Keys : bucket[k].last = 0 /\ bucket[k].tokens = Capacity
    BY DEF Init, Full
  <2>2. \A k \in Keys : Tokens(k) = Capacity
    BY <2>1, GatewayAssumption DEF Init, Tokens
  <2>3. QED
    BY <2>1, <2>2, GatewayAssumption DEF Init, BucketInv, RateBound, GrantsBefore
<1>4. PoolInv
  <2>1. \A p \in Admins : admin[p].pc = "idle"
    BY EmptyRecords DEF Init
  <2>2. QED
    BY <2>1 DEF Init, PoolInv
<1>5. QED
  BY <1>1, <1>2, <1>3, <1>4 DEF IInv

\* One page of rehydrate().
LEMMA RehydrateStep == IInv /\ Rehydrate => IInv'
<1> SUFFICES ASSUME IInv, Rehydrate PROVE IInv'
  OBVIOUS
<1> DEFINE x == NextCursor(Batch, cursor)
           page == Page(Batch, cursor)
<1>1. /\ UNCHANGED <<keyRow, acctRow, bucket, req, touch, admin, now, ops, restarts, revoked, clash,
                     overlap, grants>>
      /\ phase = "opening" /\ cursor' = x /\ phase' = IF x = Top THEN "open" ELSE "opening"
      /\ pool' = [a \in Accounts |-> IF a \in page THEN acctRow[a].v ELSE pool[a]]
  BY DEF Rehydrate, rows, bounds, history
<1>2. /\ x \in Nat \X Nat
      /\ \A a \in Accounts : acctRow[a].v > 0 /\ Below(a, cursor) =>
           a \in page \/ (x # Top /\ Below(a, x))
  BY PageFacts DEF IInv, Types
<1> HIDE DEF x, page
<1>3. Types'
  BY <1>1, <1>2 DEF IInv, Types, AccountRows
<1>4. \A a \in Accounts : Waits(a)' <=> acctRow[a].v > 0 /\ Below(a, x)
  BY <1>1 DEF Waits, Below, Spot
<1>5. PoolInv'
  <2>1. /\ \A p \in Admins : admin'[p].pc = "idle"
        /\ \A a \in Accounts : Waits(a) \/ pool[a] = acctRow[a].v
    BY <1>1 DEF IInv, PoolInv
  <2>2. \A a \in Accounts : pool'[a] = acctRow'[a].v \/ (x # Top /\ Waits(a)')
    BY <1>1, <1>2, <1>4, <2>1 DEF Waits
  <2>3. QED
    BY <1>1, <2>1, <2>2 DEF PoolInv
<1>6. QED
  BY <1>1, <1>3, <1>5, BucketFrame, KeyFrame DEF IInv

\* A restart forgets memory and keeps the rows.
LEMMA RestartStep == IInv /\ Restart => IInv'
<1> SUFFICES ASSUME IInv, Restart PROVE IInv'
  OBVIOUS
<1>1. Top \in Nat \X Nat /\ [Full EXCEPT !.last = now] \in Buckets
  <2>1. now \in Nat
    BY GatewayAssumption DEF IInv, Types
  <2>2. [Full EXCEPT !.last = now] = [tokens |-> Capacity, last |-> now]
    BY DEF Full
  <2>3. QED
    BY <2>1, <2>2, GatewayAssumption DEF Buckets, Top
<1>2. Types'
  BY <1>1, EmptyRecords, GatewayAssumption DEF IInv, Types, Restart, rows
<1>3. KeyInv'
  <2>1. /\ \A r \in Requests : req'[r].row.state = "none" /\ touch'[r].pc = "none"
        /\ \A p \in Admins : admin'[p].pc = "idle" /\ admin'[p].key = 0
        /\ UNCHANGED <<keyRow, revoked, overlap>>
    BY EmptyRecords DEF Restart, rows
  <2>2. QED
    BY <2>1 DEF IInv, KeyInv, Making
<1>4. BucketInv' /\ RateBound'
  <2>1. /\ \A k \in Keys : bucket'[k].last = now /\ bucket'[k].tokens = Capacity
        /\ \A k \in Keys : \A t \in 0..MaxTime : grants'[k][t] = 0
        /\ now' = now /\ now \in 0..MaxTime
    BY DEF Restart, Full, IInv, Types
  <2>2. \A k \in Keys : Tokens(k)' = Capacity
    BY <2>1, GatewayAssumption DEF Tokens
  <2>3. QED
    BY <2>1, <2>2, GatewayAssumption DEF BucketInv, RateBound, GrantsBefore
<1>5. PoolInv'
  <2>1. /\ \A p \in Admins : admin'[p].pc = "idle"
        /\ phase' = "opening" /\ cursor' = Top /\ acctRow' = acctRow
        /\ pool' = [a \in Accounts |-> 0]
    BY EmptyRecords DEF Restart, rows
  <2>2. \A a \in Accounts : Precedes(Spot(a), Top) /\ acctRow[a].v \in Nat
    BY Spots DEF IInv, Types, AccountRows
  <2>3. \A a \in Accounts : Waits(a)' \/ pool'[a] = acctRow'[a].v
    BY <2>1, <2>2 DEF Waits, Below, Spot
  <2>4. QED
    BY <2>1, <2>3 DEF PoolInv
<1>6. QED
  BY <1>2, <1>3, <1>4, <1>5 DEF IInv

(* A bucket's tokens are numbers between zero and the capacity. *)
LEMMA TokensType ==
  ASSUME IInv, NEW k \in Keys
  PROVE  /\ bucket[k].tokens \in 0..Capacity /\ bucket[k].last \in Nat /\ now \in Nat
         /\ Tokens(k) \in 0..Capacity
<1>1. bucket[k].tokens \in 0..Capacity /\ bucket[k].last \in Nat /\ now \in Nat
  BY GatewayAssumption DEF IInv, Types, Buckets
<1>2. bucket[k].last <= now
  BY DEF IInv, BucketInv
<1>3. QED
  BY <1>1, <1>2, GatewayAssumption DEF Tokens

\* The clock advances.
LEMMA TickStep == IInv /\ Tick => IInv'
<1> SUFFICES ASSUME IInv, Tick PROVE IInv'
  OBVIOUS
<1>1. /\ UNCHANGED <<phase, cursor, keyRow, acctRow, pool, bucket, req, touch, admin, ops,
                     restarts, revoked, clash, overlap, grants>>
      /\ now' = now + 1 /\ now < MaxTime /\ now \in Nat
  BY GatewayAssumption DEF Tick, rows, bounds, history, IInv, Types
<1>2. Types'
  BY <1>1, GatewayAssumption DEF IInv, Types
<1>3. BucketInv' /\ RateBound'
  <2> DEFINE Good(k) ==
        /\ bucket[k].last <= now + 1
        /\ \A t \in 0..(now + 1) :
             grants[k][now + 1] + Tokens(k)' <= GrantsBefore(k, t) + Capacity + (now + 1 - t)
        /\ \A t \in (now + 1)..MaxTime : grants[k][t] = grants[k][now + 1]
        /\ \A t \in 0..(now + 1), u \in 0..(now + 1) :
             t <= u => grants[k][u] <= GrantsBefore(k, t) + Capacity + (u - t)
  <2>a. \A k, t : GrantsBefore(k, t)' = GrantsBefore(k, t)
    BY <1>1 DEF GrantsBefore
  <2>b. (\A k \in Keys : Good(k)) => BucketInv' /\ RateBound'
    <3> SUFFICES ASSUME \A k \in Keys : Good(k) PROVE BucketInv' /\ RateBound'
      OBVIOUS
    <3>1. \A k \in Keys : bucket'[k].last <= now'
      BY <1>1
    <3>2. ASSUME NEW k \in Keys, NEW t \in 0..now'
          PROVE  grants'[k][now'] + Tokens(k)' <= GrantsBefore(k, t)' + Capacity + (now' - t)
      BY <1>1, <2>a, <3>2
    <3>3. ASSUME NEW k \in Keys, NEW t \in now'..MaxTime PROVE grants'[k][t] = grants'[k][now']
      BY <1>1, <3>3
    <3>4. ASSUME NEW k \in Keys, NEW t \in 0..now', NEW u \in 0..now', t <= u
          PROVE  grants'[k][u] <= GrantsBefore(k, t)' + Capacity + (u - t)
      BY <1>1, <2>a, <3>4
    <3>5. QED
      BY <3>1, <3>2, <3>3, <3>4 DEF BucketInv, RateBound
  <2> SUFFICES ASSUME NEW k \in Keys PROVE Good(k)
    BY <2>b
  <2>1. /\ bucket[k].tokens \in 0..Capacity /\ bucket[k].last \in Nat /\ bucket[k].last <= now
        /\ Tokens(k) \in 0..Capacity
    BY TokensType DEF IInv, BucketInv
  <2>2. Tokens(k)' \in 0..Capacity /\ Tokens(k)' <= Tokens(k) + 1
    BY <1>1, <2>1, GatewayAssumption DEF Tokens
  <2>3. \A t \in 0..MaxTime : grants[k][t] \in Nat
    BY DEF IInv, Types
  <2>4. \A t \in now..MaxTime : grants[k][t] = grants[k][now]
    BY DEF IInv, BucketInv
  <2>5. grants[k][now + 1] = grants[k][now]
    BY <1>1, <2>4, GatewayAssumption
  <2>6. \A t \in 0..now : grants[k][now] + Tokens(k) <= GrantsBefore(k, t) + Capacity + (now - t)
    BY DEF IInv, BucketInv
  <2>7. \A t \in 0..(now + 1) : GrantsBefore(k, t) \in Nat
    BY <1>1, <2>3, GatewayAssumption DEF GrantsBefore
  <2>8. GrantsBefore(k, now + 1) = grants[k][now]
    BY <1>1 DEF GrantsBefore
  <2>9. grants[k][now] \in Nat
    BY <1>1, <2>3, GatewayAssumption
  <2>10. ASSUME NEW t \in 0..(now + 1)
         PROVE  grants[k][now + 1] + Tokens(k)' <= GrantsBefore(k, t) + Capacity + (now + 1 - t)
    <3>1. CASE t = now + 1
      BY <1>1, <2>2, <2>5, <2>8, <2>9, <3>1, GatewayAssumption
    <3>2. CASE t # now + 1
      <4>1. t \in 0..now /\ GrantsBefore(k, t) \in Nat
        BY <1>1, <2>7, <3>2
      <4>2. QED
        BY <1>1, <2>1, <2>2, <2>5, <2>6, <2>9, <4>1, GatewayAssumption
    <3>3. QED
      BY <3>1, <3>2
  <2>11. ASSUME NEW t \in 0..(now + 1), NEW u \in 0..(now + 1), t <= u
         PROVE  grants[k][u] <= GrantsBefore(k, t) + Capacity + (u - t)
    <3>1. CASE u = now + 1
      BY <1>1, <2>2, <2>5, <2>7, <2>9, <2>10, <3>1, GatewayAssumption
    <3>2. CASE u # now + 1
      <4>1. t \in 0..now /\ u \in 0..now
        BY <1>1, <2>11, <3>2
      <4>2. QED
        BY <2>11, <4>1 DEF IInv, RateBound
    <3>3. QED
      BY <3>1, <3>2
  <2>12. QED
    BY <1>1, <2>1, <2>4, <2>5, <2>10, <2>11, GatewayAssumption
<1>4. KeyInv' /\ PoolInv'
  BY <1>1, KeyFrame, PoolFrame
<1>5. QED
  BY <1>2, <1>3, <1>4 DEF IInv

---------------------------------------------------------------------------
(* Requests *)

(* A request moves; it may only carry a live row of a key that exists. *)
LEMMA RequestFrame ==
  ASSUME IInv, NEW r \in Requests, NEW x \in ReqRecords, req' = [req EXCEPT ![r] = x],
         x.row.state = "live" => x.key \in Keys /\ keyRow[x.key].state # "none",
         UNCHANGED <<keyRow, touch, admin, revoked, overlap>>
  PROVE  req' \in [Requests -> ReqRecords] /\ KeyInv'
<1>1. req' \in [Requests -> ReqRecords] /\ \A q \in Requests : req'[q] = IF q = r THEN x ELSE req[q]
  BY DEF IInv, Types
<1>2. \A q \in Requests : req'[q].row.state = "live" =>
         req'[q].key \in Keys /\ keyRow[req'[q].key].state # "none"
  BY <1>1 DEF IInv, KeyInv
<1>3. QED
  BY <1>1, <1>2 DEF IInv, KeyInv, Making

(* The same for a step that changes nothing else. *)
LEMMA RequestOnly ==
  ASSUME IInv, NEW r \in Requests, NEW x \in ReqRecords, req' = [req EXCEPT ![r] = x],
         x.row.state = "live" => x.key \in Keys /\ keyRow[x.key].state # "none",
         UNCHANGED <<phase, cursor, rows, pool, bucket, touch, admin, now, bounds, history>>
  PROVE  IInv'
<1>1. UNCHANGED <<phase, cursor, keyRow, acctRow, pool, bucket, touch, admin, now, ops, restarts,
                  revoked, clash, overlap, grants>>
  BY DEF rows, bounds, history
<1>2. req' \in [Requests -> ReqRecords] /\ KeyInv'
  BY <1>1, RequestFrame
<1>3. Types'
  BY <1>1, <1>2 DEF IInv, Types
<1>4. BucketInv' /\ RateBound' /\ PoolInv'
  BY <1>1, BucketFrame, PoolFrame
<1>5. QED
  BY <1>2, <1>3, <1>4 DEF IInv

\* A step that only answers a request.
LEMMA AnswerOnly ==
  ASSUME IInv, NEW r \in Requests, NEW s, Answer(r, s),
         UNCHANGED <<phase, cursor, rows, pool, bucket, touch, admin, now, bounds, history>>
  PROVE  IInv'
<1>1. NoReq \in ReqRecords /\ NoReq.row.state # "live" /\ req' = [req EXCEPT ![r] = NoReq]
  BY EmptyRecords DEF Answer
<1>2. QED
  BY <1>1, RequestOnly

(* What a request holds. *)
LEMMA RequestType ==
  ASSUME IInv, NEW r \in Requests
  PROVE  /\ req[r] \in ReqRecords /\ req[r].key \in Keys \cup {0} /\ req[r].row \in Rows
         /\ req[r].row.state = "live" => req[r].key \in Keys /\ keyRow[req[r].key].state # "none"
BY DEF IInv, Types, KeyInv, ReqRecords

\* A request arrives.
LEMMA ArriveStep ==
  ASSUME IInv, NEW r \in Requests, NEW k \in Keys \cup {0}, Arrive(r, k)
  PROVE  IInv'
<1> DEFINE x == [NoReq EXCEPT !.pc = "lookup", !.key = k]
<1>1. x \in ReqRecords /\ x.row = NoRow
  <2>1. NoReq \in ReqRecords /\ NoReq.row = NoRow
    BY EmptyRecords
  <2> HIDE DEF NoReq
  <2>2. QED
    BY <2>1 DEF ReqRecords
<1>2. req' = [req EXCEPT ![r] = x] /\ x.row.state # "live"
  BY <1>1, EmptyRecords DEF Arrive
<1> HIDE DEF x
<1>3. QED
  BY <1>1, <1>2, RequestOnly DEF Arrive

\* The key row is read.
LEMMA LookupStep ==
  ASSUME IInv, NEW r \in Requests, Lookup(r)
  PROVE  IInv'
<1> DEFINE w == IF req[r].key = 0 THEN NoRow ELSE keyRow[req[r].key]
           x == [req[r] EXCEPT !.pc = "decide", !.row = w]
<1>1. w \in Rows /\ req[r].key \in Keys \cup {0} /\ (w.state = "live" => req[r].key \in Keys /\ w = keyRow[req[r].key])
  <2>1. keyRow \in [Keys -> Rows]
    BY DEF IInv, Types
  <2>2. QED
    BY <2>1, RequestType, EmptyRecords
<1> HIDE DEF w
<1>2. x \in ReqRecords /\ (x.row.state = "live" => x.key \in Keys /\ keyRow[x.key].state # "none")
  <2>1. x \in ReqRecords /\ x.row = w /\ x.key = req[r].key
    BY <1>1, RequestType DEF ReqRecords
  <2>2. QED
    BY <1>1, <2>1, RequestType DEF IInv, KeyInv
<1>3. req' = [req EXCEPT ![r] = x]
  <2>1. req \in [Requests -> ReqRecords] /\ req' = [req EXCEPT ![r].pc = "decide", ![r].row = w]
    BY DEF IInv, Types, Lookup, w
  <2>2. QED
    BY <2>1
<1> HIDE DEF x
<1>4. QED
  BY <1>2, <1>3, RequestOnly DEF Lookup

(* A request that goes on keeps its key and its row. *)
LEMMA GoOn ==
  ASSUME IInv, NEW r \in Requests, NEW c \in {"handle", "upstream"}
  PROVE  LET x == [req[r] EXCEPT !.pc = c]
         IN /\ [req EXCEPT ![r].pc = c] = [req EXCEPT ![r] = x]
            /\ x \in ReqRecords
            /\ x.row.state = "live" => x.key \in Keys /\ keyRow[x.key].state # "none"
<1>1. req \in [Requests -> ReqRecords]
  BY DEF IInv, Types
<1> DEFINE x == [req[r] EXCEPT !.pc = c]
<1>2. [req EXCEPT ![r].pc = c] = [req EXCEPT ![r] = x]
  BY <1>1
<1>3. x \in ReqRecords /\ x.row = req[r].row /\ x.key = req[r].key
  BY RequestType DEF ReqRecords
<1>4. QED
  BY <1>2, <1>3, RequestType

\* The route is run.
LEMMA HandleStep ==
  ASSUME IInv, NEW r \in Requests, NEW route \in KeyRoutes, Handle(r, route)
  PROVE  IInv'
<1>1. UNCHANGED <<phase, cursor, rows, pool, bucket, touch, admin, now, bounds, history>>
  BY DEF Handle
<1>2. (\E s : Answer(r, s)) \/ req' = [req EXCEPT ![r].pc = "upstream"]
  BY DEF Handle
<1>3. CASE \E s : Answer(r, s)
  BY <1>1, <1>3, AnswerOnly
<1>4. CASE req' = [req EXCEPT ![r].pc = "upstream"]
  BY <1>1, <1>4, GoOn, RequestOnly
<1>5. QED
  BY <1>2, <1>3, <1>4

\* The upstream call ends.
LEMMA UpstreamStep ==
  ASSUME IInv, NEW r \in Requests, NEW s, Upstream(r, s)
  PROVE  IInv'
BY AnswerOnly DEF Upstream

(* TokenBucket.allow refuses: the bucket is only brought up to date. *)
LEMMA BucketRefuse ==
  ASSUME IInv, NEW k \in Keys, bucket' = [bucket EXCEPT ![k] = [tokens |-> Tokens(k), last |-> now]],
         UNCHANGED <<grants, now>>
  PROVE  bucket' \in [Keys -> Buckets] /\ BucketInv' /\ RateBound'
<1>1. Tokens(k) \in 0..Capacity /\ now \in Nat /\ bucket \in [Keys -> Buckets]
  BY TokensType DEF IInv, Types
<1>2. bucket' \in [Keys -> Buckets]
  BY <1>1 DEF Buckets
<1>3. \A j \in Keys : bucket'[j].last <= now
  BY <1>1 DEF IInv, BucketInv
<1>4. \A j \in Keys : Tokens(j)' = Tokens(j)
  <2> SUFFICES ASSUME NEW j \in Keys PROVE Tokens(j)' = Tokens(j)
    OBVIOUS
  <2>1. CASE j = k
    <3>1. bucket'[j].tokens = Tokens(k) /\ bucket'[j].last = now
      BY <1>1, <2>1
    <3>2. Tokens(j)' = IF bucket'[j].tokens + (now - bucket'[j].last) > Capacity
                       THEN Capacity ELSE bucket'[j].tokens + (now - bucket'[j].last)
      BY DEF Tokens
    <3> HIDE DEF Tokens
    <3>3. QED
      BY <1>1, <2>1, <3>1, <3>2, GatewayAssumption
  <2>2. CASE j # k
    BY <1>1, <2>2 DEF Tokens
  <2>3. QED
    BY <2>1, <2>2
<1>5. \A j, t : GrantsBefore(j, t)' = GrantsBefore(j, t)
  BY DEF GrantsBefore
<1>6. QED
  BY <1>2, <1>3, <1>4, <1>5 DEF IInv, BucketInv, RateBound

(* TokenBucket.allow grants: what was granted rises by the token it takes. *)
LEMMA BucketGrant ==
  ASSUME IInv, NEW k \in Keys, ~Spent(k), now' = now,
         bucket' = [bucket EXCEPT ![k] = [tokens |-> Tokens(k) - 1, last |-> now]],
         grants' = [grants EXCEPT ![k] = [t \in 0..MaxTime |-> IF t < now THEN @[t] ELSE @[t] + 1]]
  PROVE  /\ bucket' \in [Keys -> Buckets] /\ grants' \in [Keys -> [0..MaxTime -> Nat]]
         /\ BucketInv' /\ RateBound'
<1>1. /\ Tokens(k) \in 1..Capacity /\ now \in Nat /\ now \in 0..MaxTime
      /\ bucket \in [Keys -> Buckets] /\ grants \in [Keys -> [0..MaxTime -> Nat]]
  <2>1. Tokens(k) \in 0..Capacity /\ now \in Nat
    BY TokensType
  <2>2. Tokens(k) \in 1..Capacity
    <3>1. ~(Tokens(k) < 1)
      BY DEF Spent
    <3>2. Capacity \in Nat
      BY GatewayAssumption
    <3>3. QED
      BY <2>1, <3>1, <3>2
  <2>3. /\ now \in 0..MaxTime
        /\ bucket \in [Keys -> Buckets] /\ grants \in [Keys -> [0..MaxTime -> Nat]]
    BY DEF IInv, Types
  <2>4. QED
    BY <2>1, <2>2, <2>3
<1>2. bucket' \in [Keys -> Buckets]
  BY <1>1, GatewayAssumption DEF Buckets
<1>3. grants' \in [Keys -> [0..MaxTime -> Nat]]
  <2> DEFINE g == [t \in 0..MaxTime |-> IF t < now THEN grants[k][t] ELSE grants[k][t] + 1]
  <2>1. grants[k] \in [0..MaxTime -> Nat]
    BY <1>1
  <2>2. g \in [0..MaxTime -> Nat]
    BY <1>1, <2>1
  <2>3. grants' = [grants EXCEPT ![k] = g]
    OBVIOUS
  <2> HIDE DEF g
  <2>4. QED
    BY <1>1, <2>2, <2>3
<1>4. \A j \in Keys : j # k => grants'[j] = grants[j] /\ bucket'[j] = bucket[j]
  BY <1>1
<1>5. \A t \in 0..MaxTime : grants'[k][t] = IF t < now THEN grants[k][t] ELSE grants[k][t] + 1
  BY <1>1
<1>6. bucket'[k].last = now /\ bucket'[k].tokens = Tokens(k) - 1
  BY <1>1
<1>7. Tokens(k)' = Tokens(k) - 1
  <2>1. Tokens(k)' = IF bucket'[k].tokens + (now - bucket'[k].last) > Capacity
                     THEN Capacity ELSE bucket'[k].tokens + (now - bucket'[k].last)
    BY DEF Tokens
  <2> HIDE DEF Tokens
  <2>2. QED
    BY <1>1, <1>6, <2>1, GatewayAssumption
<1>8. ASSUME NEW j \in Keys, j # k PROVE Tokens(j)' = Tokens(j) /\ \A t : GrantsBefore(j, t)' = GrantsBefore(j, t)
  BY <1>4, <1>8 DEF Tokens, GrantsBefore
<1>9. \A t \in 0..now : GrantsBefore(k, t)' = GrantsBefore(k, t) /\ GrantsBefore(k, t) \in Nat
  <2> SUFFICES ASSUME NEW t \in 0..now
               PROVE  GrantsBefore(k, t)' = GrantsBefore(k, t) /\ GrantsBefore(k, t) \in Nat
    OBVIOUS
  <2>1. CASE t = 0
    BY <2>1 DEF GrantsBefore
  <2>2. CASE t # 0
    <3>1. t - 1 \in 0..MaxTime /\ t - 1 < now
      BY <1>1, <2>2, GatewayAssumption
    <3>2. grants'[k][t - 1] = grants[k][t - 1] /\ grants[k][t - 1] \in Nat
      BY <1>1, <1>5, <3>1
    <3>3. QED
      BY <2>2, <3>2 DEF GrantsBefore
  <2>3. QED
    BY <2>1, <2>2
<1>10. \A t \in 0..now : grants'[k][now] + Tokens(k)' <= GrantsBefore(k, t)' + Capacity + (now - t)
  <2>1. \A t \in 0..now : grants[k][now] + Tokens(k) <= GrantsBefore(k, t) + Capacity + (now - t)
    BY DEF IInv, BucketInv
  <2>2. grants'[k][now] = grants[k][now] + 1 /\ grants[k][now] \in Nat
    <3>1. grants[k] \in [0..MaxTime -> Nat] /\ now \in 0..MaxTime /\ ~(now < now)
      BY <1>1
    <3>2. QED
      BY <1>5, <3>1
  <2>3. grants'[k][now] + Tokens(k)' = grants[k][now] + Tokens(k)
    BY <1>1, <1>7, <2>2
  <2>4. QED
    BY <1>9, <2>1, <2>3
<1>11. \A t \in now..MaxTime : grants'[k][t] = grants'[k][now]
  <2>1. \A t \in now..MaxTime : grants[k][t] = grants[k][now]
    BY DEF IInv, BucketInv
  <2>2. \A t \in now..MaxTime : t \in 0..MaxTime /\ ~(t < now)
    BY <1>1, GatewayAssumption
  <2>3. QED
    BY <1>1, <1>5, <2>1, <2>2
<1>12. ASSUME NEW t \in 0..now, NEW u \in 0..now, t <= u
       PROVE  grants'[k][u] <= GrantsBefore(k, t)' + Capacity + (u - t)
  <2>1. CASE u = now
    <3>1. grants'[k][now] \in Nat /\ Tokens(k)' \in Nat /\ GrantsBefore(k, t)' \in Nat
      BY <1>1, <1>3, <1>7, <1>9
    <3>2. grants'[k][now] + Tokens(k)' <= GrantsBefore(k, t)' + Capacity + (now - t)
      BY <1>10
    <3>3. t \in Nat /\ now \in Nat /\ Capacity \in Nat
      BY <1>1, GatewayAssumption
    <3>4. \A g, w, b \in Nat : g + w <= b + Capacity + (now - t) => g <= b + Capacity + (now - t)
      BY <3>3
    <3>5. QED
      BY <2>1, <3>1, <3>2, <3>4
  <2>2. CASE u # now
    <3>1. u \in 0..MaxTime /\ u < now
      BY <1>1, <2>2, GatewayAssumption
    <3>2. grants'[k][u] = grants[k][u] /\ GrantsBefore(k, t)' = GrantsBefore(k, t)
      BY <1>5, <1>9, <3>1
    <3>3. QED
      BY <1>12, <3>2 DEF IInv, RateBound
  <2>3. QED
    BY <2>1, <2>2
<1>13. BucketInv'
  <2> SUFFICES ASSUME NEW j \in Keys
               PROVE  /\ bucket'[j].last <= now
                      /\ \A t \in 0..now : grants'[j][now] + Tokens(j)' <= GrantsBefore(j, t)' + Capacity + (now - t)
                      /\ \A t \in now..MaxTime : grants'[j][t] = grants'[j][now]
    BY DEF BucketInv
  <2>1. CASE j = k
    <3>1. bucket'[k].last <= now
      BY <1>1, <1>6
    <3>2. QED
      BY <1>10, <1>11, <2>1, <3>1
  <2>2. CASE j # k
    BY <1>4, <1>8, <2>2 DEF IInv, BucketInv
  <2>3. QED
    BY <2>1, <2>2
<1>14. RateBound'
  <2> SUFFICES ASSUME NEW j \in Keys, NEW t \in 0..now, NEW u \in 0..now, t <= u
               PROVE  grants'[j][u] <= GrantsBefore(j, t)' + Capacity + (u - t)
    BY DEF RateBound
  <2>1. CASE j = k
    BY <1>12, <2>1
  <2>2. CASE j # k
    BY <1>4, <1>8, <2>2 DEF IInv, RateBound
  <2>3. QED
    BY <2>1, <2>2
<1>15. QED
  BY <1>2, <1>3, <1>13, <1>14

\* The bucket grants or refuses.
LEMMA DecideStep ==
  ASSUME IInv, NEW r \in Requests, Decide(r)
  PROVE  IInv'
<1> DEFINE k == req[r].key
<1>1. UNCHANGED <<phase, cursor, keyRow, acctRow, pool, admin, now, ops, restarts, revoked, clash, overlap>>
  BY DEF Decide, rows, bounds
<1>2. PoolInv'
  BY <1>1, PoolFrame
<1>3. \A s : Answer(r, s) => req' = [req EXCEPT ![r] = NoReq]
  BY DEF Answer
<1>4. NoReq \in ReqRecords /\ NoReq.row.state # "live"
  BY EmptyRecords
<1>5. CASE req[r].row.state # "live"
  <2>1. Answer(r, 401) /\ UNCHANGED <<phase, cursor, rows, pool, bucket, touch, admin, now, bounds, history>>
    BY <1>5 DEF Decide, history
  <2>2. QED
    BY <2>1, AnswerOnly
<1>6. CASE req[r].row.state = "live" /\ Spent(k)
  <2>1. k \in Keys
    BY <1>6, RequestType
  <2>2. /\ req' = [req EXCEPT ![r] = NoReq] /\ UNCHANGED <<touch, grants>>
        /\ bucket' = [bucket EXCEPT ![k] = [tokens |-> Tokens(k), last |-> now]]
    BY <1>3, <1>6 DEF Decide
  <2>3. bucket' \in [Keys -> Buckets] /\ BucketInv' /\ RateBound'
    BY <1>1, <2>1, <2>2, BucketRefuse
  <2>4. req' \in [Requests -> ReqRecords] /\ KeyInv'
    BY <1>1, <1>4, <2>2, RequestFrame
  <2>5. Types'
    BY <1>1, <2>2, <2>3, <2>4 DEF IInv, Types
  <2>6. QED
    BY <1>2, <2>3, <2>4, <2>5 DEF IInv
<1>7. CASE req[r].row.state = "live" /\ ~Spent(k)
  <2> DEFINE x == [req[r] EXCEPT !.pc = "handle"]
             y == [NoTouch EXCEPT !.pc = "get", !.key = k, !.row = req[r].row]
  <2>1. k \in Keys /\ keyRow[k].state # "none" /\ req[r].row \in Rows
    BY <1>7, RequestType
  <2>2. /\ req' = [req EXCEPT ![r].pc = "handle"] /\ touch' = [touch EXCEPT ![r] = y]
        /\ bucket' = [bucket EXCEPT ![k] = [tokens |-> Tokens(k) - 1, last |-> now]]
        /\ grants' = [grants EXCEPT ![k] = [t \in 0..MaxTime |-> IF t < now THEN @[t] ELSE @[t] + 1]]
    BY <1>7 DEF Decide
  <2>3. y \in TouchRecords /\ y.pc = "get" /\ y.key = k /\ y.row = req[r].row
    <3>1. NoTouch \in TouchRecords
      BY EmptyRecords
    <3> HIDE DEF NoTouch, k
    <3>2. QED
      BY <2>1, <3>1 DEF TouchRecords
  <2>4. /\ bucket' \in [Keys -> Buckets] /\ grants' \in [Keys -> [0..MaxTime -> Nat]]
        /\ BucketInv' /\ RateBound'
    <3> HIDE DEF k
    <3>1. QED
      BY <1>1, <1>7, <2>1, <2>2, BucketGrant
  <2>5. /\ req' = [req EXCEPT ![r] = x] /\ x \in ReqRecords /\ x.row = req[r].row /\ x.key = k
    <3>1. req \in [Requests -> ReqRecords] /\ req[r] \in ReqRecords
      BY DEF IInv, Types
    <3>2. QED
      BY <2>2, <3>1 DEF ReqRecords
  <2> HIDE DEF x, y, k
  <2>6. /\ req' \in [Requests -> ReqRecords] /\ touch' \in [Requests -> TouchRecords]
        /\ \A q \in Requests : /\ req'[q] = IF q = r THEN x ELSE req[q]
                               /\ touch'[q] = IF q = r THEN y ELSE touch[q]
    BY <2>2, <2>3, <2>5 DEF IInv, Types
  <2>7. Types'
    BY <1>1, <2>4, <2>6 DEF IInv, Types
  <2>8. KeyInv'
    <3>1. \A q \in Requests : req'[q].row.state = "live" =>
             req'[q].key \in Keys /\ keyRow[req'[q].key].state # "none"
      BY <2>1, <2>5, <2>6 DEF IInv, KeyInv
    <3>2. \A q \in Requests : touch'[q].pc # "none" =>
             /\ touch'[q].key \in Keys /\ keyRow[touch'[q].key].state # "none"
             /\ touch'[q].row.state # "none"
      BY <1>7, <2>1, <2>3, <2>6 DEF IInv, KeyInv
    <3>3. \A q \in Requests : touch'[q].pc = "put" => touch'[q] = touch[q]
      BY <2>3, <2>6
    <3>4. QED
      BY <1>1, <3>1, <3>2, <3>3 DEF IInv, KeyInv, Making
  <2>9. QED
    BY <1>2, <2>4, <2>7, <2>8 DEF IInv
<1>8. QED
  BY <1>5, <1>6, <1>7

(* touch() as a task of its own. *)
LEMMA TouchGetStep ==
  ASSUME IInv, NEW r \in Requests, TouchGet(r)
  PROVE  IInv'
<1> DEFINE y == [touch[r] EXCEPT !.pc = "put", !.row = keyRow[touch[r].key]]
<1>1. /\ UNCHANGED <<phase, cursor, keyRow, acctRow, pool, bucket, req, admin, now, ops, restarts,
                     revoked, clash, overlap, grants>>
      /\ touch[r].pc = "get"
      /\ touch' = [touch EXCEPT ![r].pc = "put", ![r].row = keyRow[touch[r].key]]
  BY DEF TouchGet, rows, bounds, history
<1>2. /\ touch[r].key \in Keys /\ keyRow[touch[r].key].state # "none" /\ keyRow[touch[r].key] \in Rows
      /\ touch \in [Requests -> TouchRecords]
  BY <1>1 DEF IInv, KeyInv, Types
<1>3. y \in TouchRecords /\ y.pc = "put" /\ y.key = touch[r].key /\ y.row = keyRow[touch[r].key]
  <2>1. touch[r] \in TouchRecords
    BY <1>2
  <2>2. QED
    BY <1>2, <2>1 DEF TouchRecords
<1>4. touch' = [touch EXCEPT ![r] = y]
  BY <1>1, <1>2
<1> HIDE DEF y
<1>5. /\ touch' \in [Requests -> TouchRecords]
      /\ \A q \in Requests : touch'[q] = IF q = r THEN y ELSE touch[q]
  BY <1>2, <1>3, <1>4
<1>6. Types'
  BY <1>1, <1>5 DEF IInv, Types
<1>7. KeyInv'
  <2>1. \A q \in Requests : touch'[q].pc # "none" =>
           /\ touch'[q].key \in Keys /\ keyRow[touch'[q].key].state # "none"
           /\ touch'[q].row.state # "none"
    BY <1>2, <1>3, <1>5 DEF IInv, KeyInv
  <2>2. \A k \in revoked \ overlap : \A q \in Requests :
           touch'[q].pc = "put" /\ touch'[q].key = k => touch'[q].row.state = "revoked"
    BY <1>3, <1>5 DEF IInv, KeyInv
  <2>3. QED
    BY <1>1, <2>1, <2>2 DEF IInv, KeyInv, Making
<1>8. QED
  BY <1>1, <1>6, <1>7, BucketFrame, PoolFrame DEF IInv

\* touch() writes the row it has read.
LEMMA TouchPutStep ==
  ASSUME IInv, NEW r \in Requests, TouchPut(r)
  PROVE  IInv'
<1> DEFINE k == touch[r].key
           w == touch[r].row
<1>1. /\ UNCHANGED <<phase, cursor, acctRow, pool, bucket, req, admin, now, ops, restarts, revoked,
                     clash, overlap, grants>>
      /\ touch[r].pc = "put" /\ touch' = [touch EXCEPT ![r] = NoTouch]
      /\ keyRow' = [keyRow EXCEPT ![k] = w]
  BY DEF TouchPut, bounds, history
<1>2. /\ k \in Keys /\ keyRow[k].state # "none" /\ w.state # "none" /\ w \in Rows
      /\ touch \in [Requests -> TouchRecords] /\ keyRow \in [Keys -> Rows]
  BY <1>1 DEF IInv, KeyInv, Types, TouchRecords
<1>3. k \in revoked \ overlap => w.state = "revoked"
  BY <1>1 DEF IInv, KeyInv
<1> HIDE DEF k, w
<1>4. /\ touch' \in [Requests -> TouchRecords]
      /\ \A q \in Requests : touch'[q] = IF q = r THEN NoTouch ELSE touch[q]
  BY <1>1, <1>2, EmptyRecords
<1>5. /\ keyRow' \in [Keys -> Rows]
      /\ \A j \in Keys : keyRow'[j] = IF j = k THEN w ELSE keyRow[j]
  BY <1>1, <1>2
<1>6. Types'
  BY <1>1, <1>4, <1>5 DEF IInv, Types
<1>7. \A j \in Keys : keyRow'[j].state = "none" <=> keyRow[j].state = "none"
  BY <1>2, <1>5
<1>8. KeyInv'
  <2>1. \A q \in Requests : req'[q].row.state = "live" =>
           req'[q].key \in Keys /\ keyRow'[req'[q].key].state # "none"
    BY <1>1, <1>7 DEF IInv, KeyInv
  <2>2. \A q \in Requests : touch'[q].pc # "none" =>
           /\ touch'[q].key \in Keys /\ keyRow'[touch'[q].key].state # "none"
           /\ touch'[q].row.state # "none"
    BY <1>4, <1>7, EmptyRecords DEF IInv, KeyInv
  <2>3. \A p \in Admins : Making(p)' =>
           /\ keyRow'[admin'[p].key].state = "none"
           /\ \A q \in Admins \ {p} : admin'[q].key # admin'[p].key
    <3>1. \A p \in Admins : admin[p].key \in Keys \cup {0}
      BY DEF IInv, Types, AdminRecords
    <3>2. QED
      BY <1>1, <1>7, <3>1 DEF IInv, KeyInv, Making
  <2>4. \A p \in Admins : admin'[p].pc = "revoke" =>
           admin'[p].key \in Keys /\ keyRow'[admin'[p].key].state # "none"
    BY <1>1, <1>7 DEF IInv, KeyInv
  <2>5. revoked \in SUBSET Keys
    BY DEF IInv, Types
  <2>6. \A j \in revoked : keyRow'[j].state # "none"
    BY <1>7, <2>5 DEF IInv, KeyInv
  <2>7. \A j \in revoked \ overlap :
           /\ keyRow'[j].state = "revoked"
           /\ \A q \in Requests : touch'[q].pc = "put" /\ touch'[q].key = j =>
                 touch'[q].row.state = "revoked"
    BY <1>3, <1>4, <1>5, <2>5, EmptyRecords DEF IInv, KeyInv
  <2>8. QED
    BY <1>1, <2>1, <2>2, <2>3, <2>4, <2>6, <2>7 DEF IInv, KeyInv
<1>9. QED
  BY <1>1, <1>6, <1>8, BucketFrame, PoolFrame DEF IInv

---------------------------------------------------------------------------
(* The admin routes *)

(* What an admin request may hold when the key rows do not change. *)
LEMMA AdminFrame ==
  ASSUME IInv, NEW p \in Admins, NEW x \in AdminRecords, admin' = [admin EXCEPT ![p] = x],
         UNCHANGED <<keyRow, req, touch, revoked, overlap>>,
         x.pc = "create" => x.key # 0,
         x.pc \in {"idle", "remove"} => x.key = 0,
         x.pc = "revoke" => x.key \in Keys /\ keyRow[x.key].state # "none",
         x.pc \in {"add", "create"} /\ x.key # 0 =>
            keyRow[x.key].state = "none" /\ \A q \in Admins \ {p} : admin[q].key # x.key
  PROVE  /\ admin' \in [Admins -> AdminRecords] /\ KeyInv'
         /\ \A q \in Admins : admin'[q] = IF q = p THEN x ELSE admin[q]
<1>1. /\ admin' \in [Admins -> AdminRecords]
      /\ \A q \in Admins : admin'[q] = IF q = p THEN x ELSE admin[q]
  BY DEF IInv, Types
<1>2. x.pc \in {"idle", "add", "remove", "create", "revoke"} /\ x.key \in Keys \cup {0}
  BY DEF AdminRecords
<1>3. ASSUME NEW q \in Admins, q # p, Making(q) PROVE x.key # admin[q].key
  <2>1. admin[q].key # 0 /\ keyRow[admin[q].key].state = "none"
    BY <1>3 DEF IInv, KeyInv, Making
  <2>2. QED
    BY <1>2, <1>3, <2>1
<1>4. \A q \in Admins : admin'[q].pc = "create" => admin'[q].key # 0
  BY <1>1 DEF IInv, KeyInv
<1>5. ASSUME NEW q \in Admins, Making(q)'
      PROVE  /\ keyRow'[admin'[q].key].state = "none"
             /\ \A o \in Admins \ {q} : admin'[o].key # admin'[q].key
  <2>1. CASE q = p
    BY <1>1, <1>5, <2>1 DEF Making
  <2>2. CASE q # p
    <3>1. Making(q) /\ admin'[q] = admin[q]
      BY <1>1, <1>5, <2>2 DEF Making
    <3>2. /\ keyRow[admin[q].key].state = "none"
          /\ \A o \in Admins \ {q} : admin[o].key # admin[q].key
      BY <3>1 DEF IInv, KeyInv
    <3>3. QED
      BY <1>1, <1>3, <2>2, <3>1, <3>2
  <2>3. QED
    BY <2>1, <2>2
<1>6. \A q \in Admins : admin'[q].pc = "revoke" =>
         admin'[q].key \in Keys /\ keyRow'[admin'[q].key].state # "none"
  BY <1>1 DEF IInv, KeyInv
<1>7. \A q \in Admins : admin'[q].pc \in {"idle", "remove"} => admin'[q].key = 0
  BY <1>1 DEF IInv, KeyInv
<1>8. KeyInv'
  BY <1>4, <1>5, <1>6, <1>7 DEF IInv, KeyInv
<1>9. QED
  BY <1>1, <1>8

\* What the invariant says of one admin request.
LEMMA AdminType ==
  ASSUME IInv, NEW p \in Admins
  PROVE  /\ admin[p] \in AdminRecords /\ admin[p].key \in Keys \cup {0}
         /\ admin[p].account \in Accounts \cup {0} /\ admin[p].v \in 0..MaxOps /\ admin[p].row \in Rows
         /\ admin[p].pc # "idle" => phase = "open"
BY DEF IInv, Types, AdminRecords, PoolInv

\* An admin request may begin: the gateway is open and the bound is not used up.
LEMMA ReadyFacts ==
  ASSUME IInv, NEW p \in Admins, Ready(p)
  PROVE  phase = "open" /\ admin[p].pc = "idle" /\ ops' = ops + 1 /\ ops + 1 \in 1..MaxOps /\ ops' \in 0..MaxOps
BY GatewayAssumption DEF IInv, Types, Ready

\* An admin request is refused.
LEMMA RefuseAdminStep ==
  ASSUME IInv, NEW p \in Admins, RefuseAdmin(p)
  PROVE  IInv'
<1>1. /\ UNCHANGED <<phase, cursor, keyRow, acctRow, pool, bucket, req, touch, admin, now, restarts,
                     revoked, clash, overlap, grants>>
      /\ ops' \in 0..MaxOps
  BY ReadyFacts DEF RefuseAdmin, rows, history
<1>2. Types'
  BY <1>1 DEF IInv, Types
<1>3. QED
  BY <1>1, <1>2, BucketFrame, KeyFrame, PoolFrame DEF IInv

\* A key is generated.
LEMMA GenerateStep ==
  ASSUME IInv, NEW p \in Admins, NEW a \in Accounts, NEW k \in Keys, Generate(p, a, k)
  PROVE  IInv'
<1> DEFINE x == [pc |-> "create", key |-> k, account |-> a, v |-> 0, row |-> LiveRow(a)]
<1>1. /\ UNCHANGED <<phase, cursor, keyRow, acctRow, pool, bucket, req, touch, now, restarts,
                     revoked, clash, overlap, grants>>
      /\ ops' \in 0..MaxOps /\ phase = "open" /\ admin[p].pc = "idle"
      /\ admin' = [admin EXCEPT ![p] = x] /\ NewKey(k)
  BY ReadyFacts DEF Generate, rows, history
<1>2. x \in AdminRecords
  BY EmptyRecords, GatewayAssumption DEF AdminRecords
<1>3. x.pc = "create" /\ x.key = k /\ k # 0
  BY GatewayAssumption
<1> HIDE DEF x
<1>4. /\ admin' \in [Admins -> AdminRecords] /\ KeyInv'
      /\ \A q \in Admins : admin'[q] = IF q = p THEN x ELSE admin[q]
  <2>1. keyRow[k].state = "none" /\ \A q \in Admins \ {p} : admin[q].key # k
    BY <1>1 DEF NewKey
  <2>2. QED
    BY <1>1, <1>2, <1>3, <2>1, AdminFrame
<1>5. PoolInv'
  BY <1>1, <1>3, <1>4, PoolFrame
<1>6. Types'
  BY <1>1, <1>4 DEF IInv, Types
<1>7. QED
  BY <1>1, <1>4, <1>5, <1>6, BucketFrame DEF IInv

\* revoke() reads the key row.
LEMMA RevokeGetStep ==
  ASSUME IInv, NEW p \in Admins, NEW k \in Keys, RevokeGet(p, k)
  PROVE  IInv'
<1> DEFINE y == [NoAdmin EXCEPT !.pc = "revoke", !.key = k, !.row = keyRow[k]]
           x == IF keyRow[k].state = "none" THEN NoAdmin ELSE y
<1>1. /\ UNCHANGED <<phase, cursor, keyRow, acctRow, pool, bucket, req, touch, now, restarts,
                     revoked, clash, overlap, grants>>
      /\ ops' \in 0..MaxOps /\ phase = "open" /\ admin[p].pc = "idle"
      /\ admin' = [admin EXCEPT ![p] = x]
  BY ReadyFacts DEF RevokeGet, rows, history
<1>2. y \in AdminRecords /\ y.pc = "revoke" /\ y.key = k
  <2>1. NoAdmin \in AdminRecords /\ keyRow[k] \in Rows
    BY EmptyRecords DEF IInv, Types
  <2> HIDE DEF NoAdmin
  <2>2. QED
    BY <2>1 DEF AdminRecords
<1> HIDE DEF y
<1>3. /\ x \in AdminRecords /\ x.pc \in {"idle", "revoke"}
      /\ x.pc = "idle" => x.key = 0
      /\ x.pc = "revoke" => x.key \in Keys /\ keyRow[x.key].state # "none"
  BY <1>2, EmptyRecords
<1> HIDE DEF x
<1>4. /\ admin' \in [Admins -> AdminRecords] /\ KeyInv'
      /\ \A q \in Admins : admin'[q] = IF q = p THEN x ELSE admin[q]
  BY <1>1, <1>3, AdminFrame
<1>5. PoolInv'
  BY <1>1, <1>3, <1>4, PoolFrame
<1>6. Types'
  BY <1>1, <1>4 DEF IInv, Types
<1>7. QED
  BY <1>1, <1>4, <1>5, <1>6, BucketFrame DEF IInv

\* An account is provisioned, with a key or without.
LEMMA ProvisionStep ==
  ASSUME IInv, NEW p \in Admins, NEW a \in Accounts, NEW k \in Keys \cup {0}, Provision(p, a, k)
  PROVE  IInv'
<1> DEFINE x == [pc |-> "add", key |-> k, account |-> a, v |-> ops + 1, row |-> LiveRow(a)]
           w == [v |-> ops + 1, at |-> now]
<1>1. /\ UNCHANGED <<phase, cursor, keyRow, pool, bucket, req, touch, now, restarts,
                     revoked, clash, overlap, grants>>
      /\ ops' \in 0..MaxOps /\ ops + 1 \in 1..MaxOps /\ phase = "open" /\ admin[p].pc = "idle"
      /\ admin' = [admin EXCEPT ![p] = x] /\ acctRow' = [acctRow EXCEPT ![a] = w]
      /\ acctRow[a].v = 0 /\ (k # 0 => NewKey(k))
  BY ReadyFacts DEF Provision, history
<1>2. w \in AccountRows /\ w.v = ops + 1 /\ ops + 1 > 0 /\ ops + 1 \in 0..MaxOps
  BY <1>1, GatewayAssumption DEF IInv, Types, AccountRows
<1>3. x \in AdminRecords /\ x.pc = "add" /\ x.key = k /\ x.account = a /\ x.v = ops + 1
  BY <1>2, EmptyRecords DEF AdminRecords
<1> HIDE DEF x, w
<1>4. /\ admin' \in [Admins -> AdminRecords] /\ KeyInv'
      /\ \A q \in Admins : admin'[q] = IF q = p THEN x ELSE admin[q]
  <2>1. k # 0 => keyRow[k].state = "none" /\ \A q \in Admins \ {p} : admin[q].key # k
    BY <1>1 DEF NewKey
  <2>2. QED
    BY <1>1, <1>3, <2>1, AdminFrame
<1>5. /\ acctRow' \in [Accounts -> AccountRows]
      /\ \A b \in Accounts : acctRow'[b] = IF b = a THEN w ELSE acctRow[b]
  BY <1>1, <1>2 DEF IInv, Types
<1>6. Types'
  BY <1>1, <1>4, <1>5 DEF IInv, Types
<1>7. \A q \in Admins : admin[q].pc \in {"add", "remove"} =>
         admin[q].account \in Accounts /\ admin[q].account # a
  BY <1>1 DEF IInv, PoolInv
<1>8. PoolInv'
  <2>1. \A q \in Admins : admin'[q].pc \in {"add", "remove"} =>
           admin'[q].account \in Accounts /\ acctRow'[admin'[q].account].v > 0
    BY <1>2, <1>3, <1>4, <1>5 DEF IInv, PoolInv
  <2>2. ASSUME NEW b \in Accounts \ clash
        PROVE  /\ Replacing(b)' \/ pool'[b] = acctRow'[b].v
               /\ \A q \in Admins : admin'[q].pc \in {"add", "remove"} /\ admin'[q].account = b =>
                    /\ admin'[q].v = acctRow'[b].v
                    /\ \A o \in Admins \ {q} : ~(admin'[o].pc \in {"add", "remove"} /\ admin'[o].account = b)
    <3>1. CASE b = a
      <4>1. Replacing(b)'
        BY <1>3, <1>4, <3>1 DEF Replacing
      <4>2. \A q \in Admins : admin'[q].pc \in {"add", "remove"} /\ admin'[q].account = b => q = p
        BY <1>4, <1>7, <3>1
      <4>3. QED
        BY <1>2, <1>3, <1>4, <1>5, <3>1, <4>1, <4>2
    <3>2. CASE b # a
      <4>1. \A q \in Admins : admin'[q].account = b /\ admin'[q].pc \in {"add", "remove"} <=>
                              admin[q].account = b /\ admin[q].pc \in {"add", "remove"}
        BY <1>1, <1>3, <1>4, <3>2
      <4>2. \A q \in Admins : admin'[q].account = b => admin'[q] = admin[q]
        BY <1>3, <1>4, <3>2
      <4>3. Replacing(b)' <=> Replacing(b)
        BY <4>1 DEF Replacing
      <4>4. acctRow'[b] = acctRow[b] /\ pool'[b] = pool[b]
        BY <1>1, <1>5, <3>2
      <4>5. /\ Replacing(b) \/ pool[b] = acctRow[b].v
            /\ \A q \in Admins : admin[q].pc \in {"add", "remove"} /\ admin[q].account = b =>
                 /\ admin[q].v = acctRow[b].v
                 /\ \A o \in Admins \ {q} : ~(admin[o].pc \in {"add", "remove"} /\ admin[o].account = b)
        BY <1>1 DEF IInv, PoolInv
      <4>6. QED
        BY <4>1, <4>2, <4>3, <4>4, <4>5
    <3>3. QED
      BY <3>1, <3>2
  <2>3. QED
    BY <1>1, <2>1, <2>2 DEF PoolInv
<1>9. QED
  BY <1>1, <1>4, <1>6, <1>8, BucketFrame DEF IInv

(* Another replacement of the account: it is the only one, or the account  *)
(* is one that two requests replace at once.                               *)
LEMMA UpdateCookiesStep ==
  ASSUME IInv, NEW p \in Admins, NEW a \in Accounts, UpdateCookies(p, a)
  PROVE  IInv'
<1> DEFINE x == [NoAdmin EXCEPT !.pc = "remove", !.account = a, !.v = ops + 1]
           w == [acctRow[a] EXCEPT !.v = ops + 1]
<1>1. /\ UNCHANGED <<phase, cursor, keyRow, pool, bucket, req, touch, now, restarts,
                     revoked, overlap, grants>>
      /\ ops' \in 0..MaxOps /\ ops + 1 \in 1..MaxOps /\ phase = "open" /\ admin[p].pc = "idle"
      /\ admin' = [admin EXCEPT ![p] = x] /\ acctRow' = [acctRow EXCEPT ![a].v = ops + 1]
      /\ acctRow[a].v > 0
      /\ clash' = IF Replacing(a) THEN clash \cup {a} ELSE clash \ {a}
  BY ReadyFacts DEF UpdateCookies
<1>2. acctRow \in [Accounts -> AccountRows] /\ ops + 1 > 0 /\ ops + 1 \in 0..MaxOps
  <2>1. acctRow \in [Accounts -> AccountRows] /\ ops \in 0..MaxOps
    BY DEF IInv, Types
  <2>2. ops + 1 \in 1..MaxOps /\ MaxOps \in Nat
    BY <1>1, GatewayAssumption
  <2>3. QED
    BY <2>1, <2>2
<1>3. w \in AccountRows /\ w.v = ops + 1 /\ acctRow' = [acctRow EXCEPT ![a] = w]
  <2>1. acctRow[a] \in AccountRows
    BY <1>2
  <2>2. QED
    BY <1>1, <1>2, <2>1 DEF AccountRows
<1>4. x \in AdminRecords /\ x.pc = "remove" /\ x.key = 0 /\ x.account = a /\ x.v = ops + 1
  <2>1. NoAdmin \in AdminRecords /\ NoAdmin.key = 0
    BY EmptyRecords
  <2> HIDE DEF NoAdmin
  <2>2. QED
    BY <1>2, <2>1 DEF AdminRecords
<1> HIDE DEF x, w
<1>5. /\ admin' \in [Admins -> AdminRecords] /\ KeyInv'
      /\ \A q \in Admins : admin'[q] = IF q = p THEN x ELSE admin[q]
  BY <1>1, <1>4, AdminFrame
<1>6. /\ acctRow' \in [Accounts -> AccountRows]
      /\ \A b \in Accounts : acctRow'[b] = IF b = a THEN w ELSE acctRow[b]
  BY <1>2, <1>3
<1>7. Types'
  BY <1>1, <1>5, <1>6 DEF IInv, Types
<1>8. PoolInv'
  <2>1. \A q \in Admins : admin'[q].pc \in {"add", "remove"} =>
           admin'[q].account \in Accounts /\ acctRow'[admin'[q].account].v > 0
    BY <1>2, <1>3, <1>4, <1>5, <1>6 DEF IInv, PoolInv
  <2>2. ASSUME NEW b \in Accounts \ clash'
        PROVE  /\ Replacing(b)' \/ pool'[b] = acctRow'[b].v
               /\ \A q \in Admins : admin'[q].pc \in {"add", "remove"} /\ admin'[q].account = b =>
                    /\ admin'[q].v = acctRow'[b].v
                    /\ \A o \in Admins \ {q} : ~(admin'[o].pc \in {"add", "remove"} /\ admin'[o].account = b)
    <3>1. CASE b = a
      <4>1. Replacing(b)'
        BY <1>4, <1>5, <3>1 DEF Replacing
      <4>2. \A q \in Admins : ~(admin[q].pc \in {"add", "remove"} /\ admin[q].account = a)
        BY <1>1, <2>2, <3>1 DEF Replacing
      <4>3. \A q \in Admins : admin'[q].pc \in {"add", "remove"} /\ admin'[q].account = b => q = p
        BY <1>5, <3>1, <4>2
      <4>4. QED
        BY <1>3, <1>4, <1>5, <1>6, <3>1, <4>1, <4>3
    <3>2. CASE b # a
      <4>1. \A q \in Admins : admin'[q].account = b /\ admin'[q].pc \in {"add", "remove"} <=>
                              admin[q].account = b /\ admin[q].pc \in {"add", "remove"}
        BY <1>1, <1>4, <1>5, <3>2
      <4>2. \A q \in Admins : admin'[q].account = b => admin'[q] = admin[q]
        BY <1>4, <1>5, <3>2
      <4>3. Replacing(b)' <=> Replacing(b)
        BY <4>1 DEF Replacing
      <4>4. acctRow'[b] = acctRow[b] /\ pool'[b] = pool[b] /\ b \in Accounts \ clash
        BY <1>1, <1>6, <3>2
      <4>5. /\ Replacing(b) \/ pool[b] = acctRow[b].v
            /\ \A q \in Admins : admin[q].pc \in {"add", "remove"} /\ admin[q].account = b =>
                 /\ admin[q].v = acctRow[b].v
                 /\ \A o \in Admins \ {q} : ~(admin[o].pc \in {"add", "remove"} /\ admin[o].account = b)
        BY <1>1, <4>4 DEF IInv, PoolInv
      <4>6. QED
        BY <4>1, <4>2, <4>3, <4>4, <4>5
    <3>3. QED
      BY <3>1, <3>2
  <2>3. QED
    BY <1>1, <2>1, <2>2 DEF PoolInv
<1>9. QED
  BY <1>1, <1>5, <1>7, <1>8, BucketFrame DEF IInv

\* The pool removes the old client of an account.
LEMMA RemoveClientStep ==
  ASSUME IInv, NEW p \in Admins, RemoveClient(p)
  PROVE  IInv'
<1> DEFINE a == admin[p].account
           x == [admin[p] EXCEPT !.pc = "add"]
<1>1. /\ UNCHANGED <<phase, cursor, keyRow, acctRow, bucket, req, touch, now, ops, restarts,
                     revoked, clash, overlap, grants>>
      /\ admin[p].pc = "remove" /\ phase = "open"
      /\ pool' = [pool EXCEPT ![a] = 0] /\ admin' = [admin EXCEPT ![p].pc = "add"]
  BY AdminType DEF RemoveClient, rows, bounds, history
<1>2. /\ x \in AdminRecords /\ x.pc = "add" /\ x.key = admin[p].key /\ x.account = a /\ x.v = admin[p].v
      /\ admin' = [admin EXCEPT ![p] = x]
  <2>1. admin \in [Admins -> AdminRecords] /\ admin[p] \in AdminRecords
    BY DEF IInv, Types
  <2>2. QED
    BY <1>1, <2>1 DEF AdminRecords
<1>3. admin[p].key = 0
  BY <1>1 DEF IInv, KeyInv
<1> HIDE DEF x
<1>4. /\ admin' \in [Admins -> AdminRecords] /\ KeyInv'
      /\ \A q \in Admins : admin'[q] = IF q = p THEN x ELSE admin[q]
  BY <1>1, <1>2, <1>3, AdminFrame
<1>5. /\ pool' \in [Accounts -> 0..MaxOps]
      /\ \A b \in Accounts : b # a => pool'[b] = pool[b]
  <2>1. a \in Accounts /\ 0 \in 0..MaxOps /\ pool \in [Accounts -> 0..MaxOps]
    <3>1. a \in Accounts
      BY <1>1 DEF IInv, PoolInv
    <3>2. 0 \in 0..MaxOps
      BY GatewayAssumption
    <3>3. pool \in [Accounts -> 0..MaxOps]
      BY DEF IInv, Types
    <3>4. QED
      BY <3>1, <3>2, <3>3
  <2> HIDE DEF a
  <2>2. QED
    BY <1>1, <2>1
<1>6. Types'
  BY <1>1, <1>4, <1>5 DEF IInv, Types
<1>7. \A q \in Admins : /\ admin'[q].account = admin[q].account /\ admin'[q].v = admin[q].v
                        /\ admin'[q].pc \in {"add", "remove"} <=> admin[q].pc \in {"add", "remove"}
  BY <1>1, <1>2, <1>4
<1>8. PoolInv'
  <2>1. \A b \in Accounts : Replacing(b)' <=> Replacing(b)
    BY <1>7 DEF Replacing
  <2>2. Replacing(a)
    BY <1>1 DEF Replacing
  <2>3. \A b \in Accounts \ clash : Replacing(b)' \/ pool'[b] = acctRow'[b].v
    BY <1>1, <1>5, <2>1, <2>2 DEF IInv, PoolInv
  <2>4. \A q \in Admins : admin'[q].pc \in {"add", "remove"} =>
           admin'[q].account \in Accounts /\ acctRow'[admin'[q].account].v > 0
    BY <1>1, <1>7 DEF IInv, PoolInv
  <2>5. \A b \in Accounts \ clash :
           \A q \in Admins : admin'[q].pc \in {"add", "remove"} /\ admin'[q].account = b =>
             /\ admin'[q].v = acctRow'[b].v
             /\ \A o \in Admins \ {q} : ~(admin'[o].pc \in {"add", "remove"} /\ admin'[o].account = b)
    BY <1>1, <1>7 DEF IInv, PoolInv
  <2>6. QED
    BY <1>1, <2>3, <2>4, <2>5 DEF PoolInv
<1>9. QED
  BY <1>1, <1>4, <1>6, <1>8, BucketFrame DEF IInv

\* The pool adds the new client of an account.
LEMMA AddClientStep ==
  ASSUME IInv, NEW p \in Admins, AddClient(p)
  PROVE  IInv'
<1> DEFINE a == admin[p].account
           y == [admin[p] EXCEPT !.pc = "create", !.v = 0]
           x == IF admin[p].key = 0 THEN NoAdmin ELSE y
<1>1. /\ UNCHANGED <<phase, cursor, keyRow, acctRow, bucket, req, touch, now, ops, restarts,
                     revoked, clash, overlap, grants>>
      /\ admin[p].pc = "add" /\ phase = "open"
      /\ pool' = [pool EXCEPT ![a] = admin[p].v] /\ admin' = [admin EXCEPT ![p] = x]
  BY AdminType DEF AddClient, rows, bounds, history
<1>2. y \in AdminRecords /\ y.pc = "create" /\ y.key = admin[p].key
  <2>1. admin[p] \in AdminRecords /\ 0 \in 0..MaxOps
    BY GatewayAssumption DEF IInv, Types
  <2>2. QED
    BY <2>1 DEF AdminRecords
<1> HIDE DEF y
<1>3. /\ x \in AdminRecords /\ x.pc \in {"idle", "create"}
      /\ x.pc = "idle" => x.key = 0
      /\ x.pc = "create" => x.key = admin[p].key /\ admin[p].key # 0
  BY <1>2, EmptyRecords
<1> HIDE DEF x
<1>4. /\ admin' \in [Admins -> AdminRecords] /\ KeyInv'
      /\ \A q \in Admins : admin'[q] = IF q = p THEN x ELSE admin[q]
  <2>1. x.pc = "create" =>
           keyRow[x.key].state = "none" /\ \A q \in Admins \ {p} : admin[q].key # x.key
    BY <1>1, <1>3 DEF IInv, KeyInv, Making
  <2>2. QED
    BY <1>1, <1>3, <2>1, AdminFrame
<1>5. /\ a \in Accounts /\ acctRow[a].v > 0 /\ admin[p].v \in 0..MaxOps
  BY <1>1, AdminType DEF IInv, PoolInv
<1>6. /\ pool' \in [Accounts -> 0..MaxOps]
      /\ \A b \in Accounts : pool'[b] = IF b = a THEN admin[p].v ELSE pool[b]
  BY <1>1, <1>5 DEF IInv, Types
<1>7. Types'
  BY <1>1, <1>4, <1>6 DEF IInv, Types
<1>8. \A q \in Admins : admin'[q].pc \in {"add", "remove"} => q # p /\ admin'[q] = admin[q]
  BY <1>3, <1>4
<1>9. PoolInv'
  <2>1. \A q \in Admins : admin'[q].pc \in {"add", "remove"} =>
           admin'[q].account \in Accounts /\ acctRow'[admin'[q].account].v > 0
    BY <1>1, <1>8 DEF IInv, PoolInv
  <2>2. ASSUME NEW b \in Accounts \ clash
        PROVE  Replacing(b)' \/ pool'[b] = acctRow'[b].v
    <3>1. CASE b = a
      <4>1. admin[p].v = acctRow[a].v
        BY <1>1, <2>2, <3>1 DEF IInv, PoolInv
      <4>2. QED
        BY <1>1, <1>6, <3>1, <4>1
    <3>2. CASE b # a
      <4>1. Replacing(b) => Replacing(b)'
        BY <1>4, <3>2 DEF Replacing
      <4>2. QED
        BY <1>1, <1>6, <3>2, <4>1 DEF IInv, PoolInv
    <3>3. QED
      BY <3>1, <3>2
  <2>3. \A b \in Accounts \ clash :
           \A q \in Admins : admin'[q].pc \in {"add", "remove"} /\ admin'[q].account = b =>
             /\ admin'[q].v = acctRow'[b].v
             /\ \A o \in Admins \ {q} : ~(admin'[o].pc \in {"add", "remove"} /\ admin'[o].account = b)
    BY <1>1, <1>8 DEF IInv, PoolInv
  <2>4. QED
    BY <1>1, <2>1, <2>2, <2>3 DEF PoolInv
<1>10. QED
  BY <1>1, <1>4, <1>7, <1>9, BucketFrame DEF IInv

(* The new row is the row of a key that nobody has seen. *)
LEMMA CreateKeyStep ==
  ASSUME IInv, NEW p \in Admins, CreateKey(p)
  PROVE  IInv'
<1> DEFINE k == admin[p].key
           w == admin[p].row
<1>1. /\ UNCHANGED <<phase, cursor, acctRow, pool, bucket, req, touch, now, ops, restarts,
                     revoked, clash, overlap, grants>>
      /\ admin[p].pc = "create" /\ phase = "open"
      /\ keyRow' = [keyRow EXCEPT ![k] = w] /\ admin' = [admin EXCEPT ![p] = NoAdmin]
  BY AdminType DEF CreateKey, bounds, history
<1>2. /\ k \in Keys /\ w \in Rows /\ keyRow[k].state = "none"
      /\ \A q \in Admins \ {p} : admin[q].key # k
  <2>1. k # 0 /\ Making(p)
    BY <1>1 DEF IInv, KeyInv, Making
  <2>2. keyRow[k].state = "none" /\ \A q \in Admins \ {p} : admin[q].key # k
    BY <2>1 DEF IInv, KeyInv
  <2>3. QED
    BY <2>1, <2>2, AdminType
<1> HIDE DEF w
<1>3. /\ admin' \in [Admins -> AdminRecords]
      /\ \A q \in Admins : admin'[q] = IF q = p THEN NoAdmin ELSE admin[q]
  BY <1>1, EmptyRecords DEF IInv, Types
<1>4. /\ keyRow' \in [Keys -> Rows] /\ revoked \in SUBSET Keys
      /\ \A j \in Keys : keyRow'[j] = IF j = k THEN w ELSE keyRow[j]
  BY <1>1, <1>2 DEF IInv, Types
<1> HIDE DEF k
<1>5. Types'
  BY <1>1, <1>3, <1>4 DEF IInv, Types
<1>6. \A j \in Keys : keyRow[j].state # "none" => keyRow'[j] = keyRow[j]
  BY <1>2, <1>4
<1>7. KeyInv'
  <2>1. \A r \in Requests : req'[r].row.state = "live" =>
           req'[r].key \in Keys /\ keyRow'[req'[r].key].state # "none"
    BY <1>1, <1>6 DEF IInv, KeyInv
  <2>2. \A r \in Requests : touch'[r].pc # "none" =>
           /\ touch'[r].key \in Keys /\ keyRow'[touch'[r].key].state # "none"
           /\ touch'[r].row.state # "none"
    BY <1>1, <1>6 DEF IInv, KeyInv
  <2>3. \A q \in Admins : admin'[q].pc = "create" => admin'[q].key # 0
    BY <1>3, EmptyRecords DEF IInv, KeyInv
  <2>4. ASSUME NEW q \in Admins, Making(q)'
        PROVE  /\ keyRow'[admin'[q].key].state = "none"
               /\ \A o \in Admins \ {q} : admin'[o].key # admin'[q].key
    <3>1. q # p /\ admin'[q] = admin[q] /\ Making(q) /\ admin[q].key # 0
      BY <1>3, <2>4, EmptyRecords DEF Making
    <3>2. admin[q].key \in Keys /\ admin[q].key # k
      BY <1>2, <3>1, AdminType
    <3>3. /\ keyRow[admin[q].key].state = "none"
          /\ \A o \in Admins \ {q} : admin[o].key # admin[q].key
      BY <3>1 DEF IInv, KeyInv
    <3>4. QED
      BY <1>3, <1>4, <3>1, <3>2, <3>3, EmptyRecords
  <2>5. \A q \in Admins : admin'[q].pc = "revoke" =>
           admin'[q].key \in Keys /\ keyRow'[admin'[q].key].state # "none"
    BY <1>3, <1>6, EmptyRecords DEF IInv, KeyInv
  <2>6. \A q \in Admins : admin'[q].pc \in {"idle", "remove"} => admin'[q].key = 0
    BY <1>3, EmptyRecords DEF IInv, KeyInv
  <2>7. \A j \in revoked : keyRow'[j] = keyRow[j]
    BY <1>4, <1>6 DEF IInv, KeyInv
  <2>8. QED
    BY <1>1, <2>1, <2>2, <2>3, <2>4, <2>5, <2>6, <2>7 DEF IInv, KeyInv
<1>8. PoolInv'
  BY <1>1, <1>3, EmptyRecords, PoolFrame
<1>9. QED
  BY <1>1, <1>5, <1>7, <1>8, BucketFrame DEF IInv

(* The row is written revoked, and a touch() still to write is recorded. *)
LEMMA RevokePutStep ==
  ASSUME IInv, NEW p \in Admins, RevokePut(p)
  PROVE  IInv'
<1> DEFINE k == admin[p].key
           w == [admin[p].row EXCEPT !.state = "revoked"]
<1>1. /\ UNCHANGED <<phase, cursor, acctRow, pool, bucket, req, touch, now, ops, restarts, clash, grants>>
      /\ admin[p].pc = "revoke" /\ phase = "open"
      /\ keyRow' = [keyRow EXCEPT ![k] = w] /\ admin' = [admin EXCEPT ![p] = NoAdmin]
      /\ revoked' = revoked \cup {k}
      /\ overlap' = IF \E r \in Requests : touch[r].pc = "put" /\ touch[r].key = k
                    THEN overlap \cup {k} ELSE overlap
  BY AdminType DEF RevokePut, bounds
<1>2. k \in Keys /\ w \in Rows /\ w.state = "revoked" /\ keyRow[k].state # "none"
  <2>1. admin[p].row \in Rows
    BY AdminType
  <2>2. w \in Rows /\ w.state = "revoked"
    BY <2>1 DEF Rows
  <2>3. QED
    BY <1>1, <2>2 DEF IInv, KeyInv
<1> HIDE DEF w, k
<1>3. /\ admin' \in [Admins -> AdminRecords]
      /\ \A q \in Admins : admin'[q] = IF q = p THEN NoAdmin ELSE admin[q]
  BY <1>1, EmptyRecords DEF IInv, Types
<1>4. /\ keyRow' \in [Keys -> Rows] /\ revoked \in SUBSET Keys /\ overlap \in SUBSET Keys
      /\ \A j \in Keys : keyRow'[j] = IF j = k THEN w ELSE keyRow[j]
  BY <1>1, <1>2 DEF IInv, Types
<1>5. Types'
  BY <1>1, <1>2, <1>3, <1>4 DEF IInv, Types
<1>6. \A j \in Keys : keyRow'[j].state = "none" <=> keyRow[j].state = "none"
  BY <1>2, <1>4
<1>7. KeyInv'
  <2>1. \A r \in Requests : req'[r].row.state = "live" =>
           req'[r].key \in Keys /\ keyRow'[req'[r].key].state # "none"
    BY <1>1, <1>6 DEF IInv, KeyInv
  <2>2. \A r \in Requests : touch'[r].pc # "none" =>
           /\ touch'[r].key \in Keys /\ keyRow'[touch'[r].key].state # "none"
           /\ touch'[r].row.state # "none"
    BY <1>1, <1>6 DEF IInv, KeyInv
  <2>3. \A q \in Admins : admin'[q].pc = "create" => admin'[q].key # 0
    BY <1>3, EmptyRecords DEF IInv, KeyInv
  <2>4. ASSUME NEW q \in Admins, Making(q)'
        PROVE  /\ keyRow'[admin'[q].key].state = "none"
               /\ \A o \in Admins \ {q} : admin'[o].key # admin'[q].key
    <3>1. q # p /\ admin'[q] = admin[q] /\ Making(q) /\ admin[q].key # 0
      BY <1>3, <2>4, EmptyRecords DEF Making
    <3>2. admin[q].key \in Keys
      BY <3>1, AdminType
    <3>3. /\ keyRow[admin[q].key].state = "none"
          /\ \A o \in Admins \ {q} : admin[o].key # admin[q].key
      BY <3>1 DEF IInv, KeyInv
    <3>4. QED
      BY <1>3, <1>6, <3>1, <3>2, <3>3, EmptyRecords
  <2>5. \A q \in Admins : admin'[q].pc = "revoke" =>
           admin'[q].key \in Keys /\ keyRow'[admin'[q].key].state # "none"
    BY <1>3, <1>6, EmptyRecords DEF IInv, KeyInv
  <2>6. \A q \in Admins : admin'[q].pc \in {"idle", "remove"} => admin'[q].key = 0
    BY <1>3, EmptyRecords DEF IInv, KeyInv
  <2>7. \A j \in revoked' : keyRow'[j].state # "none"
    BY <1>1, <1>2, <1>4, <1>6 DEF IInv, KeyInv
  <2>8. ASSUME NEW j \in revoked' \ overlap'
        PROVE  /\ keyRow'[j].state = "revoked"
               /\ \A r \in Requests : touch'[r].pc = "put" /\ touch'[r].key = j =>
                     touch'[r].row.state = "revoked"
    <3>1. CASE j = k
      BY <1>1, <1>2, <1>4, <2>8, <3>1
    <3>2. CASE j # k
      <4>1. j \in revoked \ overlap /\ j \in Keys
        BY <1>1, <1>4, <2>8, <3>2
      <4>2. QED
        BY <1>1, <1>4, <3>2, <4>1 DEF IInv, KeyInv
    <3>3. QED
      BY <3>1, <3>2
  <2>9. QED
    BY <2>1, <2>2, <2>3, <2>4, <2>5, <2>6, <2>7, <2>8 DEF KeyInv
<1>8. PoolInv'
  BY <1>1, <1>3, EmptyRecords, PoolFrame
<1>9. QED
  BY <1>1, <1>5, <1>7, <1>8, BucketFrame DEF IInv

---------------------------------------------------------------------------
\* Every step keeps the invariant.
LEMMA StepIInv == IInv /\ [Next]_vars => IInv'
<1> SUFFICES ASSUME IInv, [Next]_vars PROVE IInv'
  OBVIOUS
<1>1. CASE Rehydrate \/ Restart \/ Tick
  BY <1>1, RehydrateStep, RestartStep, TickStep
<1>2. ASSUME NEW r \in Requests, Serve(r) \/ Touching(r) PROVE IInv'
  BY <1>2, LookupStep, DecideStep, HandleStep, UpstreamStep, TouchGetStep, TouchPutStep
     DEF Serve, Touching
<1>3. ASSUME NEW r \in Requests, NEW k \in Keys \cup {0}, Arrive(r, k) PROVE IInv'
  BY <1>3, ArriveStep
<1>4. ASSUME NEW p \in Admins, Asked(p) PROVE IInv'
  BY <1>4, RefuseAdminStep, UpdateCookiesStep, ProvisionStep, GenerateStep, RevokeGetStep DEF Asked
<1>5. ASSUME NEW p \in Admins, Administer(p) PROVE IInv'
  BY <1>5, RemoveClientStep, AddClientStep, CreateKeyStep, RevokePutStep DEF Administer
<1>6. CASE UNCHANGED vars
  <2>1. UNCHANGED <<phase, cursor, keyRow, acctRow, pool, bucket, req, touch, admin, now, ops,
                    restarts, revoked, clash, overlap, grants>>
    BY <1>6 DEF vars, rows, bounds, history
  <2>2. Types'
    BY <2>1 DEF IInv, Types
  <2>3. QED
    BY <2>1, <2>2, BucketFrame, KeyFrame, PoolFrame DEF IInv
<1>7. QED
  BY <1>1, <1>2, <1>3, <1>4, <1>5, <1>6 DEF Next

\* The invariant holds in every reachable state.
LEMMA InvariantIInv == Spec => []IInv
BY InitIInv, StepIInv, PTL DEF Spec

(* Type correctness: rows have a known state, versions stay within the     *)
(* operations done, and TokenBucket.allow never leaves a bucket with more  *)
(* than its capacity, less than nothing or a time in the future.           *)
THEOREM TypeCorrect == Spec => []TypeOK
<1>1. IInv => TypeOK
  <2> SUFFICES ASSUME IInv PROVE TypeOK
    OBVIOUS
  <2>1. \A k \in Keys : /\ keyRow[k].state \in {"none", "live", "revoked"}
                        /\ bucket[k].tokens \in 0..Capacity /\ bucket[k].last \in 0..now
    <3> SUFFICES ASSUME NEW k \in Keys
                 PROVE  /\ keyRow[k].state \in {"none", "live", "revoked"}
                        /\ bucket[k].tokens \in 0..Capacity /\ bucket[k].last \in 0..now
      OBVIOUS
    <3>1. bucket[k].tokens \in 0..Capacity /\ bucket[k].last \in Nat /\ now \in Nat
      BY TokensType
    <3>2. bucket[k].last <= now
      BY DEF IInv, BucketInv
    <3>3. keyRow[k].state \in {"none", "live", "revoked"}
      BY DEF IInv, Types, Rows
    <3>4. QED
      BY <3>1, <3>2, <3>3
  <2>2. \A a \in Accounts : acctRow[a].v \in 0..MaxOps /\ pool[a] \in 0..MaxOps
    BY DEF IInv, Types, AccountRows
  <2>3. QED
    BY <2>1, <2>2 DEF TypeOK, IInv, Types
<1>2. QED
  BY <1>1, InvariantIInv, PTL

(* ApiKeyService.revoke and touch: a revoked key stays revoked through     *)
(* every later touch(), creation and restart, unless a touch() had read    *)
(* the row before the revocation and writes it back after.                 *)
THEOREM RevokeIsFinalHolds == Spec => []RevokeIsFinal
<1>1. IInv => RevokeIsFinal
  BY DEF IInv, KeyInv, RevokeIsFinal
<1>2. QED
  BY <1>1, InvariantIInv, PTL

(* TokenBucket.allow: between any two moments a key is granted at most     *)
(* the capacity and what the bucket regains between them.                  *)
THEOREM RateBoundHolds == Spec => []RateBound
<1>1. IInv => RateBound
  BY DEF IInv
<1>2. QED
  BY <1>1, InvariantIInv, PTL

(* AccountService.provision, update_cookies and rehydrate_all: once the    *)
(* server listens, an account that nobody is working on has its client in  *)
(* the pool with the cookies of its row, whatever the pages of the start   *)
(* were; only two updates of one account at once may break this.           *)
THEOREM PoolFollowsRowsHolds == Spec => []PoolFollowsRows
<1>1. IInv => PoolFollowsRows
  BY DEF IInv, PoolInv, PoolFollowsRows
<1>2. QED
  BY <1>1, InvariantIInv, PTL

=============================================================================
