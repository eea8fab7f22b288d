------------------------- MODULE FindingViewsProofs -------------------------
(***************************************************************************)
(* What a reader of the findings is shown.  FindingPages, for any finite   *)
(* set of names, pages and chunks of any size: the pages of one walk hold  *)
(* nothing twice and miss nothing that was there all the time, however the *)
(* Results change meanwhile.  Portal, for any number of views, overlapping *)
(* runs and moves: the screen of the browser never goes back.              *)
(***************************************************************************)
EXTENDS FindingPages, Portal, FiniteSetTheorems, SequenceTheorems, TLAPS

(***************************************************************************)
(* Pages.                                                                  *)
(***************************************************************************)

(* A Result's name is its own.                                              *)
Unique(rs) == \A a, b \in rs : a.id = b.id => a = b

-----------------------------------------------------------------------------
(* The order of the findings.                                               *)

LEMMA FindingType ==
    ASSUME NEW x \in Findings
    PROVE  x.id \in Ids /\ x.id \in Nat /\ x.created \in Nat /\ x.created >= 1
<1>1. x.id \in Ids /\ x.created \in 1 .. MaxClock
  BY DEF Findings
<1>2. Ids \subseteq Nat
  BY PagesAssumption
<1>3. MaxClock \in Nat
  BY PagesAssumption
<1>4. x.created \in Nat /\ x.created >= 1
  BY <1>1, <1>3
<1>5. x.id \in Nat
  BY <1>1, <1>2
<1>6. QED
  BY <1>1, <1>4, <1>5

LEMMA BeforeIsOrder ==
    ASSUME NEW a \in Findings, NEW b \in Findings, NEW c \in Findings
    PROVE  /\ ~Before(a, a)
           /\ Before(a, b) /\ Before(b, c) => Before(a, c)
           /\ a.id # b.id => Before(a, b) \/ Before(b, a)
<1>1. \A x \in {a, b, c} : x.id \in Nat /\ x.created \in Nat
  BY FindingType
<1>2. QED
  BY <1>1 DEF Before

LEMMA UniqueFinite ==
    ASSUME NEW rs, rs \subseteq Findings, Unique(rs)
    PROVE  IsFiniteSet(rs)
<1> DEFINE name == [item \in rs |-> item.id]
<1>1. name \in [rs -> Ids] /\ \A a, b \in rs : name[a] = name[b] => a = b
  BY DEF Findings, Unique
<1> HIDE DEF name
<1>2. name \in Injection(rs, Ids)
  BY <1>1 DEF Injection, IsInjective
<1>3. QED
  BY <1>2, FS_Injection, PagesAssumption

(* There is one order of the findings of a listing, found by the number of
   those that come before each.                                             *)
LEMMA OrderExists ==
    ASSUME NEW rs, rs \subseteq Findings, Unique(rs)
    PROVE  \E s \in [1 .. Cardinality(rs) -> rs] :
              \A i, j \in DOMAIN s : i < j => Before(s[i], s[j])
<1> DEFINE n == Cardinality(rs)
           Earlier(x) == {y \in rs : Before(y, x)}
           rank == [x \in rs |-> Cardinality(Earlier(x)) + 1]
<1>1. IsFiniteSet(rs) /\ n \in Nat
  BY UniqueFinite, FS_CardinalityType
<1>2. ASSUME NEW x \in rs
      PROVE  /\ IsFiniteSet(Earlier(x)) /\ Cardinality(Earlier(x)) \in Nat
             /\ Cardinality(Earlier(x)) < n
  <2>1. x \notin Earlier(x) /\ Earlier(x) \in SUBSET rs
    BY BeforeIsOrder
  <2>2. /\ IsFiniteSet(Earlier(x)) /\ Cardinality(Earlier(x)) <= n
        /\ Cardinality(rs) = Cardinality(Earlier(x)) => rs = Earlier(x)
    BY <1>1, <2>1, FS_Subset
  <2>3. Cardinality(Earlier(x)) \in Nat
    BY <2>2, FS_CardinalityType
  <2>4. QED
    BY <1>1, <2>1, <2>2, <2>3
<1>3. ASSUME NEW a \in rs, NEW b \in rs, Before(a, b)
      PROVE  Cardinality(Earlier(a)) < Cardinality(Earlier(b))
  <2>1. Earlier(a) \in SUBSET Earlier(b)
    BY <1>3, BeforeIsOrder
  <2>2. a \in Earlier(b) /\ a \notin Earlier(a)
    BY <1>3, BeforeIsOrder
  <2>3. /\ Cardinality(Earlier(a)) <= Cardinality(Earlier(b))
        /\ Cardinality(Earlier(b)) = Cardinality(Earlier(a)) => Earlier(b) = Earlier(a)
    BY <1>2, <2>1, FS_Subset
  <2>4. QED
    BY <1>2, <2>2, <2>3
<1>4. ASSUME NEW a \in rs, NEW b \in rs, a # b PROVE Before(a, b) \/ Before(b, a)
  BY <1>4, BeforeIsOrder DEF Unique
<1>5. rank \in [rs -> 1 .. n]
  BY <1>1, <1>2
<1>6. ASSUME NEW a \in rs, NEW b \in rs, Before(a, b) PROVE rank[a] < rank[b]
  <2>1. Cardinality(Earlier(a)) < Cardinality(Earlier(b))
    BY <1>3, <1>6
  <2>2. Cardinality(Earlier(a)) \in Nat /\ Cardinality(Earlier(b)) \in Nat
    BY <1>2
  <2>3. rank[a] = Cardinality(Earlier(a)) + 1 /\ rank[b] = Cardinality(Earlier(b)) + 1
    OBVIOUS
  <2> HIDE DEF Earlier, rank
  <2>4. QED
    BY <2>1, <2>2, <2>3
<1> HIDE DEF rank
<1>7. \A a, b \in rs : rank[a] = rank[b] => a = b
  BY <1>1, <1>4, <1>5, <1>6
<1>8. \A i \in 1 .. n : \E x \in rs : rank[x] = i
  <2>1. rank \in Injection(rs, 1 .. n)
    BY <1>5, <1>7 DEF Injection, IsInjective
  <2>2. IsFiniteSet(1 .. n) /\ Cardinality(1 .. n) = n
    BY <1>1, FS_Interval
  <2>3. rank \in Surjection(rs, 1 .. n)
    BY <2>1, <2>2, FS_Injection
  <2>4. QED
    BY <2>3 DEF Surjection
<1> DEFINE s == [i \in 1 .. n |-> CHOOSE x \in rs : rank[x] = i]
<1>9. s \in [1 .. n -> rs] /\ \A i \in 1 .. n : rank[s[i]] = i
  BY <1>8
<1> HIDE DEF s
<1>10. \A i, j \in DOMAIN s : i < j => Before(s[i], s[j])
  BY <1>1, <1>4, <1>6, <1>9
<1>11. QED
  BY <1>9, <1>10

(* slices in order hold every finding of the listing.                       *)
LEMMA Ordered ==
    ASSUME NEW rs, rs \subseteq Findings, Unique(rs)
    PROVE  /\ InOrder(rs) \in Seq(rs)
           /\ \A i, j \in 1 .. Len(InOrder(rs)) :
                 i < j => Before(InOrder(rs)[i], InOrder(rs)[j])
           /\ \A x \in rs : \E i \in 1 .. Len(InOrder(rs)) : InOrder(rs)[i] = x
<1> DEFINE n == Cardinality(rs)
           s == InOrder(rs)
<1>1. IsFiniteSet(rs) /\ n \in Nat
  BY UniqueFinite, FS_CardinalityType
<1>2. s \in [1 .. n -> rs] /\ \A i, j \in DOMAIN s : i < j => Before(s[i], s[j])
  BY OrderExists DEF InOrder
<1> HIDE DEF s
<1>3. s \in Seq(rs) /\ Len(s) = n
  BY <1>1, <1>2
<1>4. ASSUME NEW i \in 1 .. n, NEW j \in 1 .. n, s[i] = s[j] PROVE i = j
  BY <1>1, <1>2, <1>4, BeforeIsOrder
<1>5. s \in Surjection(1 .. n, rs)
  <2>1. s \in Injection(1 .. n, rs)
    BY <1>2, <1>4 DEF Injection, IsInjective
  <2>2. IsFiniteSet(1 .. n) /\ Cardinality(1 .. n) = n
    BY <1>1, FS_Interval
  <2>3. QED
    BY <1>1, <2>1, <2>2, FS_Injection
<1>6. QED
  BY <1>2, <1>3, <1>5 DEF Surjection, s

-----------------------------------------------------------------------------
(* One page.                                                                *)

LEMMA Least ==
    ASSUME NEW T, T \subseteq Nat, T # {}
    PROVE  \E i \in T : \A j \in T : i <= j
<1> DEFINE R == OpToRel(<, Nat)
<1>1. IsWellFoundedOn(R, Nat)
  BY NatLessThanWellFounded
<1>2. \A a, b \in Nat : a < b => <<a, b>> \in R
  BY DEF OpToRel
<1> HIDE DEF R
<1>3. PICK i \in T : \A j \in T : <<j, i>> \notin R
  BY <1>1, WFMin
<1>4. \A j \in T : ~(j < i)
  BY <1>2, <1>3
<1>5. QED
  BY <1>3, <1>4

LEMMA Starts ==
    ASSUME NEW items \in Seq(Findings), NEW c
    PROVE  /\ Start(items, c) \in 1 .. Len(items) + 1
           /\ Start(items, c) <= Len(items) => After(items[Start(items, c)], c)
           /\ \A k \in 1 .. Len(items) : After(items[k], c) => Start(items, c) <= k
<1> DEFINE later == {i \in DOMAIN items : After(items[i], c)}
<1>1. DOMAIN items = 1 .. Len(items) /\ Len(items) \in Nat /\ later \subseteq Nat
  OBVIOUS
<1>2. CASE later = {}
  <2>1. Start(items, c) = Len(items) + 1
    BY <1>2 DEF Start
  <2>2. QED
    BY <1>1, <1>2, <2>1
<1>3. CASE later # {}
  <2>1. Start(items, c) = CHOOSE i \in later : \A j \in later : i <= j
    BY <1>3 DEF Start
  <2>2. \E i \in later : \A j \in later : i <= j
    BY <1>1, <1>3, Least
  <2>3. Start(items, c) \in later /\ \A j \in later : Start(items, c) <= j
    BY <2>1, <2>2
  <2>4. QED
    BY <1>1, <2>3
<1>4. QED
  BY <1>2, <1>3

Place(c) == c.created \in Nat /\ c.id \in Nat

LEMMA AfterMoves ==
    ASSUME NEW a \in Findings, NEW b \in Findings, NEW c, Place(c),
           After(a, c), Before(a, b)
    PROVE  After(b, c)
<1>1. /\ a.id \in Nat /\ a.created \in Nat /\ b.id \in Nat /\ b.created \in Nat
      /\ c.id \in Nat /\ c.created \in Nat
  BY FindingType DEF Place
<1>2. QED
  BY <1>1 DEF After, Before, Position

(* A page starts right after the cursor, is in order, and skips nothing.    *)
LEMMA PageServed ==
    ASSUME NEW listed, listed \subseteq Findings, Unique(listed), Place(cursor), Serve(listed)
    PROVE  \E page \in Seq(Matching(listed)) :
              /\ served' = served \o page
              /\ \A i, j \in 1 .. Len(page) : i < j => Before(page[i], page[j])
              /\ \A i \in 1 .. Len(page) : After(page[i], cursor)
              /\ \/ /\ client' = "paging" /\ page # <<>>
                    /\ cursor' = Position(page[Len(page)])
                    /\ \A x \in Matching(listed) : After(x, cursor) =>
                          \/ \E i \in 1 .. Len(page) : page[i] = x
                          \/ Before(page[Len(page)], x)
                 \/ /\ client' = "done" /\ cursor' = NoCursor
                    /\ \A x \in Matching(listed) : After(x, cursor) =>
                          \E i \in 1 .. Len(page) : page[i] = x
<1> DEFINE all == Matching(listed)
           items == InOrder(all)
           start == Start(items, cursor)
           end == IF start + Limit - 1 > Len(items) THEN Len(items) ELSE start + Limit - 1
           page == SubSeq(items, start, end)
           more == page # <<>> /\ end < Len(items)
<1>1. all \subseteq Findings /\ Unique(all)
  BY DEF Matching, Unique
<1>2. /\ served' = served \o page
      /\ cursor' = IF more THEN Position(Last(page)) ELSE NoCursor
      /\ client' = IF more THEN "paging" ELSE "done"
  BY DEF Serve, EncodeCursor
<1> HIDE DEF all
<1>3. /\ items \in Seq(all)
      /\ \A i, j \in 1 .. Len(items) : i < j => Before(items[i], items[j])
      /\ \A x \in all : \E i \in 1 .. Len(items) : items[i] = x
  BY <1>1, Ordered
<1> HIDE DEF items
<1>4. items \in Seq(Findings) /\ Len(items) \in Nat
  BY <1>1, <1>3
<1>5. /\ start \in 1 .. Len(items) + 1
      /\ start <= Len(items) => After(items[start], cursor)
      /\ \A k \in 1 .. Len(items) : After(items[k], cursor) => start <= k
  BY <1>4, Starts
<1> HIDE DEF start
<1>6. /\ start \in Nat \ {0} /\ end \in Nat /\ end <= Len(items)
      /\ start <= Len(items) => start <= end
      /\ start <= Len(items) + 1
  BY <1>4, <1>5, PagesAssumption
<1> HIDE DEF end
<1>7. /\ page \in Seq(all)
      /\ Len(page) = IF start <= end THEN end - start + 1 ELSE 0
      /\ \A i \in 1 .. end - start + 1 : page[i] = items[start + i - 1]
  <2>1. \A i \in start .. end : items[i] \in all
    BY <1>3, <1>6
  <2>2. start \in Int /\ end \in Int
    BY <1>6
  <2>3. QED
    BY <2>1, <2>2, SubSeqProperties
<1> HIDE DEF page
<1>8. \A i \in 1 .. Len(page) :
         /\ start + i - 1 \in 1 .. Len(items) /\ page[i] = items[start + i - 1]
         /\ start <= end
  BY <1>6, <1>7
<1>9. ASSUME NEW i \in 1 .. Len(page), NEW j \in 1 .. Len(page), i < j
      PROVE  Before(page[i], page[j])
  <2>1. start + i - 1 \in 1 .. Len(items) /\ start + j - 1 \in 1 .. Len(items)
    BY <1>8
  <2>2. start + i - 1 < start + j - 1
    BY <1>6, <1>9
  <2>3. Before(items[start + i - 1], items[start + j - 1])
    BY <1>3, <2>1, <2>2
  <2>4. QED
    BY <1>8, <2>3
<1>10. ASSUME NEW i \in 1 .. Len(page) PROVE After(page[i], cursor)
  <2>1. start <= Len(items) /\ page[i] = items[start + i - 1] /\ start + i - 1 \in 1 .. Len(items)
    BY <1>6, <1>8, <1>10
  <2>2. After(items[start], cursor) /\ items[start] \in Findings /\ page[i] \in Findings
    BY <1>4, <1>5, <1>6, <2>1
  <2>3. CASE i = 1
    BY <1>6, <2>1, <2>2, <2>3
  <2>4. CASE i # 1
    <3>1. start < start + i - 1 /\ start \in 1 .. Len(items)
      BY <1>6, <2>1, <2>4
    <3>2. Before(items[start], page[i])
      BY <1>3, <2>1, <3>1
    <3>3. QED
      BY <2>2, <3>2, AfterMoves
  <2>5. QED
    BY <2>3, <2>4
<1>11. ASSUME NEW x \in all, After(x, cursor)
       PROVE  \/ \E i \in 1 .. Len(page) : page[i] = x
              \/ more /\ Before(page[Len(page)], x)
  <2>1. PICK k \in 1 .. Len(items) : items[k] = x
    BY <1>3
  <2>2. start <= k /\ start <= end /\ k \in Nat
    BY <1>5, <1>6, <1>11, <2>1
  <2>3. CASE k <= end
    <3>1. k - start + 1 \in 1 .. Len(page) /\ page[k - start + 1] = items[k]
      BY <1>6, <1>7, <2>2, <2>3
    <3>2. QED
      BY <2>1, <3>1
  <2>4. CASE ~(k <= end)
    <3>1. Len(page) \in 1 .. Len(page) /\ page[Len(page)] = items[end] /\ end \in 1 .. Len(items)
      BY <1>6, <1>7, <2>2
    <3>2. end < k /\ more
      BY <1>4, <1>6, <1>7, <2>1, <2>2, <2>4, <3>1
    <3>3. QED
      BY <1>3, <2>1, <3>1, <3>2
  <2>5. QED
    BY <2>3, <2>4
<1>12. CASE more
  <2>1. client' = "paging" /\ page # <<>> /\ cursor' = Position(page[Len(page)])
    BY <1>2, <1>12 DEF Last
  <2>2. QED
    BY <1>2, <1>7, <1>9, <1>10, <1>11, <2>1 DEF all
<1>13. CASE ~more
  <2>1. client' = "done" /\ cursor' = NoCursor
    BY <1>2, <1>13
  <2>2. QED
    BY <1>2, <1>7, <1>9, <1>10, <1>11, <1>13, <2>1 DEF all
<1>14. QED
  BY <1>12, <1>13

-----------------------------------------------------------------------------
(* The invariant.                                                           *)

Older(a, b) == a.id = b.id => a.created <= b.created

(* What the client or a listing holds of a name is no younger than what the
   cluster holds now, and nothing is from the future.                       *)
Aged ==
    /\ Unique(listing)
    /\ \A item \in results \cup listing : item.created <= clock
    /\ \A i \in DOMAIN served : served[i].created <= clock
    /\ \A i \in DOMAIN served, item \in results \cup listing : Older(served[i], item)
    /\ \A item \in listing, now \in results : Older(item, now)

PositionsOf(rs) == {Position(item) : item \in Matching(rs)}

(* What was there all the time is in every listing, and was served already
   or comes after the cursor.                                               *)
Walked ==
    /\ steady \subseteq PositionsOf(results)
    /\ client = "listing" => steady \subseteq PositionsOf(listing)
    /\ \A c \in steady :
          \/ \E i \in DOMAIN served : Position(served[i]) = c
          \/ client # "done" /\ (cursor = NoCursor \/ Before(cursor, c))

PagesInv == TypeOK /\ Aged /\ NothingTwice /\ Walked

LEMMA PagesInit == Init => PagesInv
<1> SUFFICES ASSUME Init PROVE PagesInv
  OBVIOUS
<1>1. /\ results \subseteq [id : Ids, created : {1}, matches : BOOLEAN]
      /\ \A a, b \in results : a.id = b.id => a = b
      /\ clock = 1 /\ cursor = NoCursor /\ listing = {} /\ read = {} /\ served = <<>>
      /\ steady = PositionsOf(results) /\ client = "paging"
  BY DEF Init, PositionsOf
<1>2. MaxClock \in Nat /\ 1 \in 1 .. MaxClock
  BY PagesAssumption
<1>3. results \subseteq Findings
  BY <1>1, <1>2 DEF Findings
<1>4. steady \subseteq Positions
  BY <1>1, <1>3 DEF PositionsOf, Positions, Matching
<1>5. TypeOK
  BY <1>1, <1>2, <1>3, <1>4 DEF TypeOK
<1>6. \A item \in results : item.created <= clock
  BY <1>1
<1>7. Aged
  BY <1>1, <1>6 DEF Aged, Unique
<1>8. NothingTwice
  BY <1>1 DEF NothingTwice
<1>9. Walked
  BY <1>1 DEF Walked
<1>10. QED
  BY <1>5, <1>7, <1>8, <1>9 DEF PagesInv

(* The cluster: a name is taken again only with a later time.               *)
LEMMA ChangeStep ==
    ASSUME PagesInv, NEW rs, rs \subseteq Findings, Unique(rs), Change(rs),
           \A r \in rs : \/ r.created = clock
                         \/ \E was \in results : was.id = r.id /\ was.created = r.created
    PROVE  PagesInv'
<1>1. /\ results' = rs /\ steady' = steady \cap PositionsOf(rs)
      /\ UNCHANGED <<clock, cursor, listing, read, served, client>>
  BY DEF Change, scan, PositionsOf
<1>2. clock \in Nat /\ served \in Seq(Findings) /\ listing \subseteq Findings
  BY PagesAssumption DEF PagesInv, TypeOK
<1>3. TypeOK'
  BY <1>1 DEF PagesInv, TypeOK, Unique
<1>4. ASSUME NEW r \in rs
      PROVE  /\ r.created <= clock
             /\ \A i \in DOMAIN served : Older(served[i], r)
             /\ \A item \in listing : Older(item, r)
  <2>1. CASE r.created = clock
    BY <1>2, <2>1 DEF PagesInv, Aged, Older
  <2>2. CASE \E was \in results : was.id = r.id /\ was.created = r.created
    BY <2>2 DEF PagesInv, Aged, Older
  <2>3. QED
    BY <2>1, <2>2
<1>5. Aged'
  BY <1>1, <1>4 DEF PagesInv, Aged, Unique, Older
<1>6. NothingTwice'
  BY <1>1 DEF PagesInv, NothingTwice
<1>7. Walked'
  BY <1>1 DEF PagesInv, Walked, PositionsOf
<1>8. QED
  BY <1>3, <1>5, <1>6, <1>7 DEF PagesInv

LEMMA EnvironmentStep ==
    ASSUME PagesInv, Environment
    PROVE  PagesInv'
<1>1. results \subseteq Findings /\ Unique(results) /\ clock \in 1 .. MaxClock
  BY DEF PagesInv, TypeOK, Unique
<1>2. CASE Create
  <2>1. PICK id \in Ids, matches \in BOOLEAN :
           /\ \A item \in results : item.id # id
           /\ Change(results \cup {[id |-> id, created |-> clock, matches |-> matches]})
    BY <1>2 DEF Create
  <2> DEFINE new == [id |-> id, created |-> clock, matches |-> matches]
  <2>2. new \in Findings /\ new.id = id /\ new.created = clock
    BY <1>1 DEF Findings
  <2>3. Change(results \cup {new}) /\ \A item \in results : item.id # new.id
    BY <2>1
  <2> HIDE DEF new
  <2>4. results \cup {new} \subseteq Findings /\ Unique(results \cup {new})
    BY <1>1, <2>2, <2>3 DEF Unique
  <2>5. QED
    BY <2>2, <2>3, <2>4, ChangeStep
<1>3. CASE Delete
  <2>1. PICK item \in results : Change(results \ {item})
    BY <1>3 DEF Delete
  <2>2. results \ {item} \subseteq Findings /\ Unique(results \ {item})
    BY <1>1 DEF Unique
  <2>3. QED
    BY <2>1, <2>2, ChangeStep
<1>4. CASE Rewrite
  <2>1. PICK item \in results :
           Change((results \ {item}) \cup {[item EXCEPT !.matches = ~item.matches]})
    BY <1>4 DEF Rewrite
  <2> DEFINE new == [item EXCEPT !.matches = ~item.matches]
  <2>2. new \in Findings /\ new.id = item.id /\ new.created = item.created
    BY <1>1 DEF Findings
  <2>3. Change((results \ {item}) \cup {new})
    BY <2>1
  <2> HIDE DEF new
  <2>4. (results \ {item}) \cup {new} \subseteq Findings
        /\ Unique((results \ {item}) \cup {new})
    BY <1>1, <2>2 DEF Unique
  <2>5. QED
    BY <2>2, <2>3, <2>4, ChangeStep
<1>5. CASE Tick
  <2>1. /\ clock' = clock + 1 /\ clock < MaxClock
        /\ UNCHANGED <<results, cursor, listing, read, served, steady, client>>
    BY <1>5 DEF Tick, scan
  <2>2. clock' \in 1 .. MaxClock /\ clock \in Nat /\ clock' \in Nat
    BY <1>1, <2>1, PagesAssumption
  <2>3. TypeOK'
    BY <2>1, <2>2 DEF PagesInv, TypeOK
  <2>4. Aged'
    <3>1. /\ \A item \in results \cup listing : item.created \in Nat
          /\ \A i \in DOMAIN served : served[i].created \in Nat
      BY FindingType DEF PagesInv, TypeOK
    <3>2. QED
      BY <2>1, <2>2, <3>1 DEF PagesInv, Aged, Unique, Older
  <2>5. NothingTwice' /\ Walked'
    BY <2>1 DEF PagesInv, NothingTwice, Walked, PositionsOf
  <2>6. QED
    BY <2>3, <2>4, <2>5 DEF PagesInv
<1>6. QED
  BY <1>2, <1>3, <1>4, <1>5 DEF Environment

LEMMA CursorPlaced ==
    ASSUME TypeOK
    PROVE  /\ Place(cursor)
           /\ (client # "done" /\ served # <<>>) =>
                 /\ Len(served) \in 1 .. Len(served) /\ cursor # NoCursor
                 /\ cursor = Position(served[Len(served)])
<1>1. served \in Seq(Findings)
  BY DEF TypeOK
<1>2. CASE client = "done" \/ served = <<>>
  BY <1>2 DEF TypeOK, NoCursor, Place
<1>3. CASE ~(client = "done" \/ served = <<>>)
  <2>1. Len(served) \in 1 .. Len(served)
    BY <1>1, <1>3
  <2>2. cursor = Position(served[Len(served)])
    BY <1>3 DEF TypeOK, Last
  <2>3. /\ served[Len(served)].id \in Nat /\ served[Len(served)].created \in Nat
        /\ served[Len(served)].created >= 1
    BY <1>1, <2>1, FindingType
  <2>4. cursor.created \in Nat /\ cursor.id \in Nat /\ cursor.created >= 1
    BY <2>2, <2>3 DEF Position
  <2>5. cursor # NoCursor
    BY <2>4 DEF NoCursor
  <2>6. QED
    BY <1>3, <2>1, <2>2, <2>4, <2>5 DEF Place
<1>4. QED
  BY <1>2, <1>3

(* Nothing on the next page is on an earlier one.                           *)
LEMMA Follows ==
    ASSUME PagesInv, client # "done", NEW item \in listing, After(item, cursor),
           NEW i \in DOMAIN served
    PROVE  Before(served[i], item) /\ served[i].id # item.id
<1>1. served \in Seq(Findings) /\ listing \subseteq Findings
  BY DEF PagesInv, TypeOK
<1> DEFINE n == Len(served)
           last == served[n]
<1>2. /\ n \in 1 .. n /\ i \in 1 .. n /\ cursor # NoCursor /\ cursor = Position(last)
  BY <1>1, CursorPlaced DEF PagesInv
<1>3. last \in Findings /\ served[i] \in Findings /\ item \in Findings
  BY <1>1, <1>2
<1>4. Before(last, item)
  BY <1>2 DEF After, Before, Position
<1>5. i = n \/ Before(served[i], last)
  BY <1>1, <1>2 DEF PagesInv, NothingTwice
<1> HIDE DEF last
<1>6. Before(served[i], item)
  <2>1. CASE i = n
    BY <1>4, <2>1 DEF last
  <2>2. CASE Before(served[i], last)
    BY <1>3, <1>4, <2>2, BeforeIsOrder
  <2>3. QED
    BY <1>5, <2>1, <2>2
<1>7. Older(served[i], item)
  BY DEF PagesInv, Aged
<1>8. /\ item.id \in Nat /\ item.created \in Nat
      /\ served[i].id \in Nat /\ served[i].created \in Nat
  BY <1>3, FindingType
<1>9. QED
  BY <1>6, <1>7, <1>8 DEF Before, Older

LEMMA ServeStep ==
    ASSUME PagesInv, client = "listing", Serve(listing), UNCHANGED <<clock, results, steady>>
    PROVE  PagesInv'
<1>1. /\ served \in Seq(Findings) /\ listing \subseteq Findings /\ Unique(listing)
      /\ Place(cursor)
  BY CursorPlaced DEF PagesInv, TypeOK, Aged
<1>2. PICK page \in Seq(Matching(listing)) :
              /\ served' = served \o page
              /\ \A i, j \in 1 .. Len(page) : i < j => Before(page[i], page[j])
              /\ \A i \in 1 .. Len(page) : After(page[i], cursor)
              /\ \/ /\ client' = "paging" /\ page # <<>>
                    /\ cursor' = Position(page[Len(page)])
                    /\ \A x \in Matching(listing) : After(x, cursor) =>
                          \/ \E i \in 1 .. Len(page) : page[i] = x
                          \/ Before(page[Len(page)], x)
                 \/ /\ client' = "done" /\ cursor' = NoCursor
                    /\ \A x \in Matching(listing) : After(x, cursor) =>
                          \E i \in 1 .. Len(page) : page[i] = x
  BY <1>1, PageServed
<1>3. listing' = {} /\ read' = {}
  BY DEF Serve
<1> DEFINE n == Len(served)
           m == Len(page)
<1>4. /\ n \in Nat /\ m \in Nat /\ \A i \in 1 .. m : page[i] \in listing
      /\ page \in Seq(Findings) /\ served' \in Seq(Findings) /\ Len(served') = n + m
      /\ DOMAIN served = 1 .. n /\ DOMAIN served' = 1 .. n + m
  <2>1. Matching(listing) \subseteq listing
    BY DEF Matching
  <2>2. page \in Seq(Findings) /\ \A i \in 1 .. m : page[i] \in listing
    BY <1>1, <2>1
  <2>3. QED
    BY <1>1, <1>2, <2>2
<1>5. /\ \A i \in 1 .. n : served'[i] = served[i]
      /\ \A i \in 1 .. m : served'[n + i] = page[i]
  BY <1>1, <1>2, <1>4
<1>6. \A i \in 1 .. n + m : i \in 1 .. n \/ \E k \in 1 .. m : i = n + k
  <2>1. ASSUME NEW i \in 1 .. n + m, i \notin 1 .. n PROVE i - n \in 1 .. m /\ i = n + (i - n)
    BY <1>4, <2>1
  <2>2. QED
    BY <2>1
<1> HIDE DEF n, m
<1>7. TypeOK'
  <2>1. CASE client' = "paging" /\ page # <<>> /\ cursor' = Position(page[Len(page)])
    <3>1. m \in 1 .. m
      BY <1>4, <2>1 DEF m
    <3>2. Last(served') = page[m] /\ served' # <<>>
      BY <1>4, <1>5, <3>1 DEF Last
    <3>3. QED
      BY <1>2, <1>3, <1>4, <2>1, <3>2 DEF PagesInv, TypeOK, m
  <2>2. CASE client' = "done" /\ cursor' = NoCursor
    BY <1>2, <1>3, <1>4, <2>2 DEF PagesInv, TypeOK
  <2>3. QED
    BY <1>2, <2>1, <2>2
<1>8. Aged'
  <2>1. ASSUME NEW i \in 1 .. n + m
        PROVE  /\ served'[i].created <= clock
               /\ \A item \in results : Older(served'[i], item)
    BY <1>4, <1>5, <1>6 DEF PagesInv, Aged
  <2>2. QED
    BY <1>3, <1>4, <2>1 DEF PagesInv, Aged, Unique, Older
<1>9. NothingTwice'
  <2>1. ASSUME NEW i \in 1 .. n, NEW k \in 1 .. m
        PROVE  Before(served[i], page[k]) /\ served[i].id # page[k].id
    BY <1>2, <1>4, Follows DEF m
  <2>2. ASSUME NEW i \in 1 .. n + m, NEW j \in 1 .. n + m, i < j
        PROVE  Before(served'[i], served'[j]) /\ served'[i].id # served'[j].id
    <3>1. CASE i \in 1 .. n /\ j \in 1 .. n
      BY <1>4, <1>5, <2>2, <3>1 DEF PagesInv, NothingTwice
    <3>2. CASE i \in 1 .. n /\ \E k \in 1 .. m : j = n + k
      BY <1>5, <2>1, <3>2
    <3>3. ASSUME NEW a \in 1 .. m, NEW b \in 1 .. m, i = n + a, j = n + b
          PROVE  Before(served'[i], served'[j]) /\ served'[i].id # served'[j].id
      <4>1. a < b
        BY <1>4, <2>2, <3>3
      <4>2. Before(page[a], page[b])
        BY <1>2, <4>1 DEF m
      <4>3. page[a].id # page[b].id
        BY <1>1, <1>4, <4>2, BeforeIsOrder DEF Unique
      <4>4. QED
        BY <1>5, <3>3, <4>2, <4>3
    <3>4. CASE j \in 1 .. n /\ \E k \in 1 .. m : i = n + k
      BY <1>4, <2>2, <3>4
    <3>5. QED
      BY <1>6, <3>1, <3>2, <3>3, <3>4
  <2>3. \A i, j \in 1 .. n + m : i < j \/ j < i \/ i = j
    BY <1>4
  <2>4. QED
    BY <1>4, <2>2, <2>3 DEF NothingTwice
<1>10. Walked'
  <2>1. ASSUME NEW c \in steady
        PROVE  \/ \E i \in DOMAIN served' : Position(served'[i]) = c
               \/ client' # "done" /\ Before(cursor', c)
    <3>1. CASE \E i \in 1 .. n : Position(served[i]) = c
      BY <1>4, <1>5, <3>1
    <3>2. CASE cursor = NoCursor \/ Before(cursor, c)
      <4>1. PICK x \in Matching(listing) : Position(x) = c
        BY DEF PagesInv, Walked, PositionsOf
      <4>2. After(x, cursor)
        BY <3>2, <4>1 DEF After
      <4>3. ASSUME NEW i \in 1 .. m, page[i] = x
            PROVE  \E k \in DOMAIN served' : Position(served'[k]) = c
        <5>1. n + i \in DOMAIN served'
          BY <1>4
        <5>2. Position(served'[n + i]) = c
          BY <1>5, <4>1, <4>3
        <5>3. QED
          BY <5>1, <5>2
      <4>4. CASE /\ client' = "paging" /\ cursor' = Position(page[Len(page)])
                 /\ Before(page[Len(page)], x)
        BY <4>1, <4>4 DEF Before, Position
      <4>5. QED
        BY <1>2, <4>2, <4>3, <4>4 DEF m
    <3>3. QED
      BY <1>4, <3>1, <3>2 DEF PagesInv, Walked
  <2>2. client' # "listing"
    BY <1>2
  <2>3. QED
    BY <2>1, <2>2 DEF PagesInv, Walked, PositionsOf
<1>11. QED
  BY <1>7, <1>8, <1>9, <1>10 DEF PagesInv

LEMMA ClientStep ==
    ASSUME PagesInv, Ask \/ Chunk \/ ChunkFails
    PROVE  PagesInv'
<1>1. CASE Ask
  <2>1. /\ client = "paging" /\ client' = "listing" /\ listing' = results
        /\ UNCHANGED <<clock, results, cursor, read, served, steady>>
    BY <1>1 DEF Ask
  <2>2. TypeOK'
    BY <2>1 DEF PagesInv, TypeOK
  <2>3. Aged'
    <3>1. \A item \in results : item.created \in Nat
      BY FindingType DEF PagesInv, TypeOK
    <3>2. QED
      BY <2>1, <3>1 DEF PagesInv, TypeOK, Aged, Unique, Older
  <2>4. NothingTwice' /\ Walked'
    BY <2>1 DEF PagesInv, NothingTwice, Walked, PositionsOf
  <2>5. QED
    BY <2>2, <2>3, <2>4 DEF PagesInv
<1>2. CASE Chunk
  <2>1. CASE Serve(listing)
    BY <1>2, <2>1, ServeStep DEF Chunk
  <2>2. CASE read' = NextRead /\ UNCHANGED <<cursor, listing, served, client>>
    <3>1. NextRead \subseteq listing /\ UNCHANGED <<clock, results, steady>>
      BY <1>2 DEF Chunk, NextRead, PagesInv, TypeOK
    <3>2. QED
      BY <2>2, <3>1 DEF PagesInv, TypeOK, Aged, Unique, Older, NothingTwice, Walked, PositionsOf
  <2>3. QED
    BY <1>2, <2>1, <2>2 DEF Chunk
<1>3. CASE ChunkFails
  <2>1. /\ client = "listing" /\ client' = "failed" /\ listing' = {} /\ read' = {}
        /\ UNCHANGED <<clock, results, cursor, served, steady>>
    BY <1>3 DEF ChunkFails
  <2>2. QED
    BY <2>1 DEF PagesInv, TypeOK, Aged, Unique, Older, NothingTwice, Walked, PositionsOf
<1>4. QED
  BY <1>1, <1>2, <1>3

LEMMA InvariantPages == Spec => []PagesInv
<1>1. PagesInv /\ [Next]_vars => PagesInv'
  <2>1. ASSUME PagesInv, UNCHANGED vars PROVE PagesInv'
    <3>1. UNCHANGED <<clock, results, cursor, listing, read, served, steady, client>>
      BY <2>1 DEF vars, scan
    <3>2. QED
      BY <2>1, <3>1 DEF PagesInv, TypeOK, Aged, Unique, Older, NothingTwice, Walked,
         PositionsOf
  <2>2. QED
    BY <2>1, EnvironmentStep, ClientStep DEF Next
<1>2. QED
  BY <1>1, PagesInit, PTL DEF Spec

-----------------------------------------------------------------------------
(* Every variable keeps its type, and a client that goes on paging has a
   cursor that points at the last finding it was given.                     *)
THEOREM TypeCorrect == Spec => []TypeOK
<1>1. PagesInv => TypeOK
  BY DEF PagesInv
<1>2. QED
  BY <1>1, InvariantPages, PTL

(* The pages of a walk are newest first and name nothing twice, whatever is
   created, deleted and created again between them (filteredFindings,
   cursorStart).                                                            *)
THEOREM PagesRepeatNothing == Spec => []NothingTwice
<1>1. PagesInv => NothingTwice
  BY DEF PagesInv
<1>2. QED
  BY <1>1, InvariantPages, PTL

(* A walk that reaches the end was given every finding that was there and
   matched all the time (cursorStart, EncodeCursor).                        *)
THEOREM PagesMissNothing == Spec => []NothingMissed
<1>1. PagesInv => NothingMissed
  BY DEF PagesInv, Walked, NothingMissed
<1>2. QED
  BY <1>1, InvariantPages, PTL

(***************************************************************************)
(* Screens.                                                                *)
(***************************************************************************)

(* A run that rendered its result or its error is over, and an event is queued
   by a move or by the start.                                               *)
ScreenInv ==
    /\ PortalTypeOK
    /\ events <= moves + 1
    /\ screen.state \in {"result", "error"} =>
          screen.run \in Runs /\ stage[screen.run] = "over"

LEMMA ScreenInit == PortalInit => ScreenInv
<1> SUFFICES ASSUME PortalInit PROVE ScreenInv
  OBVIOUS
<1>1. MaxMoves \in Nat /\ MaxGeneration \in Nat
  BY PortalAssumption
<1>2. PortalTypeOK
  BY <1>1 DEF PortalInit, PortalTypeOK, Stages, Runs
<1>3. QED
  BY <1>2 DEF PortalInit, ScreenInv

(* A new run takes the screen, or throws and leaves it alone.               *)
LEMMA RouteStep ==
    ASSUME ScreenInv, NEW h, Route(h), cached' = cached, moves' = moves,
           hash' \in Hashes \cup {Empty}, events' \in 0 .. MaxMoves + 1, events' <= moves + 1
    PROVE  /\ ScreenInv'
           /\ generation' = generation + 1
           /\ screen' = screen \/ screen' = Loading(generation', h)
<1> DEFINE g == generation + 1
<1>1. /\ generation' = g /\ g <= MaxGeneration /\ h \in Hashes
      /\ view' = [view EXCEPT ![g] = h]
      /\ \E s \in {"options", "detail", "over"} : stage' = [stage EXCEPT ![g] = s]
      /\ inflight' = inflight
         \/ inflight' = inflight \cup {[run |-> g, what |-> w] : w \in Cacheable \ cached}
         \/ inflight' = inflight \cup {[run |-> g, what |-> "finding"]}
      /\ screen' = screen \/ screen' = Loading(g, h)
  BY DEF Route, Hashes
<1>2. generation \in Nat /\ g \in Runs /\ generation' \in 0 .. MaxGeneration
  BY <1>1, PortalAssumption DEF ScreenInv, PortalTypeOK, Runs
<1>3. view' \in [Runs -> Hashes \cup {Empty}]
  BY <1>1, <1>2 DEF ScreenInv, PortalTypeOK
<1>4. /\ stage' \in [Runs -> Stages] /\ stage'[g] # "idle"
      /\ \A r \in Runs \ {g} : stage'[r] = stage[r]
  BY <1>1, <1>2 DEF ScreenInv, PortalTypeOK, Stages
<1>5. inflight' \subseteq Fetches /\ \A f \in inflight' : f.run <= generation'
  <2>1. \A w \in Cacheable \cup {"finding"} :
           [run |-> g, what |-> w] \in Fetches /\ [run |-> g, what |-> w].run = g
    BY <1>2 DEF Fetches
  <2>2. \A f \in inflight : f \in Fetches /\ f.run \in Nat /\ f.run <= generation
    BY DEF ScreenInv, PortalTypeOK, Fetches, Runs
  <2>3. \A f \in inflight : f.run <= g
    BY <1>2, <2>2
  <2>4. \A f \in inflight' : f \in inflight \/ \E w \in Cacheable \cup {"finding"} :
                                                   f = [run |-> g, what |-> w]
    BY <1>1
  <2> HIDE DEF g
  <2>5. \A f \in inflight' : f \in Fetches /\ (f \in inflight \/ f.run = g)
    BY <2>1, <2>2, <2>4
  <2>6. g <= g
    BY <1>2 DEF Runs
  <2>7. QED
    BY <1>1, <2>3, <2>5, <2>6
<1>6. \A r \in Runs : stage'[r] = "idle" <=> r > generation'
  <2>1. ASSUME NEW r \in Runs \ {g} PROVE stage'[r] = "idle" <=> r > g
    <3>1. stage'[r] = stage[r] /\ (stage[r] = "idle" <=> r > generation)
      BY <1>4 DEF ScreenInv, PortalTypeOK
    <3>2. r > generation <=> r > g
      BY <1>2 DEF Runs
    <3>3. QED
      BY <3>1, <3>2
  <2>2. ~(g > g)
    BY <1>2
  <2>3. QED
    BY <1>1, <1>2, <1>4, <2>1, <2>2
<1>7. /\ screen'.run \in 0 .. generation'
      /\ screen'.state \in {"blank", "loading", "result", "error"}
      /\ screen'.run > 0 => screen'.view = view'[screen'.run]
  <2>1. CASE screen' = screen
    <3>1. screen.run \in 0 .. generation /\ (screen.run > 0 => screen.view = view[screen.run])
      BY DEF ScreenInv, PortalTypeOK
    <3>2. screen.run # g /\ screen.run \in 0 .. g
      BY <1>2, <3>1
    <3>3. screen.run > 0 => screen.run \in Runs
      BY <1>2, <3>1, PortalAssumption DEF Runs
    <3>4. screen.run > 0 => view'[screen.run] = view[screen.run]
      BY <1>1, <3>2, <3>3 DEF ScreenInv, PortalTypeOK
    <3>5. QED
      BY <1>1, <2>1, <3>1, <3>2, <3>4 DEF ScreenInv, PortalTypeOK
  <2>2. CASE screen' = Loading(g, h)
    <3>1. screen'.run = g /\ screen'.view = h /\ screen'.state = "loading"
      BY <2>2 DEF Loading
    <3>2. view'[g] = h
      BY <1>1, <1>2 DEF ScreenInv, PortalTypeOK
    <3>3. QED
      BY <1>1, <1>2, <3>1, <3>2
  <2>3. QED
    BY <1>1, <2>1, <2>2
<1>8. PortalTypeOK'
  BY <1>2, <1>3, <1>4, <1>5, <1>6, <1>7 DEF ScreenInv, PortalTypeOK
<1>9. screen'.state \in {"result", "error"} => screen'.run \in Runs /\ stage'[screen'.run] = "over"
  <2>1. CASE screen' = screen
    <3>1. screen.run # g
      BY <1>2 DEF ScreenInv, PortalTypeOK
    <3>2. QED
      BY <1>4, <2>1, <3>1 DEF ScreenInv
  <2>2. CASE screen' = Loading(g, h)
    BY <2>2 DEF Loading
  <2>3. QED
    BY <1>1, <2>1, <2>2
<1>10. QED
  BY <1>1, <1>8, <1>9 DEF ScreenInv

LEMMA UserStep ==
    ASSUME ScreenInv, StartPortal \/ HashChange \/ Retry
    PROVE  /\ ScreenInv'
           /\ generation' = generation + 1
           /\ screen' = screen \/ \E h : screen' = Loading(generation', h)
<1>1. /\ moves \in Nat /\ events \in Nat /\ MaxMoves \in Nat /\ events <= MaxMoves + 1
      /\ hash \in Hashes \cup {Empty} /\ Default \in Hashes /\ events <= moves + 1
  BY PortalAssumption DEF ScreenInv, PortalTypeOK, Hashes
<1>2. CASE StartPortal
  <2>1. /\ Route(hash') /\ cached' = cached /\ moves' = moves
        /\ hash' \in Hashes \cup {Empty} /\ events' \in {0, 1}
    BY <1>1, <1>2 DEF StartPortal
  <2>2. events' \in 0 .. MaxMoves + 1 /\ events' <= moves + 1
    BY <1>1, <2>1
  <2>3. QED
    BY <2>1, <2>2, RouteStep
<1>3. CASE HashChange
  <2>1. Route(hash) /\ cached' = cached /\ moves' = moves /\ hash' = hash
        /\ events > 0 /\ events' = events - 1
    BY <1>3 DEF HashChange
  <2>2. events' \in 0 .. MaxMoves + 1 /\ events' <= moves + 1
    BY <1>1, <2>1
  <2>3. QED
    BY <1>1, <2>1, <2>2, RouteStep
<1>4. CASE Retry
  <2>1. Route(hash) /\ cached' = cached /\ moves' = moves /\ hash' = hash /\ events' = events
    BY <1>4 DEF Retry
  <2>2. QED
    BY <1>1, <2>1, RouteStep
<1>5. QED
  BY <1>2, <1>3, <1>4

LEMMA NavigateStep ==
    ASSUME ScreenInv, Navigate
    PROVE  ScreenInv' /\ screen' = screen
<1>1. /\ moves < MaxMoves /\ hash' \in Hashes /\ events' = events + 1 /\ moves' = moves + 1
      /\ UNCHANGED <<generation, view, stage, inflight, cached, screen>>
  BY DEF Navigate
<1>2. events' \in 0 .. MaxMoves + 1 /\ moves' \in 0 .. MaxMoves /\ events' <= moves' + 1
  BY <1>1, PortalAssumption DEF ScreenInv, PortalTypeOK
<1>3. QED
  BY <1>1, <1>2 DEF ScreenInv, PortalTypeOK

LEMMA AnswerStep ==
    ASSUME ScreenInv, NEW f, Answer(f)
    PROVE  ScreenInv' /\ screen' = screen
<1>1. /\ f \in inflight /\ inflight' = inflight \ {f}
      /\ UNCHANGED <<hash, events, moves, generation, view, screen>>
      /\ cached' \subseteq Cacheable
      /\ \/ stage' = stage
         \/ stage' = [stage EXCEPT ![f.run] = IF @ = "over" THEN @ ELSE "rejected"]
  BY DEF Answer, ScreenInv, PortalTypeOK
<1>2. f.run \in Runs /\ stage[f.run] # "idle"
  BY <1>1 DEF ScreenInv, PortalTypeOK, Fetches, Runs
<1>3. /\ stage' \in [Runs -> Stages]
      /\ \A r \in Runs : /\ stage'[r] = "idle" <=> stage[r] = "idle"
                         /\ stage[r] = "over" => stage'[r] = "over"
  BY <1>1, <1>2 DEF ScreenInv, PortalTypeOK, Stages
<1>4. PortalTypeOK'
  BY <1>1, <1>3 DEF ScreenInv, PortalTypeOK
<1>5. QED
  BY <1>1, <1>3, <1>4 DEF ScreenInv

(* A continuation: the next fetches, or the end of the run, which the current
   run renders.                                                             *)
LEMMA OptionsStep ==
    ASSUME ScreenInv, NEW g \in Runs, OptionsLoaded(g)
    PROVE  ScreenInv' /\ screen' = screen
<1>1. /\ stage[g] = "options"
      /\ UNCHANGED <<hash, events, moves, generation, view, cached, screen>>
      /\ \E s \in {"data", "over"} : stage' = [stage EXCEPT ![g] = s]
      /\ inflight' = inflight
         \/ inflight' = inflight \cup {[run |-> g, what |-> w] : w \in {"page", "summary"}}
  BY DEF OptionsLoaded
<1>2. /\ stage' \in [Runs -> Stages]
      /\ \A r \in Runs : /\ stage'[r] = "idle" <=> stage[r] = "idle"
                         /\ stage[r] = "over" => stage'[r] = "over"
  BY <1>1 DEF ScreenInv, PortalTypeOK, Stages
<1>3. g <= generation
  BY <1>1 DEF ScreenInv, PortalTypeOK, Runs
<1>4. inflight' \subseteq Fetches /\ \A f \in inflight' : f.run <= generation'
  BY <1>1, <1>3 DEF ScreenInv, PortalTypeOK, Fetches
<1>5. PortalTypeOK'
  BY <1>1, <1>2, <1>4 DEF ScreenInv, PortalTypeOK
<1>6. QED
  BY <1>1, <1>2, <1>5 DEF ScreenInv

LEMMA EndStep ==
    ASSUME ScreenInv, NEW g \in Runs, ViewLoaded(g) \/ Failed(g)
    PROVE  /\ ScreenInv'
           /\ generation' = generation
           /\ stage[g] # "over"
           /\ screen' = screen \/ (g = generation /\ screen'.run = g)
<1>1. PICK state \in {"result", "error"} :
         /\ stage[g] \in {"data", "detail", "rejected"} /\ stage' = [stage EXCEPT ![g] = "over"]
         /\ Render(g, state)
         /\ UNCHANGED <<hash, events, moves, generation, view, inflight, cached>>
  BY DEF ViewLoaded, Failed
<1>2. /\ stage' \in [Runs -> Stages] /\ stage'[g] = "over"
      /\ \A r \in Runs : /\ stage'[r] = "idle" <=> stage[r] = "idle"
                         /\ stage[r] = "over" => stage'[r] = "over"
  BY <1>1 DEF ScreenInv, PortalTypeOK, Stages
<1>3. \/ screen' = screen
      \/ g = generation /\ screen' = [run |-> g, view |-> view[g], state |-> state]
  BY <1>1 DEF Render, Current
<1>4. CASE screen' = screen
  <2>1. PortalTypeOK'
    BY <1>1, <1>2, <1>4 DEF ScreenInv, PortalTypeOK
  <2>2. QED
    BY <1>1, <1>2, <1>4, <2>1 DEF ScreenInv
<1>5. CASE g = generation /\ screen' = [run |-> g, view |-> view[g], state |-> state]
  <2>1. /\ screen'.run = g /\ screen'.view = view[g] /\ screen'.state = state
        /\ screen'.run \in 0 .. generation
    BY <1>5 DEF Runs
  <2>2. PortalTypeOK'
    BY <1>1, <1>2, <2>1 DEF ScreenInv, PortalTypeOK
  <2>3. QED
    BY <1>1, <1>2, <1>5, <2>1, <2>2 DEF ScreenInv
<1>6. QED
  BY <1>3, <1>4, <1>5

LEMMA ScreenStep == ScreenInv /\ [PortalNext]_portalVars => ScreenInv'
<1>1. ASSUME ScreenInv, UNCHANGED portalVars PROVE ScreenInv'
  BY <1>1 DEF portalVars, ScreenInv, PortalTypeOK
<1>2. QED
  BY <1>1, UserStep, NavigateStep, AnswerStep, OptionsStep, EndStep DEF PortalNext

LEMMA InvariantScreen == PortalSpec => []ScreenInv
<1>1. QED
  BY ScreenInit, ScreenStep, PTL DEF PortalSpec

-----------------------------------------------------------------------------
(* Every variable keeps its type, and the screen shows the view of the run that
   rendered it (renderList, renderDetail).                                  *)
THEOREM ScreenTypeCorrect == PortalSpec => []PortalTypeOK
<1>1. ScreenInv => PortalTypeOK
  BY DEF ScreenInv
<1>2. QED
  BY <1>1, InvariantScreen, PTL

(* Whatever order the fetches of overlapping runs are answered in, the screen
   never goes back to an older run, and a run settles it once (the generation
   counter of route, renderList and renderDetail).                          *)
THEOREM ScreenNeverGoesBack == PortalSpec => ScreenMovesOn
<1>1. ScreenInv /\ [PortalNext]_portalVars
        => [screen' # screen => screen'.run = generation' /\ screen'.run >= screen.run]_portalVars
  <2> SUFFICES ASSUME ScreenInv, PortalNext, screen' # screen
               PROVE  screen'.run = generation' /\ screen'.run >= screen.run
    OBVIOUS
  <2>1. screen.run \in 0 .. generation /\ generation \in Nat
    BY PortalAssumption DEF ScreenInv, PortalTypeOK
  <2>2. CASE StartPortal \/ HashChange \/ Retry
    BY <2>1, <2>2, UserStep DEF Loading
  <2>3. CASE \E g \in Runs : ViewLoaded(g) \/ Failed(g)
    BY <2>1, <2>3, EndStep
  <2>4. QED
    BY <2>2, <2>3, NavigateStep, AnswerStep, OptionsStep DEF PortalNext
<1>2. ScreenInv /\ [PortalNext]_portalVars
        => [(screen.state \in {"result", "error"} /\ screen'.run = screen.run) =>
               screen' = screen]_portalVars
  <2> SUFFICES ASSUME ScreenInv, PortalNext, screen.state \in {"result", "error"},
                      screen'.run = screen.run
               PROVE  screen' = screen
    OBVIOUS
  <2>1. screen.run \in 0 .. generation /\ generation \in Nat
    BY PortalAssumption DEF ScreenInv, PortalTypeOK
  <2>2. CASE StartPortal \/ HashChange \/ Retry
    <3>1. ASSUME NEW h, screen' = Loading(generation', h) PROVE FALSE
      BY <2>1, <2>2, <3>1, UserStep DEF Loading
    <3>2. QED
      BY <2>2, <3>1, UserStep
  <2>3. ASSUME NEW g \in Runs, ViewLoaded(g) \/ Failed(g) PROVE screen' = screen
    BY <2>3, EndStep DEF ScreenInv
  <2>4. QED
    BY <2>2, <2>3, NavigateStep, AnswerStep, OptionsStep DEF PortalNext
<1>3. QED
  BY <1>1, <1>2, InvariantScreen, PTL DEF PortalSpec, ScreenMovesOn, NeverBack, SettledOnce
=============================================================================
