----------------------------- MODULE PageProofs -----------------------------
(***************************************************************************)
(* Proofs about the pages that show a list of the server's rows and change *)
(* it with requests: the list pages, the editor of a presentation and the  *)
(* comments panel, for any rows, frames, comments and number of requests.  *)
(*                                                                         *)
(* The definitions that filter a list, order it or walk up a thread are    *)
(* recursive functions.  What they compute is found by looking at the      *)
(* least index at which it would be wrong (Least).                         *)
(***************************************************************************)
EXTENDS Pages, Presentations, Comments, TLAPS, WellFoundedInduction, FiniteSetTheorems, SequenceTheorems

-----------------------------------------------------------------------------
(* Filtered lists                                                          *)
LEMMA Least ==
  ASSUME NEW T \in SUBSET Nat, T # {} PROVE \E x \in T : \A y \in T : x <= y
<1>1. PICK x \in T : \A y \in T : ~(<<y, x>> \in OpToRel(<, Nat))
  BY NatLessThanWellFounded, WFMin
<1>2. \A y \in T : ~(y < x)
  <2>1. TAKE y \in T
  <2>2. (y < x) => <<y, x>> \in OpToRel(<, Nat) BY DEF OpToRel
  <2> QED BY <2>2, <1>1
<1> QED BY <1>2

KeptOf(list, i, f, m) ==
  /\ f = [n \in 0..m |-> f[n]]
  /\ f[0] = <<>>
  /\ \A n \in 1..m : f[n] = IF list[n].id = i THEN f[n - 1] ELSE Append(f[n - 1], list[n])

LEMMA KeptExists ==
  ASSUME NEW list, NEW i, NEW m \in Nat
  PROVE  \E f : KeptOf(list, i, f, m)
<1> DEFINE None == {n \in Nat : ~\E f : KeptOf(list, i, f, n)}
<1> SUFFICES ASSUME None # {} PROVE FALSE
  OBVIOUS
<1>1. PICK n \in None : \A y \in None : n <= y
  BY Least
<1>2. n # 0
  <2>1. KeptOf(list, i, [k \in 0..0 |-> <<>>], 0) BY DEF KeptOf
  <2> QED BY <2>1
<1>3. PICK f : KeptOf(list, i, f, n - 1)
  BY <1>1, <1>2
<1> DEFINE g == [k \in 0..n |-> IF k = n THEN IF list[n].id = i THEN f[n - 1] ELSE Append(f[n - 1], list[n]) ELSE f[k]]
<1>4. KeptOf(list, i, g, n)
  <2>1. n \in Nat \ {0}
    BY <1>2
  <2>2. g[0] = <<>>
    BY <2>1, <1>3 DEF KeptOf
  <2>3. ASSUME NEW k \in 1..n
        PROVE  g[k] = IF list[k].id = i THEN g[k - 1] ELSE Append(g[k - 1], list[k])
    <3>1. k - 1 \in 0..n /\ k - 1 # n
      BY <2>1
    <3>2. g[k - 1] = f[k - 1]
      BY <3>1
    <3>3. CASE k = n
      BY <3>2, <3>3
    <3>4. CASE k # n
      <4>1. k \in 1..(n - 1)
        BY <2>1, <3>4
      <4>2. f[k] = IF list[k].id = i THEN f[k - 1] ELSE Append(f[k - 1], list[k])
        BY <4>1, <1>3 DEF KeptOf
      <4> QED BY <4>2, <3>2, <3>4
    <3> QED BY <3>3, <3>4
  <2> HIDE DEF g
  <2>4. g = [k \in 0..n |-> g[k]]
    BY DEF g
  <2> QED BY <2>2, <2>3, <2>4 DEF KeptOf
<1> QED BY <1>4

LEMMA WithoutKept ==
  ASSUME NEW list, NEW i, Len(list) \in Nat
  PROVE  \E f : KeptOf(list, i, f, Len(list)) /\ Without(list, i) = f[Len(list)]
<1> DEFINE Step(f) == [n \in 0..Len(list) |-> IF n = 0 THEN <<>> ELSE IF list[n].id = i THEN f[n - 1] ELSE Append(f[n - 1], list[n])]
           kept == CHOOSE f : f = Step(f)
<1>1. PICK g : KeptOf(list, i, g, Len(list))
  BY KeptExists
<1>2. g = Step(g)
  <2>1. \A n \in 0..Len(list) : g[n] = Step(g)[n]
    <3> TAKE n \in 0..Len(list)
    <3>1. CASE n = 0
      BY <3>1, <1>1 DEF KeptOf
    <3>2. CASE n # 0
      <4>1. n \in 1..Len(list)
        BY <3>2
      <4> QED BY <4>1, <3>2, <1>1 DEF KeptOf
    <3> QED BY <3>1, <3>2
  <2> QED BY <2>1, <1>1 DEF KeptOf
<1>3. kept = Step(kept)
  BY <1>2
<1>4. KeptOf(list, i, kept, Len(list))
  <2> HIDE DEF kept
  <2>1. \A n \in 0..Len(list) : kept[n] = Step(kept)[n]
    BY <1>3
  <2>2. kept = [n \in 0..Len(list) |-> kept[n]]
    BY <1>3
  <2> QED BY <2>1, <2>2 DEF KeptOf
<1>5. Without(list, i) = kept[Len(list)]
  BY DEF Without
<1> QED BY <1>4, <1>5

(* w is what the first n rows of the list leave when those of id i are taken out: h says where each came from *)
PickedBy(h, w, list, i, n) ==
  /\ \A k \in 1..Len(w) : h[k] \in 1..n /\ k <= h[k] /\ w[k] = list[h[k]] /\ w[k].id # i
  /\ \A j, k \in 1..Len(w) : j < k => h[j] < h[k]
  /\ \A m \in 1..n : list[m].id # i => \E k \in 1..Len(w) : h[k] = m

LEMMA PickNext ==
  ASSUME NEW T, NEW list \in Seq(T), NEW i, NEW n \in 1..Len(list), NEW w \in Seq(T), NEW h,
         Len(w) <= n - 1, PickedBy(h, w, list, i, n - 1), list[n].id # i
  PROVE  /\ Append(w, list[n]) \in Seq(T)
         /\ Len(Append(w, list[n])) <= n
         /\ \E g : PickedBy(g, Append(w, list[n]), list, i, n)
<1> DEFINE v == Append(w, list[n])
           g == [k \in 1..Len(v) |-> IF k = Len(v) THEN n ELSE h[k]]
<1>1. list[n] \in T
  OBVIOUS
<1>2. /\ v \in Seq(T) /\ Len(v) = Len(w) + 1 /\ Len(w) \in Nat /\ n \in Nat
      /\ \A k \in 1..Len(w) : v[k] = w[k]
      /\ v[Len(v)] = list[n]
  BY <1>1
<1> HIDE DEF v
<1>3. \A k \in 1..Len(w) : k \in 1..Len(v) /\ k # Len(v) /\ g[k] = h[k]
  BY <1>2
<1>4. g[Len(v)] = n
  BY <1>2
<1>5. ASSUME NEW k \in 1..Len(v)
      PROVE  k = Len(v) \/ k \in 1..Len(w)
  BY <1>2
<1> HIDE DEF g
<1>6. \A k \in 1..Len(w) : h[k] \in 1..(n - 1) /\ k <= h[k] /\ w[k] = list[h[k]] /\ w[k].id # i
  BY DEF PickedBy
<1>7. ASSUME NEW k \in 1..Len(v)
      PROVE  g[k] \in 1..n /\ k <= g[k] /\ v[k] = list[g[k]] /\ v[k].id # i
  <2>1. CASE k = Len(v)
    BY <2>1, <1>2, <1>4
  <2>2. CASE k \in 1..Len(w)
    <3>1. h[k] \in 1..n
      BY <2>2, <1>6, <1>2
    <3> QED BY <2>2, <1>2, <1>3, <1>6, <3>1
  <2> QED BY <2>1, <2>2, <1>5
<1>8. ASSUME NEW j \in 1..Len(v), NEW k \in 1..Len(v), j < k
      PROVE  g[j] < g[k]
  <2>1. j \in 1..Len(w)
    BY <1>8, <1>2
  <2>2. CASE k = Len(v)
    BY <2>1, <2>2, <1>2, <1>3, <1>4, <1>6
  <2>3. CASE k \in 1..Len(w)
    BY <2>1, <2>3, <1>8, <1>3 DEF PickedBy
  <2> QED BY <2>2, <2>3, <1>5
<1>9. ASSUME NEW m \in 1..n, list[m].id # i
      PROVE  \E k \in 1..Len(v) : g[k] = m
  <2>1. CASE m = n
    <3>1. Len(v) \in 1..Len(v)
      BY <1>2
    <3> QED BY <3>1, <2>1, <1>4
  <2>2. CASE m # n
    <3>1. m \in 1..(n - 1)
      BY <2>2, <1>2
    <3>2. PICK k \in 1..Len(w) : h[k] = m
      BY <3>1, <1>9 DEF PickedBy
    <3> QED BY <3>2, <1>3
  <2> QED BY <2>1, <2>2
<1>10. PickedBy(g, v, list, i, n)
  BY <1>7, <1>8, <1>9 DEF PickedBy
<1> QED BY <1>2, <1>10 DEF v

LEMMA WithoutPicks ==
  ASSUME NEW T, NEW list \in Seq(T), NEW i
  PROVE  /\ Without(list, i) \in Seq(T)
         /\ \E h : PickedBy(h, Without(list, i), list, i, Len(list))
<1>1. PICK f : KeptOf(list, i, f, Len(list)) /\ Without(list, i) = f[Len(list)]
  BY WithoutKept
<1> DEFINE Good(n) == f[n] \in Seq(T) /\ Len(f[n]) <= n /\ \E h : PickedBy(h, f[n], list, i, n)
           Bad == {n \in 0..Len(list) : ~Good(n)}
<1>2. SUFFICES ASSUME Bad # {} PROVE FALSE
  BY <1>1
<1>3. PICK n \in Bad : \A y \in Bad : n <= y
  <2>1. Bad \in SUBSET Nat
    OBVIOUS
  <2> HIDE DEF Bad
  <2> QED BY <2>1, <1>2, Least
<1>4. n # 0
  <2>1. f[0] = <<>>
    BY <1>1 DEF KeptOf
  <2>2. PickedBy([k \in {} |-> 0], <<>>, list, i, 0)
    <3>1. Len(<<>>) = 0 /\ \A k \in 1..0 : FALSE
      OBVIOUS
    <3> QED BY <3>1 DEF PickedBy
  <2>3. Good(0)
    <3>1. <<>> \in Seq(T) /\ Len(<<>>) <= 0
      OBVIOUS
    <3> QED BY <3>1, <2>1, <2>2
  <2> QED BY <2>3, <1>3
<1>5. n \in 1..Len(list) /\ n - 1 \in 0..Len(list) /\ ~(n <= n - 1)
  BY <1>4
<1>6. Good(n - 1)
  BY <1>3, <1>5
<1>7. f[n] = IF list[n].id = i THEN f[n - 1] ELSE Append(f[n - 1], list[n])
  BY <1>1, <1>5 DEF KeptOf
<1>8. PICK h : PickedBy(h, f[n - 1], list, i, n - 1)
  BY <1>6
<1>9. Good(n)
  <2>1. CASE list[n].id = i
    <3>1. f[n] = f[n - 1]
      BY <2>1, <1>7
    <3>2. PickedBy(h, f[n], list, i, n)
      <4>1. \A m \in 1..n : m = n \/ m \in 1..(n - 1)
        BY <1>5
      <4>2. \A m \in 1..(n - 1) : m \in 1..n
        BY <1>5
      <4> QED BY <4>1, <4>2, <3>1, <2>1, <1>8 DEF PickedBy
    <3> QED BY <3>1, <3>2, <1>5, <1>6
  <2>2. CASE list[n].id # i
    BY <2>2, <1>5, <1>6, <1>7, <1>8, PickNext
  <2> QED BY <2>1, <2>2
<1> QED BY <1>9

-----------------------------------------------------------------------------
(* The list pages                                                          *)

PageFields == {"kind", "may", "can", "items", "status", "notFound", "editing", "dialog", "secret", "gone"}
IsPage(p) == p = [x \in PageFields |-> p[x]]
FlightFields == {"op", "id", "row", "st", "list", "seen"}
IsFlight(f) == f = [x \in FlightFields |-> f[x]]

Held == [val : Vals, on : BOOLEAN, key : 0..1]
Entry == [id : Rows, row : Held]
Table == [Rows -> {NoRow} \cup Held]

OnShow(p) == p.status = "ready" /\ ~p.notFound /\ ~p.gone
Has(list, i) == \E n \in 1..Len(list) : list[n].id = i

\* the row as the server has it; of a provider the page may have the switch wrong
AsServed(it, table, kind) ==
  it.row = IF kind = "providers" THEN [table[it.id] EXCEPT !.on = it.row.on] ELSE table[it.id]
\* the list has each row of the table once, and as it is there, but for those in S
Reflects(list, table, kind, S) ==
  /\ list \in Seq(Entry)
  /\ \A m, n \in 1..Len(list) : list[m].id = list[n].id => m = n
  /\ \A n \in 1..Len(list) : list[n].id \notin S => table[list[n].id] # NoRow /\ AsServed(list[n], table, kind)
  /\ \A j \in Rows \ S : table[j] # NoRow => Has(list, j)

Adds == {"create", "add"}
Changes == {"rename", "change", "edit", "toggle", "rotate"}

\* what a good answer that waits for its handler tells of the server's rows
Awaiting(f) ==
  /\ f.op \in {"list", "reload"} => Reflects(f.list, rows, page.kind, {})
  /\ f.op \in Adds \cup Changes => f.row \in Held /\ f.row = rows[f.id]
  /\ f.op = "archive" => rows[f.id] = NoRow
  /\ OnShow(page) /\ f.op \in Adds /\ page.kind # "admins" => ~Has(page.items, f.id)

OpsOf(kind) ==
  Client(kind) \cup (IF kind \in {"projects", "diagrams"} THEN {"lookup"} ELSE {})
               \cup (IF kind = "admins" THEN {"reload"} ELSE {})
TypedOn(p, f) ==
  /\ IsFlight(f)
  /\ f.op \in OpsOf(p.kind) /\ f.st \in {"sent", "ok", "failed", "lost"}
  /\ f.op \in Adds \cup Changes \cup {"find", "archive"} => f.id \in Rows
  /\ f.op \in (Adds \cup Changes \cup {"find"}) \ {"rotate"} => f.row \in Held
  /\ OnShow(p) /\ f.op \in Changes => Has(p.items, f.id)
  /\ f.op \in {"toggle", "find"} => OnShow(p) /\ f.seen = p.items
  /\ OnShow(p) /\ f.op = "add" /\ p.kind = "members" => ~Has(p.items, f.id)
RequestTyped(f) == TypedOn(page, f)

PageTyped ==
  /\ IsPage(page) /\ page.kind \in Kinds /\ (page.kind # "webhooks" => page.secret = NoSecret)
  /\ rows \in Table /\ untold \subseteq Rows /\ unkeyed \in BOOLEAN
  /\ flight = [s \in Flights |-> flight[s]]
  /\ \A s \in Flights : Busy(s) => RequestTyped(flight[s])
OneFlight == \A s, t \in Flights : Busy(s) /\ Busy(t) => s = t
ListRight == OnShow(page) => Reflects(page.items, rows, page.kind, untold)
SecretRight ==
  ~unkeyed /\ ~page.gone /\ page.secret # NoSecret /\ page.secret.id \in Live => page.secret.row = rows[page.secret.id].key
PageInv ==
  undisturbed =>
    /\ PageTyped /\ OneFlight /\ ListRight /\ SecretRight
    /\ \A s \in Flights : Busy(s) /\ flight[s].st = "ok" => Awaiting(flight[s])

LEMMA SetToSeqLists ==
  ASSUME NEW S, IsFiniteSet(S)
  PROVE  /\ SetToSeq(S) \in Seq(S)
         /\ \A m, n \in 1..Len(SetToSeq(S)) : SetToSeq(S)[m] = SetToSeq(S)[n] => m = n
         /\ \A x \in S : \E n \in 1..Len(SetToSeq(S)) : SetToSeq(S)[n] = x
<1> DEFINE N == Cardinality(S)
<1>1. N \in Nat /\ ExistsBijection(1..N, S)
  BY FS_CardinalityType
<1>2. PICK b : b \in Bijection(1..N, S)
  BY <1>1 DEF ExistsBijection
<1>3. b \in [1..N -> S] /\ IsInjective(b)
  BY <1>2 DEF Bijection, Injection, IsInjective
<1> DEFINE q == SetToSeq(S)
<1>4. q \in [1..N -> S] /\ IsInjective(q)
  BY <1>3 DEF SetToSeq
<1> HIDE DEF N, q
<1>5. q \in Seq(S) /\ Len(q) = N
  BY <1>1, <1>4
<1>6. q \in Injection(1..N, S)
  BY <1>4 DEF Injection, IsInjective
<1>7. IsFiniteSet(1..N) /\ Cardinality(1..N) = N
  BY <1>1, FS_Interval
<1>8. q \in Surjection(1..N, S)
  BY <1>6, <1>7, FS_Injection DEF N
<1> QED BY <1>4, <1>5, <1>8 DEF Surjection, IsInjective, q

LEMMA LiveRows == NoRow \notin Held
BY DEF NoRow, Held, Vals

LEMMA ListingReflects ==
  ASSUME rows \in Table, NEW kind
  PROVE  Reflects(Listing, rows, kind, {})
<1> DEFINE Items == {Item(i, rows[i]) : i \in Live}
           image == [i \in Live |-> Item(i, rows[i])]
<1>1. IsFiniteSet(Live)
  <2>1. Live \in SUBSET Rows
    BY DEF Live
  <2> QED BY <2>1, PagesAssumption, FS_Subset
<1>2. IsFiniteSet(Items)
  <2>1. image \in Surjection(Live, Items)
    BY DEF Surjection
  <2> QED BY <2>1, <1>1, FS_Surjection
<1>3. Items \subseteq Entry
  BY DEF Live, Table, Entry, Item
<1>4. Listing = SetToSeq(Items)
  BY DEF Listing
<1> HIDE DEF Items
<1> DEFINE q == SetToSeq(Items)
<1>5. /\ q \in Seq(Items)
      /\ \A m, n \in 1..Len(q) : q[m] = q[n] => m = n
      /\ \A x \in Items : \E n \in 1..Len(q) : q[n] = x
  BY <1>2, SetToSeqLists
<1> HIDE DEF q
<1>6. q \in Seq(Entry)
  BY <1>3, <1>5, SeqMonotonic
<1>7. ASSUME NEW n \in 1..Len(q)
      PROVE  q[n].id \in Live /\ q[n] = Item(q[n].id, rows[q[n].id]) /\ q[n].row = rows[q[n].id]
  <2>1. q[n] \in Items
    BY <1>5
  <2>2. PICK i \in Live : q[n] = Item(i, rows[i])
    BY <2>1 DEF Items
  <2>3. q[n].id = i /\ q[n].row = rows[i]
    BY <2>2 DEF Item
  <2> QED BY <2>2, <2>3
<1>8. ASSUME NEW m \in 1..Len(q), NEW n \in 1..Len(q), q[m].id = q[n].id
      PROVE  m = n
  <2>1. q[m] = Item(q[m].id, rows[q[m].id]) /\ q[n] = Item(q[n].id, rows[q[n].id])
    BY <1>7
  <2>2. q[m] = q[n]
    BY <2>1, <1>8
  <2> QED BY <2>2, <1>5
<1>9. \A n \in 1..Len(q) : rows[q[n].id] # NoRow /\ AsServed(q[n], rows, kind)
  <2> TAKE n \in 1..Len(q)
  <2>1. q[n].id \in Live /\ q[n].row = rows[q[n].id]
    BY <1>7
  <2>2. rows[q[n].id] \in Held
    BY <2>1 DEF Live, Table
  <2> QED BY <2>1, <2>2 DEF Live, AsServed, Held
<1>10. \A j \in Rows : rows[j] # NoRow => Has(q, j)
  <2> TAKE j \in Rows
  <2>1. rows[j] # NoRow => Item(j, rows[j]) \in Items
    BY DEF Items, Live
  <2>2. rows[j] # NoRow => \E n \in 1..Len(q) : q[n] = Item(j, rows[j])
    BY <2>1, <1>5
  <2> QED BY <2>2 DEF Has, Item
<1> QED BY <1>4, <1>6, <1>8, <1>9, <1>10 DEF Reflects, q

\* handlers put one more row of the list right
LEMMA AddReflects ==
  ASSUME NEW list, NEW table \in Table, NEW kind, NEW S, NEW i \in Rows, table[i] \in Held,
         Reflects(list, table, kind, S), ~Has(list, i)
  PROVE  Reflects(Append(list, Item(i, table[i])), table, kind, S \ {i})
<1> DEFINE it == Item(i, table[i])
           q == Append(list, it)
<1>1. it \in Entry /\ it.id = i /\ it.row = table[i] /\ list \in Seq(Entry)
  BY DEF Entry, Item, Reflects
<1> HIDE DEF it
<1>2. q \in Seq(Entry) /\ Len(q) = Len(list) + 1 /\ Len(list) \in Nat /\ q[Len(q)] = it
      /\ \A n \in 1..Len(list) : q[n] = list[n]
  BY <1>1, AppendProperties
<1> HIDE DEF q
<1>3. \A n \in 1..Len(q) : n = Len(q) \/ n \in 1..Len(list)
  BY <1>2
<1>4. \A n \in 1..Len(list) : n \in 1..Len(q) /\ n # Len(q) /\ q[n] = list[n] /\ q[n].id # i
  BY <1>2 DEF Has
<1>5. AsServed(it, table, kind)
  BY <1>1 DEF AsServed, Held
<1>6. \A m, n \in 1..Len(q) : q[m].id = q[n].id => m = n
  BY <1>1, <1>2, <1>3, <1>4 DEF Reflects
<1>7. \A n \in 1..Len(q) : q[n].id \notin S \ {i} => table[q[n].id] # NoRow /\ AsServed(q[n], table, kind)
  BY <1>1, <1>2, <1>3, <1>4, <1>5, LiveRows DEF Reflects
<1>8. \A j \in Rows \ (S \ {i}) : table[j] # NoRow => Has(q, j)
  <2> SUFFICES ASSUME NEW j \in Rows \ (S \ {i}), table[j] # NoRow PROVE Has(q, j)
    OBVIOUS
  <2>1. CASE j = i
    <3>1. Len(q) \in 1..Len(q) /\ q[Len(q)].id = i
      BY <1>1, <1>2
    <3> QED BY <2>1, <3>1 DEF Has
  <2>2. CASE j # i
    <3>1. Has(list, j)
      BY <2>2 DEF Reflects
    <3> QED BY <3>1, <1>4 DEF Has
  <2> QED BY <2>1, <2>2
<1> QED BY <1>2, <1>6, <1>7, <1>8 DEF Reflects, q, it

\* the items of a list with each id kept
LEMMA MappedReflects ==
  ASSUME NEW list, NEW table \in Table, NEW kind, NEW S, NEW i,
         Reflects(list, table, kind, S), i \in Rows => (table[i] # NoRow => Has(list, i)),
         NEW q, q = [n \in DOMAIN list |-> q[n]],
         \A n \in 1..Len(list) : q[n] \in Entry /\ q[n].id = list[n].id,
         \A n \in 1..Len(list) : AsServed(list[n], table, kind) \/ list[n].id = i => AsServed(q[n], table, kind),
         \A n \in 1..Len(list) : list[n].id = i => table[i] # NoRow
  PROVE  Reflects(q, table, kind, S \ {i})
<1>1. list \in Seq(Entry)
  BY DEF Reflects
<1>2. q \in Seq(Entry) /\ Len(q) = Len(list)
  <2>1. Len(list) \in Nat /\ DOMAIN list = 1..Len(list)
    BY <1>1
  <2>2. q \in [1..Len(list) -> Entry]
    BY <2>1
  <2> QED BY <2>1, <2>2
<1>3. ASSUME NEW m \in 1..Len(q), NEW n \in 1..Len(q), q[m].id = q[n].id
      PROVE  m = n
  <2>1. list[m].id = list[n].id
    BY <1>2, <1>3
  <2> QED BY <2>1, <1>2 DEF Reflects
<1>4. \A n \in 1..Len(q) : q[n].id \notin S \ {i} => table[q[n].id] # NoRow /\ AsServed(q[n], table, kind)
  BY <1>2 DEF Reflects
<1>5. \A j \in Rows \ (S \ {i}) : table[j] # NoRow => Has(q, j)
  <2> SUFFICES ASSUME NEW j \in Rows \ (S \ {i}), table[j] # NoRow PROVE Has(list, j)
    BY <1>2 DEF Has
  <2> QED BY DEF Reflects
<1> QED BY <1>2, <1>3, <1>4, <1>5 DEF Reflects

LEMMA ReplaceReflects ==
  ASSUME NEW list, NEW table \in Table, NEW kind, NEW S, NEW i \in Rows, table[i] \in Held,
         Reflects(list, table, kind, S), Has(list, i)
  PROVE  Reflects([n \in DOMAIN list |-> IF list[n].id = i THEN Item(i, table[i]) ELSE list[n]], table, kind, S \ {i})
<1> DEFINE q == [n \in DOMAIN list |-> IF list[n].id = i THEN Item(i, table[i]) ELSE list[n]]
<1>1. list \in Seq(Entry) /\ DOMAIN list = 1..Len(list)
  BY DEF Reflects
<1>2. Item(i, table[i]) \in Entry /\ Item(i, table[i]).id = i /\ AsServed(Item(i, table[i]), table, kind)
  BY DEF Item, Entry, AsServed, Held
<1>3. \A n \in 1..Len(list) : q[n] \in Entry /\ q[n].id = list[n].id
  BY <1>1, <1>2
<1>4. \A n \in 1..Len(list) : AsServed(list[n], table, kind) \/ list[n].id = i => AsServed(q[n], table, kind)
  BY <1>1, <1>2
<1>5. q = [n \in DOMAIN list |-> q[n]] /\ table[i] # NoRow
  BY LiveRows
<1> HIDE DEF q
<1>6. Reflects(q, table, kind, S \ {i})
  BY <1>3, <1>4, <1>5, MappedReflects
<1> QED BY <1>6 DEF q

\* the switch of providers
Switched(list, i, row) ==
  [n \in DOMAIN list |-> IF list[n].id = i THEN Item(i, row) ELSE [list[n] EXCEPT !.row.on = @ /\ ~row.on]]

LEMMA SwitchReflects ==
  ASSUME NEW list, NEW table \in Table, NEW S, NEW i \in Rows, table[i] \in Held,
         Reflects(list, table, "providers", S), Has(list, i)
  PROVE  Reflects(Switched(list, i, table[i]), table, "providers", S \ {i})
<1> DEFINE q == Switched(list, i, table[i])
<1>1. list \in Seq(Entry) /\ DOMAIN list = 1..Len(list)
  BY DEF Reflects
<1>2. Item(i, table[i]) \in Entry /\ Item(i, table[i]).id = i /\ AsServed(Item(i, table[i]), table, "providers")
  BY DEF Item, Entry, AsServed, Held
<1>3. ASSUME NEW it \in Entry, NEW b \in BOOLEAN
      PROVE  LET x == [it EXCEPT !.row.on = @ /\ ~b] IN
             x \in Entry /\ x.id = it.id /\ (AsServed(it, table, "providers") => AsServed(x, table, "providers"))
  <2>1. table[it.id] \in Held \cup {NoRow}
    BY DEF Entry, Table
  <2>2. it.row \in Held /\ it = [id |-> it.id, row |-> it.row] /\ it.id \in Rows
    BY DEF Entry
  <2> DEFINE r == [it.row EXCEPT !.on = @ /\ ~b]
  <2>3. r \in Held /\ r.val = it.row.val /\ r.key = it.row.key
    BY <2>2 DEF Held
  <2>4. [it EXCEPT !.row.on = @ /\ ~b] = [id |-> it.id, row |-> r]
    BY <2>2
  <2> HIDE DEF r
  <2>5. AsServed(it, table, "providers") => r = [table[it.id] EXCEPT !.on = r.on]
    BY <2>1, <2>2, <2>3 DEF AsServed, Held, NoRow
  <2> QED BY <2>2, <2>3, <2>4, <2>5 DEF Entry, AsServed
<1>4. \A n \in 1..Len(list) : list[n] \in Entry
  BY <1>1
<1>5. table[i].on \in BOOLEAN
  BY DEF Held
<1>6. \A n \in 1..Len(list) : q[n] \in Entry /\ q[n].id = list[n].id
  BY <1>1, <1>2, <1>3, <1>4, <1>5 DEF Switched
<1>7. \A n \in 1..Len(list) : AsServed(list[n], table, "providers") \/ list[n].id = i => AsServed(q[n], table, "providers")
  BY <1>1, <1>2, <1>3, <1>4, <1>5 DEF Switched
<1>8. q = [n \in DOMAIN list |-> q[n]] /\ table[i] # NoRow
  BY LiveRows DEF Switched
<1> HIDE DEF q
<1>9. Reflects(q, table, "providers", S \ {i})
  BY <1>6, <1>7, <1>8, MappedReflects
<1> QED BY <1>9 DEF q

LEMMA RemoveReflects ==
  ASSUME NEW list, NEW table, NEW kind, NEW S, NEW i, table[i] = NoRow \/ i \notin Rows, Reflects(list, table, kind, S)
  PROVE  Reflects(Without(list, i), table, kind, S \ {i})
<1> DEFINE w == Without(list, i)
<1>1. list \in Seq(Entry)
  BY DEF Reflects
<1>2. w \in Seq(Entry)
  BY <1>1, WithoutPicks
<1>3. PICK h : PickedBy(h, w, list, i, Len(list))
  BY <1>1, WithoutPicks
<1> HIDE DEF w
<1>4. \A k \in 1..Len(w) : h[k] \in 1..Len(list) /\ w[k] = list[h[k]] /\ w[k].id # i
  BY <1>3 DEF PickedBy
<1>5. ASSUME NEW m \in 1..Len(w), NEW n \in 1..Len(w), w[m].id = w[n].id
      PROVE  m = n
  <2>1. h[m] = h[n]
    BY <1>4, <1>5 DEF Reflects
  <2>2. ~(m < n) /\ ~(n < m)
    BY <2>1, <1>3, <1>4 DEF PickedBy
  <2> QED BY <2>2
<1>6. \A n \in 1..Len(w) : w[n].id \notin S \ {i} => table[w[n].id] # NoRow /\ AsServed(w[n], table, kind)
  BY <1>4 DEF Reflects
<1>7. \A j \in Rows \ (S \ {i}) : table[j] # NoRow => Has(w, j)
  <2> SUFFICES ASSUME NEW j \in Rows \ (S \ {i}), table[j] # NoRow PROVE Has(w, j)
    OBVIOUS
  <2>1. j # i /\ Has(list, j)
    BY DEF Reflects
  <2>2. PICK m \in 1..Len(list) : list[m].id = j
    BY <2>1 DEF Has
  <2>3. PICK k \in 1..Len(w) : h[k] = m
    BY <2>1, <2>2, <1>3 DEF PickedBy
  <2> QED BY <2>2, <2>3, <1>4 DEF Has
<1> QED BY <1>2, <1>5, <1>6, <1>7 DEF Reflects, w

Replaced(list, i, row) == [n \in DOMAIN list |-> IF list[n].id = i THEN Item(i, row) ELSE list[n]]

\* what each page makes of an answer, kind by kind and operation by operation
Outcome(q, f) ==
  /\ IsPage(q) /\ q.kind = page.kind
  /\ q.secret = IF ok(f) /\ page.kind = "webhooks" /\ f.op \in {"create", "rotate"} THEN Item(f.id, f.row.key) ELSE page.secret
  /\ OnShow(q) =>
       /\ ~ok(f) => OnShow(page) /\ q.items = page.items
       /\ ok(f) =>
            CASE f.op \in {"list", "reload"} -> q.items = f.list
              [] f.op = "toggle" /\ page.kind = "providers" -> q.items = Switched(f.seen, f.id, f.row)
              [] f.op \in Adds /\ page.kind # "admins" -> OnShow(page) /\ q.items = Append(page.items, Item(f.id, f.row))
              [] f.op \in Changes /\ ~(f.op = "toggle" /\ page.kind = "providers") ->
                   OnShow(page) /\ q.items = Replaced(page.items, f.id, f.row)
              [] f.op = "archive" -> OnShow(page) /\ q.items = Without(page.items, f.id)
              [] OTHER -> OnShow(page) /\ q.items = page.items

LEMMA LookupOutcome ==
  ASSUME NEW f, IsPage(page), f.op = "lookup", page.kind \in {"projects", "diagrams"}
  PROVE  Outcome(LookedUp(page, f), f)
<1> DEFINE q == LookedUp(page, f)
<1>1. \/ q = page
      \/ q = [page EXCEPT !.can = page.may]
      \/ q = [page EXCEPT !.notFound = TRUE]
  BY DEF LookedUp
<1> HIDE DEF q
<1>2. /\ IsPage(q) /\ q.kind = page.kind /\ q.secret = page.secret /\ q.items = page.items
      /\ q.status = page.status /\ (OnShow(q) => OnShow(page))
  BY <1>1 DEF IsPage, PageFields, OnShow
<1>3. /\ f.op \notin Adds \cup Changes \cup {"list", "reload", "archive"}
      /\ page.kind \notin {"admins", "providers", "webhooks"}
  BY DEF Adds, Changes
<1>4. Outcome(q, f)
  BY <1>2, <1>3 DEF Outcome
<1> QED BY <1>4 DEF q

LEMMA HandlerOutcome ==
  ASSUME NEW f, IsPage(page), page.kind \in Kinds, ~page.gone, f.op \in OpsOf(page.kind)
  PROVE  Outcome(Handler(page, f), f)
<1> USE DEF Outcome, IsPage, PageFields, Handler, OnShow, OpsOf, Client, ok, Adds, Changes, SetItems, SetError, AddItem, RemoveItem,
            ReplaceItem, Replaced, Listed, Saved, Archived
<1>1. CASE page.kind = "workspaces"
  <2> USE DEF WorkspacesHandler, ResourceClient, Leave
  <2>1. CASE f.op = "list"
    BY <1>1, <2>1
  <2>2. CASE f.op = "create"
    BY <1>1, <2>2
  <2>3. CASE f.op = "rename"
    BY <1>1, <2>3
  <2>4. CASE f.op = "archive"
    BY <1>1, <2>4
  <2>5. CASE f.op = "bundle"
    BY <1>1, <2>5
  <2> QED BY <1>1, <2>1, <2>2, <2>3, <2>4, <2>5
<1>2. CASE page.kind = "projects"
  <2> USE DEF ProjectsHandler, ProjectsLoad, ResourceClient, LookedUp, ContainerArchived
  <2>1. CASE f.op = "lookup"
    <3> HIDE DEF Outcome, LookedUp
    <3>1. Handler(page, f) = LookedUp(page, f)
      BY <1>2, <2>1
    <3> QED BY <3>1, <1>2, <2>1, LookupOutcome
  <2>2. CASE f.op = "list"
    BY <1>2, <2>2
  <2>3. CASE f.op = "create"
    BY <1>2, <2>3
  <2>4. CASE f.op = "rename"
    BY <1>2, <2>4
  <2>5. CASE f.op = "archive"
    BY <1>2, <2>5
  <2>6. CASE f.op = "container"
    BY <1>2, <2>6
  <2> QED BY <1>2, <2>1, <2>2, <2>3, <2>4, <2>5, <2>6
<1>3. CASE page.kind = "diagrams"
  <2> USE DEF DiagramsHandler, ResourceClient, Leave, LookedUp, ContainerArchived
  <2>1. CASE f.op = "lookup"
    <3> HIDE DEF Outcome, LookedUp
    <3>1. Handler(page, f) = LookedUp(page, f)
      BY <1>3, <2>1
    <3> QED BY <3>1, <1>3, <2>1, LookupOutcome
  <2>2. CASE f.op = "list"
    BY <1>3, <2>2
  <2>3. CASE f.op = "create"
    BY <1>3, <2>3
  <2>4. CASE f.op = "rename"
    BY <1>3, <2>4
  <2>5. CASE f.op = "archive"
    BY <1>3, <2>5
  <2>6. CASE f.op = "container"
    BY <1>3, <2>6
  <2> QED BY <1>3, <2>1, <2>2, <2>3, <2>4, <2>5, <2>6
<1>4. CASE page.kind = "members"
  <2> USE DEF MembersHandler, MembersLoad, MemberClient
  <2>1. CASE f.op = "list"
    BY <1>4, <2>1
  <2>2. CASE f.op = "find"
    BY <1>4, <2>2
  <2>3. CASE f.op = "add"
    BY <1>4, <2>3
  <2>4. CASE f.op = "change"
    BY <1>4, <2>4
  <2>5. CASE f.op = "archive"
    BY <1>4, <2>5
  <2> QED BY <1>4, <2>1, <2>2, <2>3, <2>4, <2>5
<1>5. CASE page.kind = "admins"
  <2> USE DEF AdminsHandler, AdminsLoad, OrganizationAdminClient
  <2>1. CASE f.op = "list"
    BY <1>5, <2>1
  <2>2. CASE f.op = "reload"
    BY <1>5, <2>2
  <2>3. CASE f.op = "add"
    BY <1>5, <2>3
  <2>4. CASE f.op = "archive"
    BY <1>5, <2>4
  <2> QED BY <1>5, <2>1, <2>2, <2>3, <2>4
<1>6. CASE page.kind = "webhooks"
  <2> USE DEF WebhooksHandler, WebhookClient
  <2>1. CASE f.op = "list"
    BY <1>6, <2>1
  <2>2. CASE f.op = "create"
    BY <1>6, <2>2
  <2>3. CASE f.op = "edit"
    BY <1>6, <2>3
  <2>4. CASE f.op = "toggle"
    BY <1>6, <2>4
  <2>5. CASE f.op = "rotate"
    BY <1>6, <2>5
  <2>6. CASE f.op = "archive"
    BY <1>6, <2>6
  <2> QED BY <1>6, <2>1, <2>2, <2>3, <2>4, <2>5, <2>6
<1>7. CASE page.kind = "providers"
  <2> USE DEF ProvidersHandler, AiProviderClient, Switched
  <2>1. CASE f.op = "list"
    BY <1>7, <2>1
  <2>2. CASE f.op = "create"
    BY <1>7, <2>2
  <2>3. CASE f.op = "edit"
    BY <1>7, <2>3
  <2>4. CASE f.op = "toggle"
    BY <1>7, <2>4
  <2>5. CASE f.op = "test"
    BY <1>7, <2>5
  <2> QED BY <1>7, <2>1, <2>2, <2>3, <2>4, <2>5
<1> QED BY <1>1, <1>2, <1>3, <1>4, <1>5, <1>6, <1>7, PagesAssumption

LEMMA AnswerShows ==
  ASSUME PageTyped, ListRight, SecretRight, ~page.gone, NEW s \in Flights, Busy(s), flight[s].st # "sent",
         flight[s].st = "ok" => Awaiting(flight[s])
  PROVE  LET f == flight[s]
             q == Handler(page, f) IN
         /\ OnShow(q) => Reflects(q.items, rows, q.kind, untold \ Told(f))
         /\ ~(unkeyed /\ ~(ok(f) /\ f.op \in {"create", "rotate"})) /\ q.secret # NoSecret /\ q.secret.id \in Live
              => q.secret.row = rows[q.secret.id].key
<1> DEFINE f == flight[s]
           q == Handler(page, f)
<1>1. /\ RequestTyped(f) /\ page.kind \in Kinds /\ rows \in Table /\ IsPage(page) /\ (page.kind # "webhooks" => page.secret = NoSecret)
      /\ untold \subseteq Rows /\ unkeyed \in BOOLEAN
  BY DEF PageTyped
<1>2. Outcome(q, f)
  BY <1>1, HandlerOutcome DEF RequestTyped, TypedOn
<1>3. f.st = "ok" => Awaiting(f)
  OBVIOUS
<1>4. f.op \in Adds \cup Changes \cup {"archive"} => f.id \in Rows
  BY <1>1 DEF RequestTyped, TypedOn
<1> HIDE DEF f, q
<1>5. OnShow(page) => Reflects(page.items, rows, page.kind, untold)
  BY DEF ListRight
<1>6. ASSUME ~(unkeyed /\ ~(ok(f) /\ f.op \in {"create", "rotate"})), q.secret # NoSecret, q.secret.id \in Live
      PROVE  q.secret.row = rows[q.secret.id].key
  <2>1. CASE ok(f) /\ page.kind = "webhooks" /\ f.op \in {"create", "rotate"}
    <3>1. q.secret = Item(f.id, f.row.key)
      BY <2>1, <1>2 DEF Outcome
    <3>2. f.row = rows[f.id]
      BY <2>1, <1>3 DEF Awaiting, Adds, Changes, ok
    <3> QED BY <3>1, <3>2 DEF Item
  <2>2. CASE ~(ok(f) /\ page.kind = "webhooks" /\ f.op \in {"create", "rotate"})
    <3>1. q.secret = page.secret
      BY <2>2, <1>2 DEF Outcome
    <3>2. page.kind = "webhooks"
      BY <3>1, <1>1, <1>6
    <3>3. ~unkeyed
      BY <3>2, <2>2, <1>6
    <3> QED BY <3>1, <3>3, <1>6 DEF SecretRight
  <2> QED BY <2>1, <2>2
<1>7. ASSUME OnShow(q)
      PROVE  Reflects(q.items, rows, page.kind, untold \ Told(f))
  <2>1. CASE ~ok(f)
    <3>1. OnShow(page) /\ q.items = page.items
      BY <2>1, <1>2, <1>7 DEF Outcome
    <3>2. untold \ Told(f) = untold
      BY <2>1 DEF Told
    <3> QED BY <3>1, <3>2, <1>5
  <2>2. CASE ok(f) /\ f.op \in {"list", "reload"}
    <3>1. q.items = f.list
      BY <2>2, <1>2, <1>7 DEF Outcome, Adds, Changes
    <3>2. Told(f) = Rows
      BY <2>2 DEF Told, Writes
    <3>3. untold \ Told(f) = {}
      BY <3>2, <1>1
    <3> QED BY <3>1, <3>3, <2>2, <1>3 DEF ok, Awaiting
  <2>3. CASE ok(f) /\ f.op = "toggle" /\ page.kind = "providers"
    <3>1. q.items = Switched(f.seen, f.id, f.row)
      BY <2>3, <1>2, <1>7 DEF Outcome, Adds, Changes
    <3>2. OnShow(page) /\ f.seen = page.items /\ Has(page.items, f.id)
      BY <2>3, <1>1 DEF RequestTyped, TypedOn, Changes
    <3>3. f.row = rows[f.id] /\ rows[f.id] \in Held
      BY <2>3, <1>3 DEF Awaiting, Changes, ok
    <3>4. Told(f) = {f.id}
      BY <2>3 DEF Told, Writes
    <3>5. Reflects(page.items, rows, "providers", untold) /\ f.id \in Rows
      BY <3>2, <2>3, <1>4, <1>5 DEF Changes
    <3>6. Reflects(Switched(page.items, f.id, rows[f.id]), rows, "providers", untold \ {f.id})
      BY <3>2, <3>3, <3>5, <1>1, SwitchReflects
    <3> QED BY <3>1, <3>2, <3>3, <3>4, <3>6, <2>3
  <2>4. CASE ok(f) /\ f.op \in Adds /\ page.kind # "admins"
    <3>1. OnShow(page) /\ q.items = Append(page.items, Item(f.id, f.row))
      BY <2>4, <1>2, <1>7 DEF Outcome, Adds, Changes
    <3>2. f.row = rows[f.id] /\ rows[f.id] \in Held /\ ~Has(page.items, f.id)
      BY <2>4, <3>1, <1>3 DEF Awaiting, ok
    <3>3. Told(f) = {f.id}
      BY <2>4 DEF Told, Writes, Adds
    <3>4. Reflects(page.items, rows, page.kind, untold) /\ f.id \in Rows
      BY <3>1, <2>4, <1>4, <1>5
    <3>5. Reflects(Append(page.items, Item(f.id, rows[f.id])), rows, page.kind, untold \ {f.id})
      BY <3>2, <3>4, <1>1, AddReflects
    <3> QED BY <3>1, <3>2, <3>3, <3>5
  <2>5. CASE ok(f) /\ f.op \in Adds /\ page.kind = "admins"
    <3>1. f.op = "add"
      BY <2>5, <1>1 DEF RequestTyped, TypedOn, OpsOf, Client, OrganizationAdminClient, Adds
    <3>2. OnShow(page) /\ q.items = page.items
      BY <2>5, <3>1, <1>2, <1>7 DEF Outcome, Adds, Changes
    <3>3. untold \ Told(f) = untold
      BY <2>5, <3>1 DEF Told
    <3> QED BY <3>2, <3>3, <1>5
  <2>6. CASE ok(f) /\ f.op \in Changes /\ ~(f.op = "toggle" /\ page.kind = "providers")
    <3>1. OnShow(page) /\ q.items = Replaced(page.items, f.id, f.row)
      BY <2>6, <1>2, <1>7 DEF Outcome, Changes, Adds
    <3>2. f.row = rows[f.id] /\ rows[f.id] \in Held
      BY <2>6, <1>3 DEF Awaiting, ok
    <3>3. Has(page.items, f.id)
      BY <2>6, <3>1, <1>1 DEF RequestTyped, TypedOn
    <3>4. Told(f) = {f.id}
      BY <2>6 DEF Told, Writes, Changes
    <3>5. Reflects(page.items, rows, page.kind, untold) /\ f.id \in Rows
      BY <3>1, <2>6, <1>4, <1>5
    <3>6. Reflects(Replaced(page.items, f.id, rows[f.id]), rows, page.kind, untold \ {f.id})
      BY <3>2, <3>3, <3>5, <1>1, ReplaceReflects DEF Replaced
    <3> QED BY <3>1, <3>2, <3>4, <3>6
  <2>7. CASE ok(f) /\ f.op = "archive"
    <3>1. OnShow(page) /\ q.items = Without(page.items, f.id)
      BY <2>7, <1>2, <1>7 DEF Outcome, Changes, Adds
    <3>2. rows[f.id] = NoRow
      BY <2>7, <1>3 DEF Awaiting, ok
    <3>3. Told(f) = {f.id}
      BY <2>7 DEF Told, Writes
    <3> QED BY <3>1, <3>2, <3>3, <1>5, RemoveReflects
  <2>8. CASE ok(f) /\ f.op \notin Adds \cup Changes \cup {"archive", "list", "reload"}
    <3>1. OnShow(page) /\ q.items = page.items
      BY <2>8, <1>2, <1>7 DEF Outcome, Changes, Adds
    <3>2. untold \ Told(f) = untold
      BY <2>8 DEF Told, Writes, Adds, Changes
    <3> QED BY <3>1, <3>2, <1>5
  <2> QED BY <2>1, <2>2, <2>3, <2>4, <2>5, <2>6, <2>7, <2>8
<1>8. q.kind = page.kind
  BY <1>2 DEF Outcome
<1> QED BY <1>6, <1>7, <1>8 DEF f, q

-----------------------------------------------------------------------------
(* The steps of a list page                                                *)

LEMMA PageInvInit == PageInit => PageInv
<1> SUFFICES ASSUME PageInit PROVE PageInv
  OBVIOUS
<1>1. /\ IsPage(page) /\ page.kind \in Kinds /\ page.secret = NoSecret /\ page.status = "loading"
      /\ flight = [s \in Flights |-> IF s = (CHOOSE t \in Flights : TRUE) THEN Request(Opening(page.kind), NoId, NoRow) ELSE Grounded]
  BY DEF PageInit, IsPage, PageFields
<1>2. rows \in Table
  <2>1. [val : Vals, on : {FALSE}, key : {0}] \subseteq Held
    <3>1. FALSE \in BOOLEAN /\ 0 \in 0..1
      OBVIOUS
    <3> QED BY <3>1 DEF Held
  <2>2. rows \in [Rows -> {NoRow} \cup [val : Vals, on : {FALSE}, key : {0}]]
    BY DEF PageInit
  <2>3. \A i \in Rows : rows[i] \in {NoRow} \cup Held
    BY <2>1, <2>2
  <2> QED BY <2>2, <2>3 DEF Table
<1>3. ListRight /\ SecretRight
  BY <1>1 DEF OnShow, ListRight, SecretRight
<1>4. RequestTyped(Request(Opening(page.kind), NoId, NoRow))
  <2>1. Opening(page.kind) \in OpsOf(page.kind) /\ Opening(page.kind) \in {"list", "lookup"}
    BY <1>1, PagesAssumption DEF Opening, OpsOf, Client, ResourceClient, MemberClient, OrganizationAdminClient, WebhookClient, AiProviderClient
  <2> QED BY <2>1 DEF RequestTyped, TypedOn, Request, IsFlight, FlightFields, Adds, Changes
<1>5. \A s \in Flights : Busy(s) => flight[s] = Request(Opening(page.kind), NoId, NoRow) /\ s = CHOOSE t \in Flights : TRUE
  BY <1>1 DEF Busy, Grounded
<1>6. PageTyped
  <2>1. untold = {} /\ unkeyed = FALSE
    BY DEF PageInit
  <2> QED BY <2>1, <1>1, <1>2, <1>4, <1>5 DEF PageTyped
<1>7. OneFlight
  BY <1>5 DEF OneFlight
<1>8. \A s \in Flights : Busy(s) => flight[s].st # "ok"
  BY <1>5 DEF Request
<1> QED BY <1>3, <1>6, <1>7, <1>8 DEF PageInv

\* what only moves the dialogs leaves the lists as they are
LEMMA FaceStep ==
  ASSUME PageInv, undisturbed, UNCHANGED <<rows, flight, pageHistory>>,
         IsPage(page)', page'.kind = page.kind, page'.items = page.items, page'.status = page.status,
         page'.notFound = page.notFound, page'.gone = page.gone, page'.secret \in {page.secret, NoSecret}
  PROVE  PageInv'
<1>1. (OnShow(page') <=> OnShow(page)) /\ UNCHANGED <<undisturbed, untold, unkeyed>>
  BY DEF OnShow, pageHistory
<1>2. PageTyped'
  BY <1>1 DEF PageInv, PageTyped, RequestTyped, TypedOn, Busy
<1>3. ListRight' /\ SecretRight'
  BY <1>1 DEF PageInv, ListRight, SecretRight, Live
<1>4. OneFlight'
  BY DEF PageInv, OneFlight, Busy
<1>5. \A s \in Flights : Awaiting(flight[s]) => Awaiting(flight[s])'
  BY <1>1 DEF Awaiting
<1>6. \A s \in Flights : Busy(s)' /\ flight'[s].st = "ok" => Awaiting(flight[s])'
  BY <1>5 DEF PageInv, Busy
<1> QED BY <1>2, <1>3, <1>4, <1>6 DEF PageInv

LEMMA DialogSteps ==
  ASSUME PageInv, undisturbed, (\E i \in Rows : StartEdit(i) \/ RequestArchive(i)) \/ DismissSecret
  PROVE  PageInv'
<1>1. IsPage(page)
  BY DEF PageInv, PageTyped
<1>2. CASE \E i \in Rows : StartEdit(i)
  <2>1. PICK i \in Rows : StartEdit(i)
    BY <1>2
  <2>2. page' = [page EXCEPT !.editing = IF @ = i THEN NoId ELSE i] /\ UNCHANGED <<rows, flight, pageHistory>>
    BY <2>1 DEF StartEdit
  <2> QED BY <1>1, <2>2, FaceStep DEF IsPage, PageFields
<1>3. CASE \E i \in Rows : RequestArchive(i)
  <2>1. PICK i \in Rows : RequestArchive(i)
    BY <1>3
  <2>2. PICK d : page' = [page EXCEPT !.dialog = d]
    BY <2>1 DEF RequestArchive
  <2>3. UNCHANGED <<rows, flight, pageHistory>>
    BY <2>1 DEF RequestArchive
  <2> QED BY <1>1, <2>2, <2>3, FaceStep DEF IsPage, PageFields
<1>4. CASE DismissSecret
  <2>1. page' = [page EXCEPT !.secret = NoSecret] /\ UNCHANGED <<rows, flight, pageHistory>>
    BY <1>4 DEF DismissSecret
  <2> QED BY <1>1, <2>1, FaceStep DEF IsPage, PageFields
<1> QED BY <1>2, <1>3, <1>4

LEMMA OfferedRowIsShown ==
  ASSUME NEW op, NEW i, NEW v, page.kind \in Kinds, Offers(op, i, v), op \in Changes
  PROVE  Shown(i) /\ ~page.notFound
<1> USE DEF Offers, Changes, Client
<1>1. CASE page.kind = "workspaces"
  BY <1>1 DEF ResourceClient, WorkspacesOffer
<1>2. CASE page.kind = "projects"
  BY <1>2 DEF ResourceClient, ProjectsOffer
<1>3. CASE page.kind = "diagrams"
  BY <1>3 DEF ResourceClient, DiagramsOffer
<1>4. CASE page.kind = "members"
  BY <1>4 DEF MemberClient, MembersOffer
<1>5. CASE page.kind = "admins"
  BY <1>5 DEF OrganizationAdminClient
<1>6. CASE page.kind = "webhooks"
  BY <1>6 DEF WebhookClient, WebhooksOffer
<1>7. CASE page.kind = "providers"
  BY <1>7 DEF AiProviderClient, ProvidersOffer
<1> QED BY <1>1, <1>2, <1>3, <1>4, <1>5, <1>6, <1>7, PagesAssumption

LEMMA SubmitStep ==
  ASSUME PageInv, undisturbed, undisturbed', NEW op \in PageOps, NEW i \in Rows, NEW v \in Vals, SubmitForm(op, i, v)
  PROVE  PageInv'
<1> DEFINE row == CASE op \in {"create", "find", "add"} -> [Row(v) EXCEPT !.on = page.kind # "members"]
                    [] op \in {"rename", "change", "edit"} -> [RowOf(i) EXCEPT !.val = v]
                    [] op = "toggle" -> [RowOf(i) EXCEPT !.on = ~@]
                    [] OTHER -> NoRow
           f == Request(op, i, row)
           slot == CHOOSE s \in Flights : ~Busy(s)
<1>1. /\ ~page.gone /\ Offers(op, i, v) /\ (\A s \in Flights : ~Busy(s)) /\ UNCHANGED <<page, rows, untold, unkeyed>>
      /\ slot \in Flights /\ flight' = [flight EXCEPT ![slot] = f]
  BY DEF SubmitForm, Send
<1>2. PageTyped /\ ListRight /\ SecretRight
  BY DEF PageInv
<1>3. op \in Client(page.kind)
  BY <1>1 DEF Offers
<1>4. op \in Changes => OnShow(page) /\ Has(page.items, i) /\ RowOf(i) \in Held
  <2> SUFFICES ASSUME op \in Changes PROVE OnShow(page) /\ Has(page.items, i) /\ RowOf(i) \in Held
    OBVIOUS
  <2>1. Shown(i) /\ ~page.notFound
    BY <1>1, <1>2, OfferedRowIsShown DEF PageTyped
  <2>2. OnShow(page)
    BY <1>1, <2>1 DEF Shown, OnShow
  <2>3. page.items \in Seq(Entry)
    BY <1>2, <2>2 DEF ListRight, Reflects
  <2>4. DOMAIN page.items = 1..Len(page.items)
    BY <2>3
  <2>5. PICK n \in DOMAIN page.items : page.items[n].id = i
    BY <2>1 DEF Shown
  <2> DEFINE m == CHOOSE k \in DOMAIN page.items : page.items[k].id = i
  <2>6. m \in DOMAIN page.items
    BY <2>5
  <2>7. RowOf(i) = page.items[m].row
    BY DEF RowOf
  <2> HIDE DEF m
  <2>8. page.items[m] \in Entry
    BY <2>3, <2>4, <2>6
  <2>9. RowOf(i) \in Held
    BY <2>7, <2>8 DEF Entry
  <2>10. Has(page.items, i)
    BY <2>4, <2>5 DEF Has
  <2> QED BY <2>2, <2>9, <2>10
<1>5. op \in (Adds \cup Changes \cup {"find"}) \ {"rotate"} => row \in Held
  <2>1. CASE op \in {"create", "find", "add"}
    <3> DEFINE b == page.kind # "members"
    <3>1. row = [Row(v) EXCEPT !.on = b]
      BY <2>1
    <3>2. b \in BOOLEAN
      OBVIOUS
    <3> HIDE DEF b, row
    <3>3. [Row(v) EXCEPT !.on = b] \in Held
      BY <3>2 DEF Row, Held
    <3> QED BY <3>1, <3>3
  <2>2. CASE op \in {"rename", "change", "edit"}
    BY <2>2, <1>4 DEF Changes, Held
  <2>3. CASE op = "toggle"
    BY <2>3, <1>4 DEF Changes, Held
  <2> QED BY <2>1, <2>2, <2>3 DEF Adds, Changes
<1> HIDE DEF row
<1>6. RequestTyped(f)
  <2>1. f.op = op /\ f.id = i /\ f.row = row /\ f.st = "sent" /\ (op \in {"toggle", "find"} => f.seen = page.items) /\ IsFlight(f)
    BY DEF Request, IsFlight, FlightFields
  <2>2. /\ op = "find" => OnShow(page)
        /\ op = "add" => page.kind # "members"
    BY <1>1, <1>2, PagesAssumption DEF PageTyped, Offers, Client, ResourceClient, MemberClient, OrganizationAdminClient, WebhookClient,
       AiProviderClient, MembersOffer, CanManage, Shown, OnShow
  <2>3. op \in OpsOf(page.kind)
    BY <1>3 DEF OpsOf
  <2> HIDE DEF f
  <2> QED BY <2>1, <2>2, <2>3, <1>4, <1>5 DEF RequestTyped, TypedOn, Changes
<1>7. f.op = op /\ f.st = "sent"
  BY DEF Request
<1> HIDE DEF f, slot
<1>8. \A s \in Flights : flight'[s] = IF s = slot THEN f ELSE flight[s]
  BY <1>1, <1>2 DEF PageTyped
<1>9. \A s \in Flights : Busy(s)' => s = slot
  BY <1>1, <1>8 DEF Busy
<1>10. PageTyped'
  <2>1. flight' = [s \in Flights |-> flight'[s]]
    BY <1>1, <1>2 DEF PageTyped
  <2>2. \A s \in Flights : Busy(s)' => RequestTyped(flight[s])'
    BY <1>1, <1>6, <1>8, <1>9 DEF RequestTyped, TypedOn
  <2> QED BY <2>1, <2>2, <1>1, <1>2 DEF PageTyped
<1>11. OneFlight'
  BY <1>9 DEF OneFlight
<1>12. ListRight' /\ SecretRight'
  BY <1>1, <1>2 DEF ListRight, SecretRight, Live
<1>13. \A s \in Flights : Busy(s)' => flight'[s].st # "ok"
  BY <1>7, <1>8, <1>9
<1> QED BY <1>10, <1>11, <1>12, <1>13 DEF PageInv

LEMMA RefuseStep ==
  ASSUME PageInv, undisturbed, NEW s \in Flights, NEW lost \in BOOLEAN, Refuse(s, lost)
  PROVE  PageInv'
<1> DEFINE st == IF lost THEN "lost" ELSE "failed"
<1>1. /\ Busy(s) /\ flight[s].st = "sent" /\ UNCHANGED <<page, rows, undisturbed, untold, unkeyed>>
      /\ flight' = [flight EXCEPT ![s].st = st] /\ st \in {"lost", "failed"}
  BY DEF Refuse, pageHistory
<1> HIDE DEF st
<1>2. PageTyped /\ OneFlight /\ ListRight /\ SecretRight /\ RequestTyped(flight[s])
  BY <1>1 DEF PageInv, PageTyped
<1>3. /\ \A t \in Flights \ {s} : flight'[t] = flight[t]
      /\ flight'[s] = [flight[s] EXCEPT !.st = st]
      /\ flight' = [t \in Flights |-> flight'[t]]
  BY <1>1, <1>2 DEF PageTyped
<1>4. /\ IsFlight(flight'[s]) /\ flight'[s].st = st
      /\ \A x \in FlightFields \ {"st"} : flight'[s][x] = flight[s][x]
  BY <1>2, <1>3 DEF RequestTyped, TypedOn, IsFlight, FlightFields
<1>5. /\ flight'[s].op = flight[s].op /\ flight'[s].id = flight[s].id /\ flight'[s].row = flight[s].row
      /\ flight'[s].seen = flight[s].seen
  BY <1>4 DEF FlightFields
<1>6. \A t \in Flights : Busy(t)' => t = s
  BY <1>1, <1>2, <1>3 DEF OneFlight, Busy
<1>7. RequestTyped(flight[s])'
  BY <1>1, <1>2, <1>4, <1>5 DEF RequestTyped, TypedOn
<1>8. PageTyped'
  BY <1>1, <1>2, <1>3, <1>6, <1>7 DEF PageTyped
<1>9. OneFlight'
  BY <1>6 DEF OneFlight
<1>10. ListRight' /\ SecretRight'
  BY <1>1, <1>2 DEF ListRight, SecretRight, Live
<1>11. \A t \in Flights : Busy(t)' => flight'[t].st # "ok"
  BY <1>1, <1>4, <1>6
<1> QED BY <1>8, <1>9, <1>10, <1>11 DEF PageInv

LEMMA FollowupTyped ==
  ASSUME page.kind \in Kinds, NEW f, RequestTyped(f), page'.kind = page.kind, f.op = "find" => page' = page
  PROVE  LET g == Followup(page, f) IN
         g = Grounded \/ (g.st = "sent" /\ TypedOn(page', g))
<1> DEFINE g == Followup(page, f)
<1>1. f.op \in OpsOf(page.kind) /\ (f.op = "find" => f.id \in Rows /\ f.row \in Held /\ f.seen = page.items)
  BY DEF RequestTyped, TypedOn
<1>2. CASE f.op = "lookup" /\ ok(f)
  <2>1. g = Request("list", NoId, NoRow)
    BY <1>2 DEF Followup
  <2>2. "list" \in OpsOf(page.kind)
    BY PagesAssumption DEF OpsOf, Client, ResourceClient, MemberClient, OrganizationAdminClient, WebhookClient, AiProviderClient
  <2> HIDE DEF g
  <2>3. TypedOn(page', g)
    BY <2>1, <2>2 DEF RequestTyped, TypedOn, Request, IsFlight, FlightFields, Adds, Changes
  <2> QED BY <2>1, <2>3, <1>2 DEF Request, g
<1>3. CASE f.op = "find" /\ ok(f) /\ ~\E n \in DOMAIN f.seen : f.seen[n].id = f.id
  <2>1. g = Request("add", f.id, f.row)
    BY <1>3 DEF Followup
  <2>2. page.kind = "members" /\ "add" \in OpsOf(page.kind)
    BY <1>1, <1>3, PagesAssumption DEF OpsOf, Client, ResourceClient, MemberClient, OrganizationAdminClient, WebhookClient, AiProviderClient
  <2>3. OnShow(page) => ~Has(page.items, f.id)
    BY <1>1, <1>3 DEF Has
  <2> HIDE DEF g
  <2>4. TypedOn(page', g)
    BY <1>1, <1>3, <2>1, <2>2, <2>3 DEF RequestTyped, TypedOn, Request, IsFlight, FlightFields, Adds, Changes
  <2> QED BY <2>1, <2>2, <2>4 DEF Request, g
<1>4. CASE page.kind = "admins" /\ f.op = "add" /\ ok(f)
  <2>1. g = Request("reload", NoId, NoRow)
    BY <1>4 DEF Followup
  <2>2. "reload" \in OpsOf(page.kind)
    BY <1>4 DEF OpsOf
  <2> HIDE DEF g
  <2>3. TypedOn(page', g)
    BY <2>1, <2>2 DEF RequestTyped, TypedOn, Request, IsFlight, FlightFields, Adds, Changes
  <2> QED BY <2>1, <2>3 DEF Request, g
<1>5. CASE /\ ~(f.op = "lookup" /\ ok(f)) /\ ~(page.kind = "admins" /\ f.op = "add" /\ ok(f))
           /\ ~(f.op = "find" /\ ok(f) /\ ~\E n \in DOMAIN f.seen : f.seen[n].id = f.id)
  BY <1>5 DEF Followup
<1> QED BY <1>2, <1>3, <1>4, <1>5

LEMMA AnswerStep ==
  ASSUME PageInv, undisturbed, NEW s \in Flights, AnswerArrives(s)
  PROVE  PageInv'
<1> DEFINE f == flight[s]
           q == Handler(page, f)
           g == IF page'.gone THEN Grounded ELSE Followup(page, f)
           told == Told(f)
           keyed == ok(f) /\ f.op \in {"create", "rotate"}
<1>1. /\ Busy(s) /\ f.st # "sent" /\ UNCHANGED <<rows, undisturbed>>
      /\ page' = (IF page.gone THEN page ELSE q)
      /\ flight' = [flight EXCEPT ![s] = g]
      /\ untold' = untold \ told
      /\ unkeyed' = (unkeyed /\ ~keyed)
  BY DEF AnswerArrives
<1>2. /\ PageTyped /\ OneFlight /\ ListRight /\ SecretRight /\ RequestTyped(f)
      /\ f.st = "ok" => Awaiting(f)
  BY <1>1 DEF PageInv, PageTyped
<1>3. /\ IsPage(page) /\ page.kind \in Kinds /\ (page.kind # "webhooks" => page.secret = NoSecret) /\ rows \in Table
      /\ untold \subseteq Rows /\ unkeyed \in BOOLEAN
  BY <1>2 DEF PageTyped
<1>4. ~page.gone => Outcome(q, f)
  BY <1>2, <1>3, HandlerOutcome DEF RequestTyped, TypedOn
<1>5. IsPage(page)' /\ page'.kind = page.kind /\ (page'.kind # "webhooks" => page'.secret = NoSecret)
  BY <1>1, <1>3, <1>4 DEF Outcome
<1>6. /\ \A t \in Flights \ {s} : flight'[t] = flight[t]
      /\ flight'[s] = g /\ flight' = [t \in Flights |-> flight'[t]]
  BY <1>1, <1>2 DEF PageTyped
<1>7. f.op = "find" => page' = page
  <2> SUFFICES ASSUME f.op = "find", ~page.gone PROVE q = page
    BY <1>1
  <2>1. page.kind = "members"
    BY <1>2, <1>3, PagesAssumption
       DEF RequestTyped, TypedOn, OpsOf, Client, ResourceClient, MemberClient, OrganizationAdminClient, WebhookClient, AiProviderClient
  <2> QED BY <2>1 DEF Handler, MembersHandler
<1>8. g = Grounded \/ (g.st = "sent" /\ TypedOn(page', g))
  BY <1>2, <1>3, <1>5, <1>7, FollowupTyped
<1>9. \A t \in Flights : Busy(t)' => t = s
  BY <1>1, <1>2, <1>6 DEF OneFlight, Busy
<1>10. ListRight' /\ SecretRight'
  <2>1. CASE page.gone
    BY <2>1, <1>1 DEF ListRight, SecretRight, OnShow
  <2>2. CASE ~page.gone
    <3>1. /\ OnShow(q) => Reflects(q.items, rows, q.kind, untold \ told)
          /\ ~(unkeyed /\ ~keyed) /\ q.secret # NoSecret /\ q.secret.id \in Live => q.secret.row = rows[q.secret.id].key
      BY <2>2, <1>1, <1>2, AnswerShows
    <3> HIDE DEF q, told, keyed
    <3> QED BY <3>1, <2>2, <1>1 DEF ListRight, SecretRight, Live
  <2> QED BY <2>1, <2>2
<1> HIDE DEF q, g, told, keyed
<1>11. PageTyped'
  <2>1. Busy(s)' => RequestTyped(flight[s])'
    BY <1>6, <1>8 DEF Busy, Grounded, RequestTyped
  <2>2. untold' \subseteq Rows /\ unkeyed' \in BOOLEAN
    BY <1>1, <1>3
  <2> QED BY <2>1, <2>2, <1>1, <1>3, <1>5, <1>6, <1>9 DEF PageTyped
<1>12. OneFlight'
  BY <1>9 DEF OneFlight
<1>13. \A t \in Flights : Busy(t)' => flight'[t].st # "ok"
  BY <1>6, <1>8, <1>9 DEF Busy, Grounded
<1> QED BY <1>10, <1>11, <1>12, <1>13 DEF PageInv

\* the server's table after a write to another row
SameRow(old, new, kind) ==
  /\ old = NoRow <=> new = NoRow
  /\ kind # "providers" => new = old
  /\ old # NoRow => new = [old EXCEPT !.on = new.on]

LEMMA WriteReflects ==
  ASSUME NEW list, NEW table \in Table, NEW new \in Table, NEW kind, NEW S, NEW i, Reflects(list, table, kind, S),
         \A j \in Rows \ {i} : SameRow(table[j], new[j], kind)
  PROVE  Reflects(list, new, kind, S \cup {i})
<1>1. \A n \in 1..Len(list) : list[n] \in Entry
  BY DEF Reflects
<1>2. ASSUME NEW n \in 1..Len(list), list[n].id \notin S \cup {i}
      PROVE  new[list[n].id] # NoRow /\ AsServed(list[n], new, kind)
  <2> DEFINE j == list[n].id
  <2>1. j \in Rows \ {i} /\ table[j] # NoRow /\ AsServed(list[n], table, kind)
    BY <1>1, <1>2 DEF Reflects, Entry
  <2>2. SameRow(table[j], new[j], kind)
    BY <2>1
  <2>3. table[j] \in Held /\ new[j] \in Held \cup {NoRow} /\ list[n].row \in Held
    BY <1>1, <2>1 DEF Table, Entry
  <2> HIDE DEF j
  <2>4. new[j] # NoRow /\ new[j] \in Held
    BY <2>1, <2>2, <2>3 DEF SameRow
  <2>5. CASE kind # "providers"
    BY <2>1, <2>2, <2>4, <2>5 DEF SameRow, AsServed, j
  <2>6. CASE kind = "providers"
    <3>1. list[n].row = [table[j] EXCEPT !.on = list[n].row.on]
      BY <2>1, <2>6 DEF AsServed, j
    <3>2. list[n].row.val = table[j].val /\ list[n].row.key = table[j].key
      BY <3>1, <2>3 DEF Held
    <3>3. new[j] = [table[j] EXCEPT !.on = new[j].on]
      BY <2>1, <2>2 DEF SameRow
    <3>4. new[j].val = table[j].val /\ new[j].key = table[j].key
      BY <3>3, <2>3 DEF Held
    <3>5. list[n].row = [new[j] EXCEPT !.on = list[n].row.on]
      BY <3>2, <3>4, <2>3, <2>4 DEF Held
    <3> QED BY <3>5, <2>4, <2>6 DEF AsServed, j
  <2> QED BY <2>5, <2>6
<1>3. \A j \in Rows \ (S \cup {i}) : new[j] # NoRow => Has(list, j)
  BY DEF Reflects, SameRow
<1> QED BY <1>2, <1>3 DEF Reflects

\* what the server writes for a request it accepts
LEMMA WrittenRow ==
  ASSUME page.kind \in Kinds, rows \in Table, NEW f, RequestTyped(f), Accepts(f)
  PROVE  /\ f.op \in Adds \cup Changes => Written(f) \in Held
         /\ f.op = "archive" => Written(f) = NoRow
         /\ f.op \in Changes \ {"rotate"} => rows[f.id] \in Held /\ Written(f).key = rows[f.id].key
         /\ f.op = "create" => rows[f.id] = NoRow /\ f.id \notin untold
<1>1. /\ f.op \in OpsOf(page.kind)
      /\ f.op \in Adds \cup Changes => f.id \in Rows
      /\ f.op \in (Adds \cup Changes) \ {"rotate"} => f.row \in Held
      /\ f.op \in Adds \cup Changes => rows[f.id] \in {NoRow} \cup Held
  BY DEF RequestTyped, TypedOn, Table
<1> USE DEF OpsOf, Client, Adds, Changes, Accepts, Written, Fresh, There
<1>2. CASE page.kind \in {"workspaces", "projects", "diagrams"}
  <2> USE DEF ResourceClient, WorkspaceRoutes, ProjectRoutes, DiagramRoutes
  <2>1. CASE f.op = "rename"
    <3>1. rows[f.id] \in Held /\ Written(f) = [rows[f.id] EXCEPT !.val = f.row.val]
      BY <1>1, <1>2, <2>1 DEF ResourceRow
    <3> HIDE DEF Written, Accepts, OpsOf, Client
    <3>2. f.op # "rotate" => f.row \in Held
      BY <1>1, <2>1
    <3>3. Written(f) \in Held /\ (f.op # "rotate" => Written(f).key = rows[f.id].key)
      BY <3>1, <3>2, <2>1 DEF Held
    <3> QED BY <3>1, <3>3, <2>1
  <2>2. CASE f.op # "rename"
    BY <1>1, <1>2, <2>2 DEF ResourceRow
  <2> QED BY <2>1, <2>2
<1>3. CASE page.kind = "members"
  <2> USE DEF MemberClient, MemberRoutes
  <2>1. CASE f.op = "change"
    <3>1. rows[f.id] \in Held /\ Written(f) = [rows[f.id] EXCEPT !.val = f.row.val]
      BY <1>1, <1>3, <2>1 DEF MemberRow
    <3> HIDE DEF Written, Accepts, OpsOf, Client
    <3>2. f.op # "rotate" => f.row \in Held
      BY <1>1, <2>1
    <3>3. Written(f) \in Held /\ (f.op # "rotate" => Written(f).key = rows[f.id].key)
      BY <3>1, <3>2, <2>1 DEF Held
    <3> QED BY <3>1, <3>3, <2>1
  <2>2. CASE f.op # "change"
    BY <1>1, <1>3, <2>2 DEF MemberRow
  <2> QED BY <2>1, <2>2
<1>4. CASE page.kind = "admins"
  BY <1>1, <1>4 DEF OrganizationAdminClient, OrganizationAdminRoutes, OrganizationAdminRow
<1>5. CASE page.kind = "webhooks"
  <2> USE DEF WebhookClient, WebhookRoutes
  <2>1. CASE f.op = "edit"
    <3>1. rows[f.id] \in Held /\ Written(f) = [rows[f.id] EXCEPT !.val = f.row.val, !.on = f.row.on]
      BY <1>1, <1>5, <2>1 DEF WebhookRow
    <3> HIDE DEF Written, Accepts, OpsOf, Client
    <3>2. f.op # "rotate" => f.row \in Held
      BY <1>1, <2>1
    <3>3. Written(f) \in Held /\ (f.op # "rotate" => Written(f).key = rows[f.id].key)
      BY <3>1, <3>2, <2>1 DEF Held
    <3> QED BY <3>1, <3>3, <2>1
  <2>2. CASE f.op = "toggle"
    <3>1. rows[f.id] \in Held /\ Written(f) = [rows[f.id] EXCEPT !.on = f.row.on]
      BY <1>1, <1>5, <2>2 DEF WebhookRow
    <3> HIDE DEF Written, Accepts, OpsOf, Client
    <3>2. f.op # "rotate" => f.row \in Held
      BY <1>1, <2>2
    <3>3. Written(f) \in Held /\ (f.op # "rotate" => Written(f).key = rows[f.id].key)
      BY <3>1, <3>2, <2>2 DEF Held
    <3> QED BY <3>1, <3>3, <2>2
  <2>3. CASE f.op = "rotate"
    <3>1. rows[f.id] \in Held /\ Written(f) = [rows[f.id] EXCEPT !.key = 1 - @]
      BY <1>1, <1>5, <2>3 DEF WebhookRow
    <3> HIDE DEF Written, Accepts, OpsOf, Client
    <3>2. f.op # "rotate" => f.row \in Held
      BY <1>1, <2>3
    <3>3. Written(f) \in Held /\ (f.op # "rotate" => Written(f).key = rows[f.id].key)
      BY <3>1, <3>2, <2>3 DEF Held
    <3> QED BY <3>1, <3>3, <2>3
  <2>4. CASE f.op \notin {"edit", "toggle", "rotate"}
    BY <1>1, <1>5, <2>4 DEF WebhookRow
  <2> QED BY <2>1, <2>2, <2>3, <2>4
<1>6. CASE page.kind = "providers"
  <2> USE DEF AiProviderClient, AiProviderRoutes
  <2>1. CASE f.op = "edit"
    <3>1. rows[f.id] \in Held /\ Written(f) = [rows[f.id] EXCEPT !.val = f.row.val]
      BY <1>1, <1>6, <2>1 DEF ProviderRow
    <3> HIDE DEF Written, Accepts, OpsOf, Client
    <3>2. f.op # "rotate" => f.row \in Held
      BY <1>1, <2>1
    <3>3. Written(f) \in Held /\ (f.op # "rotate" => Written(f).key = rows[f.id].key)
      BY <3>1, <3>2, <2>1 DEF Held
    <3> QED BY <3>1, <3>3, <2>1
  <2>2. CASE f.op = "toggle"
    <3>1. rows[f.id] \in Held /\ Written(f) = [rows[f.id] EXCEPT !.on = f.row.on]
      BY <1>1, <1>6, <2>2 DEF ProviderRow
    <3> HIDE DEF Written, Accepts, OpsOf, Client
    <3>2. f.op # "rotate" => f.row \in Held
      BY <1>1, <2>2
    <3>3. Written(f) \in Held /\ (f.op # "rotate" => Written(f).key = rows[f.id].key)
      BY <3>1, <3>2, <2>2 DEF Held
    <3> QED BY <3>1, <3>3, <2>2
  <2>3. CASE f.op \notin {"edit", "toggle"}
    BY <1>1, <1>6, <2>3 DEF ProviderRow
  <2> QED BY <2>1, <2>2, <2>3
<1> QED BY <1>2, <1>3, <1>4, <1>5, <1>6, PagesAssumption

LEMMA SiblingsSame ==
  ASSUME rows \in Table, NEW i
  PROVE  /\ DisableSiblings(i) \in Table
         /\ \A j \in Rows : SameRow(rows[j], DisableSiblings(i)[j], page.kind)
<1>1. ASSUME NEW r \in Held
      PROVE  [r EXCEPT !.on = FALSE] \in Held /\ [r EXCEPT !.on = FALSE].on = FALSE
  <2>1. FALSE \in BOOLEAN
    OBVIOUS
  <2> QED BY <2>1 DEF Held
<1>2. ASSUME NEW j \in Rows
      PROVE  DisableSiblings(i)[j] \in {NoRow} \cup Held /\ SameRow(rows[j], DisableSiblings(i)[j], page.kind)
  <2>1. rows[j] \in {NoRow} \cup Held
    BY DEF Table
  <2>2. CASE j # i /\ rows[j] # NoRow /\ page.kind = "providers"
    <3>1. DisableSiblings(i)[j] = [rows[j] EXCEPT !.on = FALSE]
      BY <2>2 DEF DisableSiblings
    <3>2. DisableSiblings(i)[j] \in Held /\ DisableSiblings(i)[j].on = FALSE
      BY <3>1, <2>1, <2>2, <1>1
    <3> QED BY <3>1, <3>2, <2>2, LiveRows DEF SameRow
  <2>3. CASE ~(j # i /\ rows[j] # NoRow /\ page.kind = "providers")
    <3>1. DisableSiblings(i)[j] = rows[j]
      BY <2>3 DEF DisableSiblings
    <3>2. rows[j] # NoRow => rows[j] = [rows[j] EXCEPT !.on = rows[j].on]
      BY <2>1 DEF Held
    <3> QED BY <3>1, <3>2, <2>1 DEF SameRow
  <2> QED BY <2>2, <2>3
<1>3. DisableSiblings(i) = [j \in Rows |-> DisableSiblings(i)[j]]
  BY DEF DisableSiblings
<1> QED BY <1>2, <1>3 DEF Table

LEMMA SameIsSame ==
  ASSUME NEW r \in {NoRow} \cup Held, NEW kind PROVE SameRow(r, r, kind)
<1>1. r # NoRow => r = [r EXCEPT !.on = r.on]
  BY DEF Held
<1> QED BY <1>1 DEF SameRow

\* the table after a request is served
LEMMA StoredTable ==
  ASSUME PageTyped, NEW f, RequestTyped(f), Accepts(f)
  PROVE  /\ Stored(f) \in Table
         /\ f.op \in Writes => Stored(f)[f.id] = Written(f)
         /\ f.op \in Writes => \A j \in Rows \ {f.id} : SameRow(rows[j], Stored(f)[j], page.kind)
         /\ f.op \notin Writes => Stored(f) = rows
<1> DEFINE base == IF Written(f).on THEN DisableSiblings(f.id) ELSE rows
<1>1. Stored(f) = IF f.op \in Writes THEN [base EXCEPT ![f.id] = Written(f)] ELSE rows
  BY DEF Stored
<1>2. rows \in Table /\ page.kind \in Kinds /\ Writes = Adds \cup Changes \cup {"archive"}
  BY DEF PageTyped, Writes, Adds, Changes
<1>3. f.op \in Writes => f.id \in Rows
  BY <1>2 DEF RequestTyped, TypedOn
<1>4. f.op \in Writes => Written(f) \in {NoRow} \cup Held
  BY <1>2, WrittenRow
<1>5. base \in Table /\ \A j \in Rows : SameRow(rows[j], base[j], page.kind)
  <2>1. \A j \in Rows : rows[j] \in {NoRow} \cup Held
    BY <1>2 DEF Table
  <2> QED BY <2>1, <1>2, SiblingsSame, SameIsSame
<1> HIDE DEF base
<1>6. CASE f.op \in Writes
  <2>1. Stored(f) = [base EXCEPT ![f.id] = Written(f)]
    BY <1>1, <1>6
  <2>2. Stored(f) \in Table /\ Stored(f)[f.id] = Written(f) /\ \A j \in Rows \ {f.id} : Stored(f)[j] = base[j]
    BY <2>1, <1>3, <1>4, <1>5, <1>6 DEF Table
  <2> QED BY <2>2, <1>5, <1>6
<1>7. CASE f.op \notin Writes
  BY <1>1, <1>2, <1>7
<1> QED BY <1>6, <1>7

LEMMA ServeStep ==
  ASSUME PageInv, undisturbed, NEW s \in Flights, NEW outcome \in {"ok", "failed", "lost"}, Serve(s, outcome)
  PROVE  PageInv'
<1> DEFINE f == flight[s]
           row == IF f.op \in Writes \ {"archive"} THEN Written(f) ELSE f.row
           list == IF f.op \in {"list", "reload"} THEN Listing ELSE <<>>
           g == [f EXCEPT !.st = outcome, !.row = row, !.list = list]
<1>1. /\ Busy(s) /\ f.st = "sent" /\ Accepts(f) /\ UNCHANGED <<page, undisturbed>>
      /\ flight' = [flight EXCEPT ![s] = g]
      /\ rows' = Stored(f)
      /\ untold' = IF rows' = rows THEN untold ELSE untold \cup {f.id}
      /\ unkeyed' = (unkeyed \/ f.op \in {"create", "rotate"})
  BY DEF Serve
<1>2. PageTyped /\ OneFlight /\ ListRight /\ SecretRight /\ RequestTyped(f)
  BY <1>1 DEF PageInv, PageTyped
<1>3. /\ rows \in Table /\ page.kind \in Kinds /\ (page.kind # "webhooks" => page.secret = NoSecret)
      /\ untold \subseteq Rows /\ unkeyed \in BOOLEAN /\ Writes = Adds \cup Changes \cup {"archive"}
  BY <1>2 DEF PageTyped, Writes, Adds, Changes
<1>4. /\ rows' \in Table
      /\ f.op \in Writes => rows'[f.id] = Written(f)
      /\ f.op \in Writes => \A j \in Rows \ {f.id} : SameRow(rows[j], rows'[j], page.kind)
      /\ f.op \notin Writes => rows' = rows
  BY <1>1, <1>2, StoredTable
<1>5. /\ f.op \in Adds \cup Changes => Written(f) \in Held
      /\ f.op = "archive" => Written(f) = NoRow
      /\ f.op \in Changes \ {"rotate"} => rows[f.id] \in Held /\ Written(f).key = rows[f.id].key
      /\ f.op = "create" => rows[f.id] = NoRow /\ f.id \notin untold
  BY <1>1, <1>2, <1>3, WrittenRow
<1>6. /\ f.op \in Adds \cup Changes \cup {"archive", "find"} => f.id \in Rows
      /\ f.op \in (Adds \cup Changes \cup {"find"}) \ {"rotate"} => f.row \in Held
      /\ IsFlight(f) /\ f.op \in OpsOf(page.kind)
      /\ f.op \in {"toggle", "find"} => OnShow(page) /\ f.seen = page.items
      /\ OnShow(page) /\ f.op \in Changes => Has(page.items, f.id)
      /\ OnShow(page) /\ f.op = "add" /\ page.kind = "members" => ~Has(page.items, f.id)
  BY <1>2 DEF RequestTyped, TypedOn
<1>7. /\ f.op \in Adds \cup Changes => row = Written(f)
      /\ f.op \in (Adds \cup Changes \cup {"find"}) \ {"rotate"} => row \in Held
      /\ f.op \in {"list", "reload"} => list = Listing
  <2>1. f.op \in Adds \cup Changes => row = Written(f)
    BY <1>3 DEF Adds, Changes
  <2>2. f.op = "find" => row = f.row
    BY DEF Writes
  <2> QED BY <2>1, <2>2, <1>5, <1>6 DEF Adds, Changes
<1> HIDE DEF row, list
<1>8. /\ IsFlight(g) /\ g.op = f.op /\ g.id = f.id /\ g.seen = f.seen /\ g.row = row /\ g.list = list /\ g.st = outcome
  BY <1>6 DEF IsFlight, FlightFields
<1> HIDE DEF g, f
<1>9. /\ \A t \in Flights \ {s} : flight'[t] = flight[t]
      /\ flight'[s] = g /\ flight' = [t \in Flights |-> flight'[t]]
  BY <1>1, <1>2 DEF PageTyped
<1>10. \A t \in Flights : Busy(t)' => t = s
  BY <1>1, <1>2, <1>9 DEF OneFlight, Busy
<1>11. PageTyped'
  <2>1. TypedOn(page', g)
    BY <1>1, <1>6, <1>7, <1>8 DEF TypedOn
  <2>2. RequestTyped(flight[s])'
    BY <2>1, <1>9 DEF RequestTyped
  <2>3. untold' \subseteq Rows /\ unkeyed' \in BOOLEAN
    BY <1>1, <1>3, <1>4, <1>6
  <2> QED BY <2>2, <2>3, <1>1, <1>2, <1>4, <1>9, <1>10 DEF PageTyped
<1>12. OneFlight'
  BY <1>10 DEF OneFlight
<1>13. ListRight'
  <2> SUFFICES ASSUME OnShow(page) PROVE Reflects(page.items, rows', page.kind, untold')
    BY <1>1 DEF ListRight
  <2>1. Reflects(page.items, rows, page.kind, untold)
    BY <1>2 DEF ListRight
  <2>2. CASE rows' = rows
    BY <2>1, <2>2, <1>1
  <2>3. CASE rows' # rows
    BY <2>1, <2>3, <1>1, <1>3, <1>4, WriteReflects
  <2> QED BY <2>2, <2>3
<1>14. SecretRight'
  <2> DEFINE j == page.secret.id
  <2> SUFFICES ASSUME ~unkeyed', ~page.gone, page.secret # NoSecret, j \in Live'
               PROVE  page.secret.row = rows'[j].key
    BY <1>1 DEF SecretRight
  <2>1. /\ page.kind = "webhooks" /\ rows'[j] # NoRow /\ j \in Rows
        /\ ~unkeyed /\ f.op \notin {"create", "rotate"}
    BY <1>1, <1>3 DEF Live
  <2>2. rows[j] # NoRow => page.secret.row = rows[j].key
    BY <1>2, <2>1 DEF SecretRight, Live
  <2> HIDE DEF j
  <2>3. f.op # "add"
    BY <1>6, <2>1 DEF OpsOf, Client, WebhookClient
  <2>4. CASE f.op \notin Writes
    BY <2>1, <2>2, <2>4, <1>4
  <2>5. CASE f.op \in Writes /\ j # f.id
    <3>1. SameRow(rows[j], rows'[j], page.kind)
      BY <2>1, <2>5, <1>4
    <3> QED BY <3>1, <2>1, <2>2 DEF SameRow
  <2>6. CASE f.op \in Writes /\ j = f.id
    <3>1. f.op \in Changes \ {"rotate"}
      BY <2>1, <2>3, <2>6, <1>3, <1>4, <1>5 DEF Adds
    <3> QED BY <3>1, <2>2, <2>6, <1>4, <1>5, LiveRows
  <2> QED BY <2>4, <2>5, <2>6
<1>15. outcome = "ok" => (Awaiting(flight[s]))'
  <2>1. g.op \in {"list", "reload"} => Reflects(g.list, rows', page.kind, {})
    <3>1. g.op \in {"list", "reload"} => rows' = rows
      BY <1>4, <1>8 DEF Writes
    <3> QED BY <3>1, <1>3, <1>7, <1>8, ListingReflects
  <2>2. g.op \in Adds \cup Changes => g.row \in Held /\ g.row = rows'[g.id]
    BY <1>3, <1>4, <1>5, <1>7, <1>8
  <2>3. g.op = "archive" => rows'[g.id] = NoRow
    BY <1>3, <1>4, <1>5, <1>8
  <2>4. OnShow(page) /\ g.op \in Adds /\ page.kind # "admins" => ~Has(page.items, g.id)
    <3> SUFFICES ASSUME OnShow(page), f.op \in Adds, page.kind # "admins" PROVE ~Has(page.items, f.id)
      BY <1>8
    <3>1. CASE f.op = "create"
      <4>1. Reflects(page.items, rows, page.kind, untold)
        BY <1>2 DEF ListRight
      <4> QED BY <4>1, <3>1, <1>5 DEF Has, Reflects
    <3>2. CASE f.op = "add"
      <4>1. page.kind = "members"
        BY <3>2, <1>3, <1>6, PagesAssumption DEF OpsOf, Client, ResourceClient, MemberClient, OrganizationAdminClient, WebhookClient,
           AiProviderClient
      <4> QED BY <4>1, <3>2, <1>6
    <3> QED BY <3>1, <3>2 DEF Adds
  <2>5. page' = page /\ flight'[s] = g
    BY <1>1, <1>9
  <2> QED BY <2>1, <2>2, <2>3, <2>4, <2>5 DEF Awaiting
<1>16. \A t \in Flights : Busy(t)' /\ flight'[t].st = "ok" => Awaiting(flight[t])'
  BY <1>8, <1>9, <1>10, <1>15
<1> QED BY <1>11, <1>12, <1>13, <1>14, <1>16 DEF PageInv

LEMMA PageInvNext == PageInv /\ [PageNext]_pageVars => PageInv'
<1> SUFFICES ASSUME PageInv, [PageNext]_pageVars PROVE PageInv'
  OBVIOUS
<1>1. CASE UNCHANGED pageVars
  BY <1>1 DEF pageVars, pageHistory, PageInv, PageTyped, OneFlight, ListRight, SecretRight, Awaiting, RequestTyped, Busy, Live
<1>2. CASE ~undisturbed'
  BY <1>2 DEF PageInv
<1>3. CASE undisturbed' /\ PageNext
  <2>1. undisturbed
    <3>1. ASSUME NEW s \in Flights
          PROVE  /\ AnswerArrives(s) => undisturbed' = undisturbed
                 /\ \A outcome \in {"ok", "failed", "lost"} : Serve(s, outcome) => undisturbed' = undisturbed
                 /\ \A lost \in BOOLEAN : Refuse(s, lost) => undisturbed' = undisturbed
      BY DEF AnswerArrives, Serve, Refuse, pageHistory
    <3>2. \A op \in PageOps, i \in Rows, v \in Vals : SubmitForm(op, i, v) => undisturbed
      BY DEF SubmitForm, Send
    <3>3. (\E i \in Rows : StartEdit(i) \/ RequestArchive(i)) \/ DismissSecret => undisturbed
      BY DEF StartEdit, RequestArchive, DismissSecret
    <3> QED BY <3>1, <3>2, <3>3, <1>3 DEF PageNext
  <2>2. CASE \E s \in Flights : AnswerArrives(s)
    BY <2>1, <2>2, AnswerStep
  <2>3. CASE \E s \in Flights, outcome \in {"ok", "failed", "lost"} : Serve(s, outcome)
    BY <2>1, <2>3, ServeStep
  <2>4. CASE \E s \in Flights, lost \in BOOLEAN : Refuse(s, lost)
    BY <2>1, <2>4, RefuseStep
  <2>5. CASE \E op \in PageOps, i \in Rows, v \in Vals : SubmitForm(op, i, v)
    BY <1>3, <2>1, <2>5, SubmitStep
  <2>6. CASE (\E i \in Rows : StartEdit(i) \/ RequestArchive(i)) \/ DismissSecret
    BY <2>1, <2>6, DialogSteps
  <2> QED BY <1>3, <2>2, <2>3, <2>4, <2>5, <2>6 DEF PageNext
<1> QED BY <1>1, <1>2, <1>3

\* As long as the requests of a list page never overlapped, the page shows the server's rows, each once and as the
\* server has it, but for those whose last change it had no good answer to, because the answer was lost or was an
\* error that came after the write; whatever was created, renamed, switched, rotated or removed in between.
THEOREM PagesShowTheServer == PageSpec => []PageShowsServer
<1>1. PageInv => PageShowsServer
  <2> SUFFICES ASSUME PageInv, undisturbed, OnShow(page)
               PROVE  /\ \A m, n \in DOMAIN page.items : page.items[m].id = page.items[n].id => m = n
                      /\ \A n \in DOMAIN page.items : page.items[n].id \in Live \cup untold
                      /\ \A i \in Live \ untold : \E n \in DOMAIN page.items :
                            page.items[n] = Item(i, IF page.kind = "providers" THEN [rows[i] EXCEPT !.on = page.items[n].row.on] ELSE rows[i])
                      /\ ~unkeyed /\ page.secret # NoSecret /\ page.secret.id \in Live => page.secret.row = rows[page.secret.id].key
    BY DEF PageShowsServer, OnShow
  <2>1. Reflects(page.items, rows, page.kind, untold) /\ SecretRight
    BY DEF PageInv, ListRight
  <2>2. DOMAIN page.items = 1..Len(page.items) /\ \A n \in 1..Len(page.items) : page.items[n] \in Entry
    BY <2>1 DEF Reflects
  <2>3. \A m, n \in DOMAIN page.items : page.items[m].id = page.items[n].id => m = n
    BY <2>1, <2>2 DEF Reflects
  <2>4. \A n \in DOMAIN page.items : page.items[n].id \in Live \cup untold
    BY <2>1, <2>2 DEF Reflects, Live, Entry
  <2>5. ASSUME NEW i \in Live \ untold
        PROVE  \E n \in DOMAIN page.items :
                  page.items[n] = Item(i, IF page.kind = "providers" THEN [rows[i] EXCEPT !.on = page.items[n].row.on] ELSE rows[i])
    <3>1. PICK n \in 1..Len(page.items) : page.items[n].id = i
      BY <2>1 DEF Reflects, Has, Live
    <3>2. page.items[n] \in Entry /\ AsServed(page.items[n], rows, page.kind) /\ n \in DOMAIN page.items
      BY <2>1, <2>2, <3>1 DEF Reflects
    <3>3. page.items[n] = Item(i, page.items[n].row)
      BY <3>1, <3>2 DEF Entry, Item
    <3> QED BY <3>1, <3>2, <3>3 DEF AsServed
  <2>6. ~unkeyed /\ page.secret # NoSecret /\ page.secret.id \in Live => page.secret.row = rows[page.secret.id].key
    BY <2>1 DEF SecretRight, OnShow
  <2> QED BY <2>3, <2>4, <2>5, <2>6
<1> QED BY <1>1, PageInvInit, PageInvNext, PTL DEF PageSpec


-----------------------------------------------------------------------------
(* The presentation editor                                                 *)

FrameRow == [pos : Nat, notes : BOOLEAN, nav : SUBSET FrameIds]
ShownFrame == [id : FrameIds, pos : Nat, notes : BOOLEAN, nav : SUBSET FrameIds]
FrameTable == [FrameIds -> FrameRow \cup {NoFrame}]
Made(table) == {f \in FrameIds : table[f].pos >= 0}
ItemOf(table, f) == [id |-> f, pos |-> table[f].pos, notes |-> table[f].notes, nav |-> table[f].nav]
HasFrame(list, f) == \E n \in 1..Len(list) : list[n].id = f

\* the list has each frame of the table once, as it is there, and none at a position before its place in the list,
\* but for those in S
ShowsDeck(list, table, can, S) ==
  /\ list \in Seq(ShownFrame)
  /\ \A m, n \in 1..Len(list) : list[m].id = list[n].id => m = n
  /\ \A n \in 1..Len(list) : list[n].id \notin S =>
        table[list[n].id].pos >= 0 /\ Redact(list[n], can) = Redact(ItemOf(table, list[n].id), can)
  /\ \A n \in 1..Len(list) : table[list[n].id].pos >= 0 => table[list[n].id].pos >= n - 1
  /\ \A f \in FrameIds \ S : table[f].pos >= 0 => HasFrame(list, f)

\* no more than p frames before position p: sorted by position, none is at a position before its place
Below(table, p) == {f \in FrameIds : table[f].pos \in 0..(p - 1)}
Spread(table) == \A p \in Nat : Cardinality(Below(table, p)) <= p
Apart(table) == \A f, g \in Made(table) : table[f].pos = table[g].pos => f = g

AskFields == {"op", "id", "arg", "st", "seen", "ans"}
IsAsk(k) == k = [x \in AskFields |-> k[x]]
FrameOps == {"add", "notes", "nav", "delete", "move"}
AskOps == FrameOps \cup {"publish", "export", "share", "revoke"}
\* a new order of a list: every id of it once
Reorders(order, list) ==
  /\ order \in Seq(FrameIds)
  /\ \A m, n \in 1..Len(order) : order[m] = order[n] => m = n
  /\ \A n \in 1..Len(order) : HasFrame(list, order[n])
  /\ \A n \in 1..Len(list) : \E m \in 1..Len(order) : order[m] = list[n].id

AskTyped(k, d) ==
  /\ IsAsk(k) /\ k.op \in AskOps
  /\ k.op # "revoke" => d.can
  /\ k.op \in {"notes", "nav", "delete"} => HasFrame(k.seen, k.id) /\ k.id \in FrameIds
  /\ k.op = "add" => k.arg = Len(k.seen)
  /\ k.op = "notes" => k.arg = TRUE
  /\ k.op = "nav" => k.arg \in SUBSET FrameIds
  /\ k.op = "move" => Reorders(k.arg, k.seen)
  /\ k.op = "revoke" => k.id \in Links
  /\ k.op # "move" => k.seen = d.frames
  /\ k.st = "writing" => k.op = "move"

\* an answer waits for its handler: the list it saw is right but for the frame the answer is about
AnswerWaits(k, table, links, d) ==
  /\ k.op = "add" => /\ k.ans.id \in FrameIds /\ k.ans = ItemOf(table, k.ans.id) /\ k.ans.pos >= Len(k.seen)
                     /\ k.ans \in ShownFrame
                     /\ ShowsDeck(k.seen, table, TRUE, {k.ans.id}) /\ ~HasFrame(k.seen, k.ans.id)
  /\ k.op \in {"notes", "nav"} => /\ k.ans = ItemOf(table, k.id) /\ k.ans \in ShownFrame
                                  /\ ShowsDeck(k.seen, table, TRUE, {k.id})
  /\ k.op = "delete" => table[k.id].pos < 0 /\ ShowsDeck(k.seen, table, TRUE, {k.id})
  /\ k.op = "move" => ShowsDeck(k.ans, table, TRUE, {})
  /\ k.op \notin FrameOps => ShowsDeck(k.seen, table, d.can, {})
  /\ k.op = "share" => k.ans \in Links
  /\ k.op = "revoke" => links[k.id].st \notin {"none", "active"}
\* the statements of a reorder that were made, before the others
PartWritten(k, table) ==
  /\ k.ans \in Seq(FrameIds) /\ Len(k.ans) <= Len(k.arg)
  /\ \A n \in 1..Len(k.arg) : table[k.arg[n]].pos >= 0
  /\ \A f \in FrameIds : table[f].pos >= 0 => \E n \in 1..Len(k.arg) : k.arg[n] = f
  /\ \A n \in 1..Len(k.ans) : table[k.arg[n]].pos = n - 1

AskHolds(k, table, links, d) ==
  /\ AskTyped(k, d)
  /\ IF k.st = "ok" THEN AnswerWaits(k, table, links, d)
     ELSE IF k.st = "writing" THEN PartWritten(k, table)
     ELSE ShowsDeck(k.seen, table, d.can, {})

DeckTyped ==
  /\ deck = [x \in {"frames", "snap", "expired"} |-> deck[x]]
  /\ deck.frames \in FrameTable
  /\ shares = [l \in Links |-> shares[l]]
  /\ \A l \in Links : shares[l] = [x \in {"st", "role", "kind"} |-> shares[l][x]]
DeskFields == {"status", "frames", "can", "published", "links", "said"}
DeskTyped ==
  /\ desk = [x \in DeskFields |-> desk[x]]
  /\ desk.can \in BOOLEAN
  /\ desk.links \in Seq([id : Links, revoked : BOOLEAN])
  /\ \A n \in 1..Len(desk.links) : desk.links[n].revoked => shares[desk.links[n].id].st \notin {"none", "active"}
AsksTyped == asks = [a \in Asks |-> asks[a]]
Idle(a) == asks[a].op = "none"
OneAsk == \A a, b \in Asks : ~Idle(a) /\ ~Idle(b) => a = b

DeskInv ==
  calm =>
    /\ DeckTyped /\ DeskTyped /\ AsksTyped /\ OneAsk
    /\ desk.status # "ready" => Quiet /\ Spread(deck.frames)
    /\ \A a \in Asks : ~Idle(a) => AskHolds(asks[a], deck.frames, shares, desk)
    /\ desk.status = "ready" /\ Quiet => ShowsDeck(desk.frames, deck.frames, desk.can, {})


LEMMA ItemIsShown ==
  ASSUME NEW table \in FrameTable, NEW f \in Made(table), NEW can \in BOOLEAN
  PROVE  LET it == ItemOf(table, f)
             r == Redact(it, can)
         IN /\ it \in ShownFrame /\ it.id = f /\ it.pos = table[f].pos
            /\ r \in ShownFrame /\ r.id = f /\ r.pos = table[f].pos
            /\ f \in FrameIds /\ table[f].pos \in Nat
<1>1. table[f] \in FrameRow /\ f \in FrameIds
  BY DEF Made, FrameTable, NoFrame
<1>2. ItemOf(table, f) \in ShownFrame /\ ItemOf(table, f).id = f /\ ItemOf(table, f).pos = table[f].pos
  BY <1>1 DEF ItemOf, ShownFrame, FrameRow
<1> QED BY <1>1, <1>2 DEF Redact, ShownFrame, FrameRow

LEMMA RedactTwice ==
  ASSUME NEW it \in ShownFrame, NEW a \in BOOLEAN, NEW b \in BOOLEAN, b => a
  PROVE  Redact(Redact(it, a), b) = Redact(it, b) /\ Redact(it, TRUE) = it
BY DEF Redact, ShownFrame

LEMMA MadeFinite ==
  ASSUME NEW table
  PROVE  /\ IsFiniteSet(Made(table)) /\ Cardinality(Made(table)) \in Nat
         /\ \A p \in Nat : IsFiniteSet(Below(table, p)) /\ Cardinality(Below(table, p)) \in Nat
<1>1. ASSUME NEW S \in SUBSET FrameIds PROVE IsFiniteSet(S) /\ Cardinality(S) \in Nat
  BY PresentationsAssumption, FS_Subset, FS_CardinalityType
<1>2. Made(table) \in SUBSET FrameIds /\ \A p : Below(table, p) \in SUBSET FrameIds
  BY DEF Made, Below
<1> QED BY <1>1, <1>2

\* frames at different positions are spread
LEMMA ApartSpread ==
  ASSUME NEW table \in FrameTable, Apart(table)
  PROVE  Spread(table)
<1> SUFFICES ASSUME NEW p \in Nat PROVE Cardinality(Below(table, p)) <= p
  BY DEF Spread
<1> DEFINE h == [f \in Below(table, p) |-> table[f].pos]
<1>1. h \in [Below(table, p) -> 0..(p - 1)]
  BY DEF Below
<1>2. \A f, g \in Below(table, p) : h[f] = h[g] => f = g
  BY DEF Below, Apart, Made
<1>3. h \in Injection(Below(table, p), 0..(p - 1))
  BY <1>1, <1>2 DEF Injection, IsInjective
<1>4. IsFiniteSet(0..(p - 1)) /\ Cardinality(0..(p - 1)) = p
  <2>1. 0 \in Int /\ p - 1 \in Int
    OBVIOUS
  <2>2. IsFiniteSet(0..(p - 1)) /\ Cardinality(0..(p - 1)) = IF 0 > p - 1 THEN 0 ELSE p - 1 - 0 + 1
    BY <2>1, FS_Interval
  <2> QED BY <2>2
<1> HIDE DEF h
<1> QED BY <1>3, <1>4, FS_Injection

LEMMA NoGapApart ==
  ASSUME NEW table \in FrameTable,
         {table[f].pos : f \in Made(table)} = 0..(Cardinality(Made(table)) - 1)
  PROVE  Apart(table)
<1> DEFINE c == Cardinality(Made(table))
           h == [f \in Made(table) |-> table[f].pos]
<1>1. IsFiniteSet(Made(table)) /\ c \in Nat
  BY MadeFinite
<1>2. h \in Surjection(Made(table), 0..(c - 1))
  BY DEF Surjection
<1>3. Cardinality(0..(c - 1)) = c
  <2> HIDE DEF c
  <2>1. 0 \in Int /\ c - 1 \in Int
    BY <1>1
  <2>2. Cardinality(0..(c - 1)) = IF 0 > c - 1 THEN 0 ELSE c - 1 - 0 + 1
    BY <2>1, FS_Interval
  <2> QED BY <2>2, <1>1
<1>4. h \in Injection(Made(table), 0..(c - 1))
  <2> HIDE DEF h
  <2> QED BY <1>1, <1>2, <1>3, FS_SurjSameCardinalityImpliesInj
<1> QED BY <1>4 DEF Injection, IsInjective, Apart

LEMMA RemoveSpread ==
  ASSUME NEW table \in FrameTable, Spread(table), NEW f \in FrameIds
  PROVE  Spread([table EXCEPT ![f] = NoFrame])
<1> DEFINE new == [table EXCEPT ![f] = NoFrame]
<1> SUFFICES ASSUME NEW p \in Nat PROVE Cardinality(Below(new, p)) <= p
  BY DEF Spread
<1>1. Below(new, p) \in SUBSET Below(table, p)
  BY DEF Below, NoFrame, FrameTable
<1>2. Cardinality(Below(new, p)) <= Cardinality(Below(table, p))
  BY <1>1, MadeFinite, FS_Subset
<1>3. Cardinality(Below(new, p)) \in Nat /\ Cardinality(Below(table, p)) \in Nat
  <2> HIDE DEF new
  <2> QED BY MadeFinite
<1>4. Cardinality(Below(table, p)) <= p
  BY DEF Spread
<1> HIDE DEF new
<1> QED BY <1>2, <1>3, <1>4

LEMMA InsertSpread ==
  ASSUME NEW table \in FrameTable, Spread(table), NEW f \in FrameIds \ Made(table), NEW row,
         row.pos = Cardinality(Made(table))
  PROVE  Spread([table EXCEPT ![f] = row])
<1> DEFINE new == [table EXCEPT ![f] = row]
           c == Cardinality(Made(table))
<1>1. IsFiniteSet(Made(table)) /\ c \in Nat
  BY MadeFinite
<1> SUFFICES ASSUME NEW p \in Nat PROVE Cardinality(Below(new, p)) <= p
  BY DEF Spread
<1>2. CASE p <= c
  <2>1. \A g \in FrameIds : new[g].pos \in 0..(p - 1) <=> table[g].pos \in 0..(p - 1)
    <3> TAKE g \in FrameIds
    <3>1. CASE g = f
      <4>1. ~(table[f].pos >= 0)
        BY DEF Made
      <4>2. new[f].pos = c
        BY DEF FrameTable
      <4> HIDE DEF new, c
      <4> QED BY <3>1, <4>1, <4>2, <1>1, <1>2
    <3>2. CASE g # f
      BY <3>2 DEF FrameTable
    <3> QED BY <3>1, <3>2
  <2>2. Below(new, p) = Below(table, p)
    BY <2>1 DEF Below
  <2> QED BY <2>2 DEF Spread
<1>3. CASE p > c
  <2>1. Below(new, p) \in SUBSET (Made(table) \cup {f})
    BY DEF Below, Made, FrameTable
  <2>2. IsFiniteSet(Made(table) \cup {f}) /\ Cardinality(Made(table) \cup {f}) = c + 1
    BY <1>1, FS_AddElement
  <2>3. Cardinality(Below(new, p)) <= c + 1
    BY <2>1, <2>2, FS_Subset
  <2> HIDE DEF new, c
  <2>4. Cardinality(Below(new, p)) \in Nat
    BY MadeFinite
  <2> QED BY <2>3, <2>4, <1>1, <1>3
<1> QED BY <1>1, <1>2, <1>3

\* sorted by position, nothing is at a position before its place
LEMMA SortedPlaces ==
  ASSUME NEW table \in FrameTable, Spread(table), NEW list \in Seq(ShownFrame),
         \A m, n \in 1..Len(list) : list[m].id = list[n].id => m = n,
         \A n \in 1..Len(list) : list[n].pos = table[list[n].id].pos,
         \A m, n \in 1..Len(list) : m < n => list[m].pos <= list[n].pos,
         NEW n \in 1..Len(list)
  PROVE  list[n].pos >= n - 1
<1> DEFINE q == list[n].pos
           h == [m \in 1..n |-> list[m].id]
<1>1. q \in Nat /\ \A m \in 1..Len(list) : list[m].id \in FrameIds /\ list[m].pos \in Nat
  <2>1. \A m \in 1..Len(list) : list[m] \in ShownFrame
    OBVIOUS
  <2> QED BY <2>1 DEF ShownFrame
<1>2. \A m \in 1..n : m \in 1..Len(list)
  OBVIOUS
<1>3. \A m \in 1..n : list[m].id \in Below(table, q + 1)
  <2> TAKE m \in 1..n
  <2>1. list[m].pos <= q
    <3>1. m = n \/ m < n
      OBVIOUS
    <3> QED BY <3>1, <1>1, <1>2
  <2>2. list[m].pos \in 0..(q + 1 - 1)
    <3> HIDE DEF q
    <3> QED BY <2>1, <1>1, <1>2
  <2> HIDE DEF q
  <2> QED BY <2>2, <1>1, <1>2 DEF Below
<1>4. h \in Injection(1..n, Below(table, q + 1))
  BY <1>2, <1>3 DEF Injection, IsInjective
<1>5. IsFiniteSet(1..n) /\ Cardinality(1..n) = n
  BY FS_Interval
<1> HIDE DEF h, q
<1>6. q + 1 \in Nat /\ IsFiniteSet(Below(table, q + 1)) /\ Cardinality(Below(table, q + 1)) \in Nat
  <2>1. q \in Nat /\ q + 1 \in Nat
    BY <1>1 DEF q
  <2> QED BY <2>1, MadeFinite
<1>7. n <= Cardinality(Below(table, q + 1)) /\ Cardinality(Below(table, q + 1)) <= q + 1
  BY <1>4, <1>5, <1>6, FS_Injection DEF Spread
<1>8. q \in Nat
  BY <1>1 DEF q
<1>9. q >= n - 1
  BY <1>6, <1>7, <1>8
<1> QED BY <1>9 DEF q


\* what listFramesForPresentation answers, and a page shows of it that may edit no more than it was answered for
LEMMA ListingShows ==
  ASSUME DeckTyped, Spread(deck.frames), NEW can \in BOOLEAN, NEW c \in BOOLEAN, c => can,
         NEW list \in FrameLists(can)
  PROVE  ShowsDeck(list, deck.frames, c, {})
<1> DEFINE table == deck.frames
           Items == {Redact(FrameItem(f), can) : f \in Existing}
           N == Cardinality(Items)
           image == [f \in Existing |-> Redact(FrameItem(f), can)]
<1>1. table \in FrameTable /\ Existing = Made(table) /\ \A f : FrameItem(f) = ItemOf(table, f)
  BY DEF DeckTyped, Existing, Made, FrameItem, ItemOf
<1>2. IsFiniteSet(Items) /\ N \in Nat
  <2>1. image \in Surjection(Existing, Items)
    BY DEF Surjection
  <2>2. IsFiniteSet(Existing)
    BY <1>1, MadeFinite
  <2> HIDE DEF image, Items
  <2>3. IsFiniteSet(Items)
    BY <2>1, <2>2, FS_Surjection
  <2> QED BY <2>3, FS_CardinalityType
<1>3. /\ list \in [1..N -> Items]
      /\ \A i, j \in 1..N : i # j => list[i] # list[j]
      /\ \A m, n \in DOMAIN list : m < n => list[m].pos <= list[n].pos
  BY DEF FrameLists, SetToSeqs
<1>4. \A x \in Items : \E f \in Made(table) : x = Redact(ItemOf(table, f), can)
  BY <1>1
<1>5. \A f \in Made(table) : Redact(ItemOf(table, f), can) \in Items
  BY <1>1
<1> HIDE DEF Items, N, table
<1>6. list \in Seq(Items) /\ Len(list) = N /\ DOMAIN list = 1..Len(list)
  BY <1>2, <1>3
<1>7. \A x \in Items : x \in ShownFrame /\ x.id \in Made(table) /\ x = Redact(ItemOf(table, x.id), can)
                       /\ x.pos = table[x.id].pos /\ Redact(x, c) = Redact(ItemOf(table, x.id), c)
  <2> TAKE x \in Items
  <2>1. PICK f \in Made(table) : x = Redact(ItemOf(table, f), can)
    BY <1>4
  <2>2. x \in ShownFrame /\ x.id = f /\ x.pos = table[f].pos /\ ItemOf(table, f) \in ShownFrame
    BY <2>1, <1>1, ItemIsShown
  <2>3. Redact(x, c) = Redact(ItemOf(table, f), c)
    BY <2>1, <2>2, RedactTwice
  <2> QED BY <2>1, <2>2, <2>3
<1>8. list \in Seq(ShownFrame)
  BY <1>6, <1>7, SeqMonotonic
<1>9. \A n \in 1..Len(list) : list[n] \in Items
  BY <1>6
<1>10. ASSUME NEW m \in 1..Len(list), NEW n \in 1..Len(list), list[m].id = list[n].id
       PROVE  m = n
  <2>1. list[m] = list[n]
    BY <1>7, <1>9, <1>10
  <2> QED BY <2>1, <1>3, <1>6
<1>11. \A n \in 1..Len(list) : list[n].pos = table[list[n].id].pos
  BY <1>7, <1>9
<1>12. \A m, n \in 1..Len(list) : m < n => list[m].pos <= list[n].pos
  BY <1>3, <1>6
<1>13. Spread(table)
  BY DEF table
<1>14. \A n \in 1..Len(list) : list[n].pos >= n - 1
  BY <1>1, <1>8, <1>10, <1>11, <1>12, <1>13, SortedPlaces
<1>15. ASSUME NEW f \in FrameIds, table[f].pos >= 0
       PROVE  HasFrame(list, f)
  <2>1. f \in Made(table)
    BY <1>15 DEF Made
  <2>2. list \in Surjection(1..N, Items)
    <3>1. list \in Injection(1..N, Items)
      BY <1>3 DEF Injection, IsInjective
    <3>2. IsFiniteSet(1..N) /\ Cardinality(1..N) = N
      BY <1>2, FS_Interval
    <3> QED BY <3>1, <3>2, <1>2, FS_Injection DEF N
  <2>3. PICK n \in 1..N : list[n] = Redact(ItemOf(table, f), can)
    BY <2>1, <2>2, <1>5 DEF Surjection
  <2>4. list[n].id = f
    BY <2>1, <2>3, <1>1, ItemIsShown
  <2> QED BY <2>4, <1>6 DEF HasFrame
<1>16. \A n \in 1..Len(list) : table[list[n].id].pos >= 0 /\ Redact(list[n], c) = Redact(ItemOf(table, list[n].id), c)
  BY <1>7, <1>9 DEF Made
<1>17. \A n \in 1..Len(list) : table[list[n].id].pos >= n - 1
  BY <1>11, <1>14
<1>18. ShowsDeck(list, table, c, {})
  BY <1>8, <1>10, <1>15, <1>16, <1>17 DEF ShowsDeck
<1> QED BY <1>18 DEF table

\* one row of the table changes: the list is right but for it
LEMMA WriteShows ==
  ASSUME NEW list, NEW table \in FrameTable, NEW can, NEW f \in FrameIds, NEW row \in FrameRow \cup {NoFrame},
         ShowsDeck(list, table, can, {}), row.pos >= 0 => row.pos = table[f].pos \/ ~HasFrame(list, f)
  PROVE  ShowsDeck(list, [table EXCEPT ![f] = row], can, {f})
<1> DEFINE new == [table EXCEPT ![f] = row]
<1>1. new[f] = row /\ \A g \in FrameIds : g # f => new[g] = table[g] /\ ItemOf(new, g) = ItemOf(table, g)
  BY DEF FrameTable, ItemOf
<1>2. \A n \in 1..Len(list) : list[n].id \in FrameIds
  <2>1. \A n \in 1..Len(list) : list[n] \in ShownFrame
    BY DEF ShowsDeck
  <2> QED BY <2>1 DEF ShownFrame
<1> HIDE DEF new
<1>3. \A n \in 1..Len(list) : list[n].id # f => new[list[n].id].pos >= 0 /\ Redact(list[n], can) = Redact(ItemOf(new, list[n].id), can)
  BY <1>1, <1>2 DEF ShowsDeck
<1>4. \A n \in 1..Len(list) : new[list[n].id].pos >= 0 => new[list[n].id].pos >= n - 1
  BY <1>1, <1>2 DEF ShowsDeck, HasFrame
<1>5. \A g \in FrameIds \ {f} : new[g].pos >= 0 => HasFrame(list, g)
  BY <1>1 DEF ShowsDeck
<1>6. ShowsDeck(list, new, can, {f})
  BY <1>3, <1>4, <1>5 DEF ShowsDeck
<1> QED BY <1>6 DEF new

LEMMA AddedShows ==
  ASSUME NEW list, NEW table \in FrameTable, NEW it \in ShownFrame,
         ShowsDeck(list, table, TRUE, {it.id}), ~HasFrame(list, it.id),
         it = ItemOf(table, it.id), it.pos >= Len(list)
  PROVE  ShowsDeck(Append(list, it), table, TRUE, {})
<1> DEFINE q == Append(list, it)
<1>1. list \in Seq(ShownFrame) /\ it.id \in FrameIds /\ it.pos \in Nat /\ table[it.id].pos = it.pos
  BY DEF ShownFrame, ShowsDeck, ItemOf
<1>2. q \in Seq(ShownFrame) /\ Len(q) = Len(list) + 1 /\ Len(list) \in Nat /\ q[Len(q)] = it
      /\ \A n \in 1..Len(list) : q[n] = list[n]
  BY <1>1, AppendProperties
<1> HIDE DEF q
<1>3. \A n \in 1..Len(q) : n = Len(q) \/ n \in 1..Len(list)
  BY <1>2
<1>4. \A n \in 1..Len(list) : n \in 1..Len(q) /\ n # Len(q) /\ q[n] = list[n] /\ q[n].id # it.id
  BY <1>2 DEF HasFrame
<1>5. \A m, n \in 1..Len(q) : q[m].id = q[n].id => m = n
  BY <1>2, <1>3, <1>4 DEF ShowsDeck
<1>6. \A n \in 1..Len(q) : table[q[n].id].pos >= 0 /\ Redact(q[n], TRUE) = Redact(ItemOf(table, q[n].id), TRUE)
  <2> TAKE n \in 1..Len(q)
  <2>1. CASE n = Len(q)
    <3>1. q[n] = it /\ table[it.id].pos >= 0
      BY <2>1, <1>1, <1>2
    <3> QED BY <3>1
  <2>2. CASE n \in 1..Len(list)
    <3>1. q[n] = list[n] /\ list[n].id \notin {it.id}
      BY <2>2, <1>4
    <3> QED BY <2>2, <3>1 DEF ShowsDeck
  <2> QED BY <2>1, <2>2, <1>3
<1>7. \A n \in 1..Len(q) : table[q[n].id].pos >= 0 => table[q[n].id].pos >= n - 1
  <2> TAKE n \in 1..Len(q)
  <2>1. CASE n = Len(q)
    BY <2>1, <1>1, <1>2
  <2>2. CASE n \in 1..Len(list)
    BY <2>2, <1>4 DEF ShowsDeck
  <2> QED BY <2>1, <2>2, <1>3
<1>8. \A f \in FrameIds : table[f].pos >= 0 => HasFrame(q, f)
  <2> SUFFICES ASSUME NEW f \in FrameIds, table[f].pos >= 0 PROVE HasFrame(q, f)
    OBVIOUS
  <2>1. CASE f = it.id
    <3>1. Len(q) \in 1..Len(q) /\ q[Len(q)].id = it.id
      BY <1>2
    <3> QED BY <2>1, <3>1 DEF HasFrame
  <2>2. CASE f # it.id
    <3>1. HasFrame(list, f)
      BY <2>2 DEF ShowsDeck
    <3> QED BY <3>1, <1>4 DEF HasFrame
  <2> QED BY <2>1, <2>2
<1>9. ShowsDeck(q, table, TRUE, {})
  BY <1>2, <1>5, <1>6, <1>7, <1>8 DEF ShowsDeck
<1> QED BY <1>9 DEF q

LEMMA PatchedShows ==
  ASSUME NEW list, NEW table \in FrameTable, NEW f \in FrameIds, NEW it \in ShownFrame, it = ItemOf(table, f),
         ShowsDeck(list, table, TRUE, {f}), HasFrame(list, f)
  PROVE  ShowsDeck([n \in DOMAIN list |-> IF list[n].id = f THEN it ELSE list[n]], table, TRUE, {})
<1> DEFINE q == [n \in DOMAIN list |-> IF list[n].id = f THEN it ELSE list[n]]
<1>1. list \in Seq(ShownFrame) /\ DOMAIN list = 1..Len(list) /\ Len(list) \in Nat
  BY DEF ShowsDeck
<1>2. it.id = f /\ it.pos = table[f].pos /\ it.pos \in Nat
  BY DEF ShownFrame, ItemOf
<1>3. \A n \in 1..Len(list) : q[n] \in ShownFrame /\ q[n].id = list[n].id /\ (list[n].id # f => q[n] = list[n])
                              /\ (list[n].id = f => q[n] = it)
  BY <1>1, <1>2
<1>4. q \in Seq(ShownFrame) /\ Len(q) = Len(list)
  <2>1. q \in [1..Len(list) -> ShownFrame]
    BY <1>1, <1>3
  <2> QED BY <2>1, <1>1
<1> HIDE DEF q
<1>5. \A m, n \in 1..Len(q) : q[m].id = q[n].id => m = n
  BY <1>3, <1>4 DEF ShowsDeck
<1>6. \A n \in 1..Len(q) : table[q[n].id].pos >= 0 /\ Redact(q[n], TRUE) = Redact(ItemOf(table, q[n].id), TRUE)
  <2> TAKE n \in 1..Len(q)
  <2>1. CASE list[n].id = f
    <3>1. q[n] = it /\ table[f].pos >= 0
      BY <2>1, <1>2, <1>3, <1>4
    <3> QED BY <3>1, <1>2
  <2>2. CASE list[n].id # f
    BY <2>2, <1>3, <1>4 DEF ShowsDeck
  <2> QED BY <2>1, <2>2
<1>7. \A n \in 1..Len(q) : table[q[n].id].pos >= 0 => table[q[n].id].pos >= n - 1
  BY <1>3, <1>4 DEF ShowsDeck
<1>8. \A g \in FrameIds : table[g].pos >= 0 => HasFrame(q, g)
  <2> SUFFICES ASSUME NEW g \in FrameIds, table[g].pos >= 0 PROVE HasFrame(list, g)
    BY <1>3, <1>4 DEF HasFrame
  <2> QED BY DEF ShowsDeck
<1>9. ShowsDeck(q, table, TRUE, {})
  BY <1>4, <1>5, <1>6, <1>7, <1>8 DEF ShowsDeck
<1> QED BY <1>9 DEF q

LEMMA DeletedShows ==
  ASSUME NEW list, NEW table \in FrameTable, NEW f \in FrameIds, table[f].pos < 0, ShowsDeck(list, table, TRUE, {f})
  PROVE  ShowsDeck(Without(list, f), table, TRUE, {})
<1> DEFINE w == Without(list, f)
<1>1. list \in Seq(ShownFrame)
  BY DEF ShowsDeck
<1>2. w \in Seq(ShownFrame)
  BY <1>1, WithoutPicks
<1>3. PICK h : PickedBy(h, w, list, f, Len(list))
  BY <1>1, WithoutPicks
<1> HIDE DEF w
<1>4. \A k \in 1..Len(w) : h[k] \in 1..Len(list) /\ k <= h[k] /\ w[k] = list[h[k]] /\ w[k].id # f
  BY <1>3 DEF PickedBy
<1>5. ASSUME NEW m \in 1..Len(w), NEW n \in 1..Len(w), w[m].id = w[n].id
      PROVE  m = n
  <2>1. h[m] = h[n]
    BY <1>4, <1>5 DEF ShowsDeck
  <2>2. ~(m < n) /\ ~(n < m)
    BY <2>1, <1>3, <1>4 DEF PickedBy
  <2> QED BY <2>2
<1>6. \A n \in 1..Len(w) : table[w[n].id].pos >= 0 /\ Redact(w[n], TRUE) = Redact(ItemOf(table, w[n].id), TRUE)
  <2> TAKE n \in 1..Len(w)
  <2>1. h[n] \in 1..Len(list) /\ list[h[n]].id \notin {f} /\ w[n] = list[h[n]]
    BY <1>4
  <2>2. table[list[h[n]].id].pos >= 0 /\ Redact(list[h[n]], TRUE) = Redact(ItemOf(table, list[h[n]].id), TRUE)
    BY <2>1 DEF ShowsDeck
  <2> QED BY <2>1, <2>2
<1>7. ASSUME NEW n \in 1..Len(w) PROVE table[w[n].id].pos >= n - 1
  <2>1. w[n].id \in FrameIds /\ table[w[n].id].pos >= 0
    <3>1. w[n] \in ShownFrame
      BY <1>2
    <3> QED BY <3>1, <1>6 DEF ShownFrame
  <2>2. table[w[n].id].pos \in Int
    BY <2>1 DEF FrameTable, FrameRow, NoFrame
  <2>3. table[w[n].id].pos >= h[n] - 1 /\ n <= h[n] /\ h[n] \in Nat
    BY <2>1, <1>4 DEF ShowsDeck
  <2> QED BY <2>2, <2>3
<1>8. \A g \in FrameIds : table[g].pos >= 0 => HasFrame(w, g)
  <2> SUFFICES ASSUME NEW g \in FrameIds, table[g].pos >= 0 PROVE HasFrame(w, g)
    OBVIOUS
  <2>1. g # f
    <3>1. table[g].pos \in Int
      BY DEF FrameTable, FrameRow, NoFrame
    <3> QED BY <3>1
  <2>2. HasFrame(list, g)
    BY <2>1 DEF ShowsDeck
  <2>3. PICK m \in 1..Len(list) : list[m].id = g
    BY <2>2 DEF HasFrame
  <2>4. PICK k \in 1..Len(w) : h[k] = m
    BY <2>1, <2>3, <1>3 DEF PickedBy
  <2> QED BY <2>3, <2>4, <1>4 DEF HasFrame
<1>9. ShowsDeck(w, table, TRUE, {})
  BY <1>2, <1>5, <1>6, <1>7, <1>8 DEF ShowsDeck
<1> QED BY <1>9 DEF w

\* once each statement of a reorder is made, each frame is at its place in the new order
LEMMA WrittenSpread ==
  ASSUME NEW table \in FrameTable, NEW k, PartWritten(k, table), Len(k.ans) = Len(k.arg), k.arg \in Seq(FrameIds)
  PROVE  Spread(table)
<1>1. Apart(table)
  <2> SUFFICES ASSUME NEW f \in Made(table), NEW g \in Made(table), table[f].pos = table[g].pos PROVE f = g
    BY DEF Apart
  <2>1. f \in FrameIds /\ g \in FrameIds /\ table[f].pos >= 0 /\ table[g].pos >= 0
    BY DEF Made
  <2>2. PICK m \in 1..Len(k.arg) : k.arg[m] = f
    BY <2>1 DEF PartWritten
  <2>3. PICK n \in 1..Len(k.arg) : k.arg[n] = g
    BY <2>1 DEF PartWritten
  <2>4. table[f].pos = m - 1 /\ table[g].pos = n - 1
    BY <2>2, <2>3 DEF PartWritten
  <2>5. m \in Nat /\ n \in Nat
    OBVIOUS
  <2>6. m = n
    <3>1. m - 1 = n - 1
      BY <2>4
    <3> QED BY <3>1, <2>5
  <2> QED BY <2>2, <2>3, <2>6
<1> QED BY <1>1, ApartSpread

\* What a page shows that is right: as many rows as frames, each as it is, and without gaps each at its place.
LEMMA ShownIsServed ==
  ASSUME NEW table \in FrameTable, NEW can \in BOOLEAN, NEW list, ShowsDeck(list, table, can, {})
  PROVE  /\ {Redact(list[n], can) : n \in 1..Len(list)} = {Redact(ItemOf(table, f), can) : f \in Made(table)}
         /\ Len(list) = Cardinality(Made(table))
         /\ {table[f].pos : f \in Made(table)} = 0..(Cardinality(Made(table)) - 1)
              => \A n \in 1..Len(list) : list[n].pos = n - 1
<1>1. list \in Seq(ShownFrame) /\ Len(list) \in Nat /\ \A n \in 1..Len(list) : list[n] \in ShownFrame /\ list[n].id \in FrameIds
  <2>1. list \in Seq(ShownFrame) /\ Len(list) \in Nat /\ \A n \in 1..Len(list) : list[n] \in ShownFrame
    BY DEF ShowsDeck
  <2> QED BY <2>1 DEF ShownFrame
<1>2. \A n \in 1..Len(list) : list[n].id \in Made(table) /\ Redact(list[n], can) = Redact(ItemOf(table, list[n].id), can)
  BY <1>1 DEF ShowsDeck, Made
<1>3. \A f \in Made(table) : \E n \in 1..Len(list) : list[n].id = f
  BY DEF ShowsDeck, Made, HasFrame
<1>4. {Redact(list[n], can) : n \in 1..Len(list)} = {Redact(ItemOf(table, f), can) : f \in Made(table)}
  <2>1. \A n \in 1..Len(list) : \E f \in Made(table) : Redact(list[n], can) = Redact(ItemOf(table, f), can)
    BY <1>2
  <2>2. \A f \in Made(table) : \E n \in 1..Len(list) : Redact(list[n], can) = Redact(ItemOf(table, f), can)
    BY <1>2, <1>3
  <2> QED BY <2>1, <2>2
<1> DEFINE h == [n \in 1..Len(list) |-> list[n].id]
<1>5. h \in Bijection(1..Len(list), Made(table))
  <2>1. h \in Injection(1..Len(list), Made(table))
    BY <1>2 DEF Injection, IsInjective, ShowsDeck
  <2>2. h \in Surjection(1..Len(list), Made(table))
    BY <1>2, <1>3 DEF Surjection
  <2> QED BY <2>1, <2>2 DEF Bijection
<1>6. Cardinality(Made(table)) = Len(list)
  <2>1. ExistsBijection(1..Len(list), Made(table))
    BY <1>5 DEF ExistsBijection
  <2> QED BY <2>1, <1>1, FS_CountingElements
<1>7. ASSUME {table[f].pos : f \in Made(table)} = 0..(Cardinality(Made(table)) - 1)
      PROVE  \A n \in 1..Len(list) : list[n].pos = n - 1
  <2>1. Apart(table)
    BY <1>7, NoGapApart
  <2>2. \A n \in 1..Len(list) : /\ list[n].pos = table[list[n].id].pos /\ list[n].pos \in Nat
                                /\ list[n].pos >= n - 1 /\ list[n].pos \in 0..(Len(list) - 1)
    <3> TAKE n \in 1..Len(list)
    <3>1. list[n].pos = table[list[n].id].pos
      <4> DEFINE a == list[n]
                 b == ItemOf(table, list[n].id)
      <4>1. \A x, y : Redact(x, can) = Redact(y, can) /\ x \in ShownFrame /\ y \in ShownFrame => x.pos = y.pos
        BY DEF Redact, ShownFrame
      <4>2. b \in ShownFrame /\ b.pos = table[list[n].id].pos
        BY <1>2, ItemIsShown
      <4> HIDE DEF b
      <4>3. Redact(list[n], can) = Redact(b, can)
        BY <1>2 DEF b
      <4> QED BY <4>1, <4>2, <4>3, <1>1
    <3>2. list[n].pos \in Nat
      BY <1>1 DEF ShownFrame
    <3>3. list[n].pos >= n - 1
      BY <3>1, <3>2 DEF ShowsDeck
    <3>4. table[list[n].id].pos \in {table[f].pos : f \in Made(table)}
      BY <1>2
    <3>5. list[n].pos \in 0..(Len(list) - 1)
      BY <3>1, <3>4, <1>6, <1>7
    <3> QED BY <3>1, <3>2, <3>3, <3>5
  <2>3. \A m, n \in 1..Len(list) : list[m].pos = list[n].pos => m = n
    BY <2>1, <2>2, <1>2, SMTT(30) DEF Apart, ShowsDeck
  <2> DEFINE Late == {k \in Nat : \E n \in 1..Len(list) : k = Len(list) - n /\ list[n].pos # n - 1}
  <2>4. SUFFICES ASSUME Late # {} PROVE FALSE
    <3>1. \A n \in 1..Len(list) : Len(list) - n \in Nat
      BY <1>1
    <3> QED BY <3>1
  <2>5. PICK k \in Late : \A j \in Late : k <= j
    <3>1. Late \in SUBSET Nat
      OBVIOUS
    <3> HIDE DEF Late
    <3> QED BY <3>1, <2>4, Least
  <2>6. PICK n \in 1..Len(list) : k = Len(list) - n /\ list[n].pos # n - 1
    OBVIOUS
  <2> DEFINE m == list[n].pos + 1
  <2>a. list[n].pos \in Nat /\ list[n].pos >= n - 1 /\ list[n].pos \in 0..(Len(list) - 1) /\ m - 1 = list[n].pos
    BY <2>2
  <2>7. m \in 1..Len(list) /\ m > n
    BY <2>a, <2>6, <1>1
  <2>8. list[m].pos = m - 1
    <3>1. Len(list) - m \in Nat /\ Len(list) - m < k
      <4> HIDE DEF m, Late
      <4> QED BY <2>6, <2>7, <1>1
    <3>2. ~(Len(list) - m \in Late)
      <4>1. k \in Nat /\ \A j \in Late : k <= j
        BY <2>5
      <4> HIDE DEF Late
      <4> QED BY <3>1, <4>1
    <3> HIDE DEF m
    <3> QED BY <3>1, <3>2, <2>7
  <2>9. list[m].pos = list[n].pos
    BY <2>8, <2>a
  <2> HIDE DEF m
  <2> QED BY <2>9, <2>3, <2>6, <2>7
<1> QED BY <1>4, <1>6, <1>7

(* The row an insert writes: everything but the place is the column's default. *)
LEMMA FreshRow ==
  ASSUME NEW p \in Nat
  PROVE  LET row == [NoFrame EXCEPT !.pos = p]
         IN  row \in FrameRow /\ row.pos = p /\ row.notes = FALSE /\ row.nav = {}
BY DEF NoFrame, FrameRow


-----------------------------------------------------------------------------
(* The steps of the presentation editor                                    *)

LEMMA DeskInvInit == PresentationInit => DeskInv
<1> SUFFICES ASSUME PresentationInit PROVE DeskInv
  OBVIOUS
<1>1. deck.frames \in Decks /\ deck = [frames |-> deck.frames, snap |-> deck.snap, expired |-> deck.expired]
  BY DEF PresentationInit
<1>2. /\ deck.frames \in [FrameIds -> [pos : -1..(Cardinality(FrameIds) - 1), notes : {FALSE}, nav : SUBSET FrameIds]]
      /\ {deck.frames[i].pos : i \in Made(deck.frames)} = 0..(Cardinality(Made(deck.frames)) - 1)
      /\ \A i \in FrameIds : i \notin Made(deck.frames) => deck.frames[i] = NoFrame
  BY <1>1 DEF Decks, Made
<1>3. deck.frames \in FrameTable
  <2>1. Cardinality(FrameIds) \in Nat
    BY PresentationsAssumption, FS_CardinalityType
  <2>2. \A i \in FrameIds : deck.frames[i] \in FrameRow \cup {NoFrame}
    <3> TAKE i \in FrameIds
    <3>1. deck.frames[i] \in [pos : -1..(Cardinality(FrameIds) - 1), notes : {FALSE}, nav : SUBSET FrameIds]
      BY <1>2
    <3>2. CASE i \in Made(deck.frames)
      <4>1. deck.frames[i].pos >= 0
        BY <3>2 DEF Made
      <4>2. deck.frames[i].pos \in Nat
        <5>1. deck.frames[i].pos \in -1..(Cardinality(FrameIds) - 1)
          BY <3>1
        <5> QED BY <5>1, <4>1, <2>1
      <4> QED BY <3>1, <4>2 DEF FrameRow
    <3> QED BY <1>2, <3>2
  <2> QED BY <1>2, <2>2 DEF FrameTable
<1>4. Spread(deck.frames)
  BY <1>2, <1>3, NoGapApart, ApartSpread
<1>5. DeckTyped
  <2>1. shares \in [Links -> {NoLink} \cup [st : {"active"}, role : DOMAIN RoleRank, kind : {"diagram", "presentation"}]]
    BY DEF PresentationInit
  <2>2. \A l \in Links : shares[l] = [x \in {"st", "role", "kind"} |-> shares[l][x]]
    BY <2>1 DEF NoLink
  <2> QED BY <1>1, <1>3, <2>1, <2>2 DEF DeckTyped
<1>6. /\ desk = [status |-> "loading", frames |-> <<>>, can |-> FALSE, published |-> FALSE, links |-> <<>>, said |-> "nothing"]
      /\ asks = [a \in Asks |-> NoAsk]
  BY DEF PresentationInit
<1>7. DeskTyped /\ AsksTyped /\ OneAsk /\ Quiet /\ desk.status # "ready" /\ \A a \in Asks : Idle(a)
  BY <1>6 DEF DeskTyped, DeskFields, AsksTyped, OneAsk, Quiet, Idle, NoAsk
<1> QED BY <1>4, <1>5, <1>7 DEF DeskInv

\* steps that touch neither the frames, the page nor its requests
LEMMA AsideSteps ==
  ASSUME DeskInv, calm' => calm, deck' = [deck EXCEPT !.snap = deck'.snap, !.expired = deck'.expired],
         UNCHANGED <<shares, asks>>, desk' = [desk EXCEPT !.status = desk'.status],
         desk'.status = desk.status \/ (desk.status # "ready" /\ desk'.status # "ready")
  PROVE  DeskInv'
<1> SUFFICES ASSUME calm' PROVE DeskInv'
  BY DEF DeskInv
<1>1. /\ DeckTyped /\ DeskTyped /\ AsksTyped /\ OneAsk
      /\ desk.status # "ready" => Quiet /\ Spread(deck.frames)
      /\ \A a \in Asks : ~Idle(a) => AskHolds(asks[a], deck.frames, shares, desk)
      /\ desk.status = "ready" /\ Quiet => ShowsDeck(desk.frames, deck.frames, desk.can, {})
  BY DEF DeskInv
<1>2. deck'.frames = deck.frames /\ DeckTyped'
  BY <1>1 DEF DeckTyped
<1>3. desk'.frames = desk.frames /\ desk'.can = desk.can /\ desk'.links = desk.links /\ DeskTyped'
  BY <1>1 DEF DeskTyped, DeskFields
<1>4. AsksTyped' /\ OneAsk' /\ (Quiet <=> Quiet') /\ \A a : Idle(a) <=> Idle(a)'
  BY <1>1 DEF AsksTyped, OneAsk, Idle, Quiet
<1>5. ASSUME NEW a \in Asks, ~Idle(a)'
      PROVE  AskHolds(asks[a], deck'.frames, shares, desk')
  <2>1. AskHolds(asks[a], deck.frames, shares, desk)
    BY <1>1, <1>4, <1>5
  <2>2. AskHolds(asks[a], deck.frames, shares, desk')
    BY <2>1, <1>3 DEF AskHolds, AskTyped, AnswerWaits
  <2> QED BY <2>2, <1>2
<1> QED BY <1>1, <1>2, <1>3, <1>4, <1>5 DEF DeskInv

LEMMA SeqItems ==
  ASSUME NEW T, NEW q \in Seq(T)
  PROVE  DOMAIN q = 1..Len(q) /\ Len(q) \in Nat /\ \A n \in DOMAIN q : q[n] \in T
OBVIOUS

LEMMA Weaker ==
  ASSUME NEW m \in BOOLEAN, NEW c \in {FALSE, m} PROVE c \in BOOLEAN /\ (c => m)
<1>1. CASE c = FALSE
  BY <1>1
<1>2. CASE c = m
  BY <1>2
<1> QED BY <1>1, <1>2

LEMMA LoadEditorStep ==
  ASSUME DeskInv, LoadEditor PROVE DeskInv'
<1>1. desk.status = "loading" /\ UNCHANGED <<serverVars, asks, asked, seat, calm>>
  BY DEF LoadEditor
<1>2. CASE desk' = [desk EXCEPT !.status = "not_found"]
  <2> SUFFICES ASSUME calm PROVE DeskInv'
    BY <1>1 DEF DeskInv
  <2>1. DeckTyped /\ DeskTyped
    BY DEF DeskInv
  <2>2. desk'.status = "not_found" /\ desk' = [desk EXCEPT !.status = desk'.status]
    BY <1>2, <2>1 DEF DeskTyped, DeskFields
  <2>3. deck' = deck /\ deck' = [deck EXCEPT !.snap = deck'.snap, !.expired = deck'.expired]
    BY <1>1, <2>1 DEF DeckTyped, serverVars
  <2> QED BY <1>1, <2>2, <2>3, AsideSteps DEF serverVars
<1>3. ASSUME NEW l \in FrameLists(MayMutate(standing)), NEW can \in {FALSE, MayMutate(standing)},
             desk' = [desk EXCEPT !.status = "ready", !.frames = l, !.can = can, !.published = deck.snap # 0]
      PROVE  DeskInv'
  <2> SUFFICES ASSUME calm PROVE DeskInv'
    BY <1>1 DEF DeskInv
  <2>1. DeckTyped /\ DeskTyped /\ AsksTyped /\ OneAsk /\ Quiet /\ Spread(deck.frames)
    BY <1>1 DEF DeskInv
  <2>2. MayMutate(standing) \in BOOLEAN /\ can \in BOOLEAN /\ (can => MayMutate(standing))
    <3>1. MayMutate(standing) \in BOOLEAN
      BY DEF MayMutate
    <3> QED BY <3>1, Weaker
  <2>3. ShowsDeck(l, deck.frames, can, {})
    BY <2>1, <2>2, ListingShows
  <2>4. desk'.status = "ready" /\ desk'.frames = l /\ desk'.can = can /\ DeskTyped'
    BY <1>1, <1>3, <2>1, <2>2 DEF DeskTyped, DeskFields, serverVars
  <2>5. DeckTyped' /\ AsksTyped' /\ OneAsk' /\ Quiet' /\ \A a \in Asks : Idle(a)'
    BY <1>1, <2>1 DEF DeckTyped, AsksTyped, OneAsk, Quiet, Idle, serverVars
  <2>6. ShowsDeck(desk'.frames, deck'.frames, desk'.can, {})
    BY <2>3, <2>4, <1>1 DEF serverVars
  <2> QED BY <2>4, <2>5, <2>6 DEF DeskInv
<1> QED BY <1>2, <1>3 DEF LoadEditor

\* a request is sent: the list it saw is right
LEMMA SendKeeps ==
  ASSUME DeskInv, NEW a \in Asks, NEW op \in AskOps, NEW i, NEW arg, SendAsk(a, op, i, arg),
         desk' = [desk EXCEPT !.frames = desk'.frames],
         calm => AskTyped(AskOf(op, i, arg), desk')
  PROVE  DeskInv'
<1>1. asks' = [asks EXCEPT ![a] = AskOf(op, i, arg)] /\ calm' = (calm /\ Quiet) /\ UNCHANGED serverVars
      /\ desk.status = "ready"
  BY DEF SendAsk
<1> SUFFICES ASSUME calm, Quiet PROVE DeskInv'
  BY <1>1 DEF DeskInv
<1> DEFINE k == AskOf(op, i, arg)
<1>2. DeckTyped /\ DeskTyped /\ AsksTyped /\ ShowsDeck(desk.frames, deck.frames, desk.can, {})
  BY <1>1 DEF DeskInv
<1>3. k.op = op /\ k.st = "sent" /\ k.seen = desk.frames /\ op # "none"
  BY DEF AskOf, AskOps, FrameOps
<1> HIDE DEF k
<1>4. asks'[a] = k /\ \A b \in Asks : b # a => Idle(b)'
  BY <1>1, <1>2 DEF AsksTyped, Idle, Quiet, k
<1>5. AsksTyped' /\ OneAsk' /\ ~Quiet'
  <2>1. asks' = [b \in Asks |-> asks'[b]]
    BY <1>1, <1>2 DEF AsksTyped
  <2> QED BY <1>3, <1>4, <2>1 DEF AsksTyped, OneAsk, Idle, Quiet
<1>6. DeckTyped' /\ deck' = deck /\ shares' = shares
  BY <1>1, <1>2 DEF DeckTyped, serverVars
<1>7. desk'.can = desk.can /\ desk'.status = "ready" /\ DeskTyped'
  BY <1>1, <1>2, <1>6 DEF DeskTyped, DeskFields
<1>8. AskHolds(k, deck'.frames, shares', desk')
  <2>1. AskTyped(k, desk')
    BY DEF k
  <2> QED BY <1>2, <1>3, <1>6, <1>7, <2>1 DEF AskHolds
<1>9. \A b \in Asks : ~Idle(b)' => AskHolds(asks'[b], deck'.frames, shares', desk')
  BY <1>4, <1>8
<1> QED BY <1>5, <1>6, <1>7, <1>9 DEF DeskInv

LEMMA ShownIds ==
  ASSUME DeskInv, calm, desk.status = "ready", Quiet
  PROVE  /\ desk.frames \in Seq(ShownFrame) /\ desk.can \in BOOLEAN
         /\ DOMAIN desk.frames = 1..Len(desk.frames) /\ Len(desk.frames) \in Nat
         /\ \A n \in 1..Len(desk.frames) : desk.frames[n] \in ShownFrame /\ desk.frames[n].id \in FrameIds
         /\ \A m, n \in 1..Len(desk.frames) : desk.frames[m].id = desk.frames[n].id => m = n
         /\ \A f \in ShownDeck : f \in FrameIds /\ HasFrame(desk.frames, f)
         /\ desk = [x \in DeskFields |-> desk[x]]
<1>1. ShowsDeck(desk.frames, deck.frames, desk.can, {}) /\ DeskTyped
  BY DEF DeskInv
<1>2. desk.frames \in Seq(ShownFrame) /\ \A m, n \in 1..Len(desk.frames) : desk.frames[m].id = desk.frames[n].id => m = n
  BY <1>1 DEF ShowsDeck
<1>3. DOMAIN desk.frames = 1..Len(desk.frames) /\ Len(desk.frames) \in Nat /\ \A n \in 1..Len(desk.frames) : desk.frames[n] \in ShownFrame
  BY <1>2
<1> QED BY <1>1, <1>2, <1>3 DEF ShownFrame, ShownDeck, HasFrame, DeskTyped

LEMMA SendSteps ==
  ASSUME DeskInv, NEW a \in Asks,
         \/ HandleAddFrame(a) \/ SaveNotes(a) \/ SaveNavLinks(a) \/ HandleDeleteFrame(a)
         \/ HandlePublish(a) \/ HandleExportPdf(a) \/ ShareLinkPanel(a) \/ PresentationSharePanel(a) \/ HandleRevoke(a)
  PROVE  DeskInv'
<1> USE DEF FrameOps, AskOps
<1> DEFINE Sends(op, i, arg) ==
        /\ SendAsk(a, op, i, arg) /\ UNCHANGED desk
        /\ op # "revoke" => desk.can
        /\ op # "move"
        /\ op \in {"notes", "nav", "delete"} => i \in ShownDeck
        /\ op = "add" => arg = Len(desk.frames)
        /\ op = "notes" => arg = TRUE
        /\ op = "nav" => arg \in {desk.frames[AtIndex(i)].nav} \cup SUBSET (ShownDeck \ {i})
        /\ op = "revoke" => \E n \in DOMAIN desk.links : i = desk.links[n].id
<1>1. \E op \in AskOps : \E i, arg : Sends(op, i, arg)
  <2>1. CASE HandleAddFrame(a)
    <3>1. Sends("add", "none", Len(desk.frames))
      BY <2>1 DEF HandleAddFrame, OffersEdits
    <3> QED BY <3>1
  <2>2. CASE SaveNotes(a)
    <3>1. PICK f \in ShownDeck : OffersEdits /\ SendAsk(a, "notes", f, TRUE) /\ UNCHANGED desk
      BY <2>2 DEF SaveNotes
    <3>2. Sends("notes", f, TRUE)
      BY <3>1 DEF OffersEdits
    <3> QED BY <3>2
  <2>3. CASE SaveNavLinks(a)
    <3>1. PICK f \in ShownDeck : \E targets \in {desk.frames[AtIndex(f)].nav} \cup SUBSET (ShownDeck \ {f}) :
            OffersEdits /\ SendAsk(a, "nav", f, targets) /\ UNCHANGED desk
      BY <2>3 DEF SaveNavLinks
    <3>2. PICK targets \in {desk.frames[AtIndex(f)].nav} \cup SUBSET (ShownDeck \ {f}) :
            OffersEdits /\ SendAsk(a, "nav", f, targets) /\ UNCHANGED desk
      BY <3>1
    <3>3. Sends("nav", f, targets)
      BY <3>1, <3>2 DEF OffersEdits
    <3> QED BY <3>3
  <2>4. CASE HandleDeleteFrame(a)
    <3>1. PICK f \in ShownDeck : Sends("delete", f, 0)
      BY <2>4 DEF HandleDeleteFrame, OffersEdits
    <3> QED BY <3>1
  <2>5. CASE HandlePublish(a)
    <3>1. Sends("publish", "none", 0)
      BY <2>5 DEF HandlePublish, OffersEdits
    <3> QED BY <3>1
  <2>6. CASE HandleExportPdf(a)
    <3>1. Sends("export", "none", 0)
      BY <2>6 DEF HandleExportPdf, OffersExport
    <3> QED BY <3>1
  <2>7. ASSUME NEW kind, Share(a, kind)
        PROVE  \E op \in AskOps : \E i, arg : Sends(op, i, arg)
    <3>1. PICK role \in DOMAIN RoleRank : OffersEdits /\ SendAsk(a, "share", "none", [role |-> role, kind |-> kind]) /\ UNCHANGED desk
      BY <2>7 DEF Share
    <3>2. Sends("share", "none", [role |-> role, kind |-> kind])
      BY <3>1 DEF OffersEdits
    <3> QED BY <3>2
  <2>8. CASE HandleRevoke(a)
    <3>1. PICK n \in DOMAIN desk.links : SendAsk(a, "revoke", desk.links[n].id, 0) /\ UNCHANGED desk
      BY <2>8 DEF HandleRevoke
    <3>2. Sends("revoke", desk.links[n].id, 0)
      BY <3>1
    <3> QED BY <3>2
  <2>9. CASE ShareLinkPanel(a) \/ PresentationSharePanel(a)
    BY <2>7, <2>9 DEF ShareLinkPanel, PresentationSharePanel
  <2> HIDE DEF Sends
  <2> QED BY <2>1, <2>2, <2>3, <2>4, <2>5, <2>6, <2>8, <2>9
<1>a. PICK op \in AskOps : \E i, arg : Sends(op, i, arg)
  BY <1>1
<1>b. PICK i, arg : Sends(op, i, arg)
  BY <1>a
<1>2. calm' = (calm /\ Quiet) /\ desk.status = "ready"
  BY <1>b DEF SendAsk
<1> SUFFICES ASSUME calm, Quiet PROVE DeskInv'
  BY <1>2 DEF DeskInv
<1>3. DeskTyped /\ desk' = [desk EXCEPT !.frames = desk'.frames]
  BY <1>b DEF DeskInv, DeskTyped, DeskFields
<1> DEFINE k == AskOf(op, i, arg)
<1>4. /\ k = [op |-> op, id |-> i, arg |-> arg, st |-> "sent", seen |-> desk.frames, ans |-> <<>>]
      /\ IsAsk(k)
  BY DEF AskOf, IsAsk, AskFields
<1> HIDE DEF k
<1>5. op = "nav" => arg \in SUBSET FrameIds
  <2> SUFFICES ASSUME op = "nav" PROVE arg \in SUBSET FrameIds
    OBVIOUS
  <2>1. i \in ShownDeck
    BY <1>b
  <2>2. AtIndex(i) \in DOMAIN desk.frames
    BY <2>1 DEF AtIndex, ShownDeck
  <2>3. desk.frames[AtIndex(i)].nav \in SUBSET FrameIds
    BY <2>2, <1>2, ShownIds DEF ShownFrame
  <2> QED BY <2>3, <1>b, <1>2, ShownIds
<1>6. op = "revoke" => i \in Links
  <2>1. \A n \in DOMAIN desk.links : desk.links[n] \in [id : Links, revoked : BOOLEAN]
    <3>1. desk.links \in Seq([id : Links, revoked : BOOLEAN])
      BY <1>3 DEF DeskTyped
    <3> QED BY <3>1, SeqItems
  <2>2. \A n \in DOMAIN desk.links : desk.links[n].id \in Links
    BY <2>1
  <2>3. op = "revoke" => \E n \in DOMAIN desk.links : i = desk.links[n].id
    BY <1>b
  <2> HIDE DEF Sends
  <2> QED BY <2>2, <2>3
<1>7. AskTyped(k, desk)
  BY <1>b, <1>2, <1>4, <1>5, <1>6, ShownIds DEF AskTyped
<1>8. AskTyped(AskOf(op, i, arg), desk')
  BY <1>b, <1>7 DEF k
<1> QED BY <1>b, <1>3, <1>8, SendKeeps

LEMMA MoveFrameStep ==
  ASSUME DeskInv, NEW a \in Asks, MoveFrame(a) PROVE DeskInv'
<1>1. PICK n \in DOMAIN desk.frames \ {Len(desk.frames)} :
        LET order == [k \in DOMAIN desk.frames |->
                        IF k = n THEN desk.frames[n + 1] ELSE IF k = n + 1 THEN desk.frames[n] ELSE desk.frames[k]]
        IN /\ OffersEdits
           /\ SendAsk(a, "move", "none", [k \in DOMAIN order |-> order[k].id])
           /\ desk' = [desk EXCEPT !.frames = order]
  BY DEF MoveFrame
<1> DEFINE old == desk.frames
           order == [k \in DOMAIN old |-> IF k = n THEN old[n + 1] ELSE IF k = n + 1 THEN old[n] ELSE old[k]]
           arg == [k \in DOMAIN order |-> order[k].id]
<1>2. desk.can /\ SendAsk(a, "move", "none", arg) /\ desk' = [desk EXCEPT !.frames = order]
  BY <1>1 DEF OffersEdits
<1>3. calm' = (calm /\ Quiet) /\ desk.status = "ready"
  BY <1>2 DEF SendAsk
<1> SUFFICES ASSUME calm, Quiet PROVE DeskInv'
  BY <1>3 DEF DeskInv
<1>4. /\ DOMAIN old = 1..Len(old) /\ Len(old) \in Nat
      /\ \A k \in 1..Len(old) : old[k].id \in FrameIds
      /\ \A j, k \in 1..Len(old) : old[j].id = old[k].id => j = k
      /\ desk = [x \in DeskFields |-> desk[x]]
  BY <1>3, ShownIds
<1>5. n \in 1..Len(old) /\ n + 1 \in 1..Len(old)
  BY <1>1, <1>4
<1> DEFINE swap(k) == IF k = n THEN n + 1 ELSE IF k = n + 1 THEN n ELSE k
<1>6. \A k \in 1..Len(old) : swap(k) \in 1..Len(old) /\ swap(swap(k)) = k /\ arg[k] = old[swap(k)].id
  BY <1>4, <1>5
<1>7. arg = [k \in 1..Len(old) |-> arg[k]]
  BY <1>4
<1>8. DeskFields = {"status", "frames", "can", "published", "links", "said"}
  BY DEF DeskFields
<1>9. desk' = [desk EXCEPT !.frames = desk'.frames] /\ desk'.can
  BY <1>2, <1>4, <1>8
<1> HIDE DEF arg, swap, order
<1>10. Reorders(arg, old)
  <2>1. arg \in [1..Len(old) -> FrameIds]
    <3>1. \A k \in 1..Len(old) : arg[k] \in FrameIds
      BY <1>4, <1>6
    <3> HIDE DEF old
    <3> QED BY <3>1, <1>7
  <2>2. arg \in Seq(FrameIds) /\ Len(arg) = Len(old)
    BY <2>1, <1>4
  <2>3. \A j, k \in 1..Len(old) : arg[j] = arg[k] => j = k
    <3> SUFFICES ASSUME NEW j \in 1..Len(old), NEW k \in 1..Len(old), arg[j] = arg[k] PROVE j = k
      OBVIOUS
    <3>1. swap(j) = swap(k)
      BY <1>4, <1>6
    <3> QED BY <3>1, <1>6
  <2>4. \A k \in 1..Len(old) : HasFrame(old, arg[k])
    BY <1>6 DEF HasFrame
  <2>5. \A k \in 1..Len(old) : \E m \in 1..Len(old) : arg[m] = old[k].id
    BY <1>6
  <2> QED BY <2>2, <2>3, <2>4, <2>5 DEF Reorders
<1> DEFINE ask == AskOf("move", "none", arg)
<1>11. ask = [op |-> "move", id |-> "none", arg |-> arg, st |-> "sent", seen |-> old, ans |-> <<>>] /\ IsAsk(ask)
  BY DEF AskOf, IsAsk, AskFields
<1> HIDE DEF ask
<1>12. AskTyped(ask, desk')
  BY <1>9, <1>10, <1>11 DEF AskTyped, AskOps, FrameOps
<1>13. "move" \in AskOps
  BY DEF AskOps, FrameOps
<1>14. AskTyped(AskOf("move", "none", arg), desk')
  BY <1>12 DEF ask
<1> QED BY <1>2, <1>9, <1>13, <1>14, SendKeeps


Answered(k, st, ans) == [k EXCEPT !.st = st, !.ans = ans]

LEMMA AnsweredIs ==
  ASSUME NEW k, IsAsk(k), NEW st, NEW ans
  PROVE  LET q == Answered(k, st, ans)
         IN IsAsk(q) /\ q.op = k.op /\ q.id = k.id /\ q.arg = k.arg /\ q.seen = k.seen /\ q.st = st /\ q.ans = ans
BY DEF Answered, IsAsk, AskFields

\* the server does a part of a request
LEMMA ServeKeeps ==
  ASSUME DeskInv, NEW a \in Asks, ~Idle(a), NEW st, NEW ans, AskAnswered(a, st, ans), calm' => calm, UNCHANGED desk,
         calm => DeckTyped' /\ \A l \in Links : shares[l].st \notin {"none", "active"} => shares'[l].st \notin {"none", "active"},
         calm' => AskHolds(Answered(asks[a], st, ans), deck'.frames, shares', desk)
  PROVE  DeskInv'
<1> SUFFICES ASSUME calm, calm' PROVE DeskInv'
  BY DEF DeskInv
<1>1. DeskTyped /\ AsksTyped /\ OneAsk /\ AskHolds(asks[a], deck.frames, shares, desk) /\ desk.status = "ready"
  BY DEF DeskInv, Quiet, Idle
<1> DEFINE k == Answered(asks[a], st, ans)
<1>2. IsAsk(asks[a]) /\ asks[a].op # "none"
  BY <1>1 DEF AskHolds, AskTyped, Idle
<1>3. k.op = asks[a].op
  BY <1>2, AnsweredIs
<1>4. asks' = [asks EXCEPT ![a] = k]
  BY <1>1 DEF AskAnswered, AsksTyped, Answered
<1> HIDE DEF k
<1>5. asks'[a] = k /\ (\A b \in Asks : b # a => asks'[b] = asks[b] /\ asks[b].op = "none") /\ asks' = [b \in Asks |-> asks'[b]]
  BY <1>1, <1>2, <1>4 DEF AsksTyped, OneAsk, Idle
<1>6. AsksTyped' /\ OneAsk' /\ ~Quiet'
  BY <1>2, <1>3, <1>5 DEF AsksTyped, OneAsk, Idle, Quiet
<1>7. \A b \in Asks : ~Idle(b)' => AskHolds(asks'[b], deck'.frames, shares', desk')
  BY <1>5 DEF Idle, k
<1>8. DeskTyped'
  <2>1. \A n \in 1..Len(desk.links) : desk.links[n].id \in Links
    <3>1. desk.links \in Seq([id : Links, revoked : BOOLEAN])
      BY <1>1 DEF DeskTyped
    <3>2. \A n \in 1..Len(desk.links) : desk.links[n] \in [id : Links, revoked : BOOLEAN]
      BY <3>1, SeqItems
    <3> QED BY <3>2
  <2> QED BY <1>1, <2>1 DEF DeskTyped
<1> QED BY <1>1, <1>6, <1>7, <1>8 DEF DeskInv

LEMMA FailHolds ==
  ASSUME NEW k, NEW table, NEW links, NEW links2, NEW d, NEW st, NEW ans, AskHolds(k, table, links, d),
         k.st \notin {"ok", "writing"}, st \notin {"ok", "writing"}
  PROVE  AskHolds(Answered(k, st, ans), table, links2, d)
<1> DEFINE q == Answered(k, st, ans)
<1>1. IsAsk(q) /\ q.op = k.op /\ q.id = k.id /\ q.arg = k.arg /\ q.seen = k.seen /\ q.st = st
  BY AnsweredIs DEF AskHolds, AskTyped
<1> HIDE DEF q
<1>2. AskHolds(q, table, links2, d)
  BY <1>1 DEF AskHolds, AskTyped
<1> QED BY <1>2 DEF q

\* an answer to a request that is not about the frames
LEMMA PlainHolds ==
  ASSUME NEW k, NEW table, NEW links, NEW links2, NEW d, NEW ans, AskHolds(k, table, links, d),
         k.st \notin {"ok", "writing"}, k.op \notin FrameOps,
         k.op = "share" => ans \in Links, k.op = "revoke" => links2[k.id].st \notin {"none", "active"}
  PROVE  AskHolds(Answered(k, "ok", ans), table, links2, d)
<1> DEFINE q == Answered(k, "ok", ans)
<1>1. IsAsk(q) /\ q.op = k.op /\ q.id = k.id /\ q.arg = k.arg /\ q.seen = k.seen /\ q.st = "ok" /\ q.ans = ans
  BY AnsweredIs DEF AskHolds, AskTyped
<1> HIDE DEF q
<1>2. AskHolds(q, table, links2, d)
  BY <1>1 DEF AskHolds, AskTyped, AnswerWaits, FrameOps
<1> QED BY <1>2 DEF q

\* what an action of the server starts from
LEMMA Served ==
  ASSUME DeskInv, calm, NEW a \in Asks, ~Idle(a)
  PROVE  /\ DeckTyped /\ deck.frames \in FrameTable /\ Existing = Made(deck.frames)
         /\ desk.can \in BOOLEAN /\ AskHolds(asks[a], deck.frames, shares, desk)
         /\ (asks[a].op # "revoke" => desk.can = TRUE)
         /\ asks[a].op \in AskOps /\ IsAsk(asks[a])
<1>1. DeckTyped /\ DeskTyped /\ AskHolds(asks[a], deck.frames, shares, desk)
  BY DEF DeskInv
<1>2. deck.frames \in FrameTable /\ Existing = Made(deck.frames) /\ desk.can \in BOOLEAN
  BY <1>1 DEF DeckTyped, DeskTyped, Existing, Made
<1>3. asks[a].op \in AskOps /\ IsAsk(asks[a]) /\ (asks[a].op # "revoke" => desk.can)
  BY <1>1 DEF AskHolds, AskTyped
<1> QED BY <1>1, <1>2, <1>3

LEMMA RefusingSteps ==
  ASSUME DeskInv, NEW a \in Asks, RefuseAsk(a) \/ AssertNavLinksResolve(a) \/ PublishSnapshot(a) \/ LoseAsk(a)
  PROVE  DeskInv'
<1>1. PICK st, ans : /\ AskAnswered(a, st, ans) /\ st \notin {"ok", "writing"} /\ ~Idle(a)
                     /\ UNCHANGED <<serverVars, desk>> /\ (calm' => calm /\ asks[a].st \notin {"ok", "writing"})
  <2>1. CASE RefuseAsk(a)
    BY <2>1 DEF RefuseAsk, Idle
  <2>2. CASE AssertNavLinksResolve(a)
    BY <2>2 DEF AssertNavLinksResolve, Idle, FrameAt
  <2>3. CASE PublishSnapshot(a)
    BY <2>3 DEF PublishSnapshot, Idle, FrameAt
  <2>4. CASE LoseAsk(a)
    BY <2>4 DEF LoseAsk, Idle
  <2> QED BY <2>1, <2>2, <2>3, <2>4
<1>2. calm => DeckTyped'
  BY <1>1 DEF DeskInv, DeckTyped, serverVars
<1>3. calm' => AskHolds(Answered(asks[a], st, ans), deck'.frames, shares', desk)
  <2> SUFFICES ASSUME calm' PROVE AskHolds(Answered(asks[a], st, ans), deck.frames, shares, desk)
    BY <1>1 DEF serverVars
  <2> QED BY <1>1, Served, FailHolds
<1> QED BY <1>1, <1>2, <1>3, ServeKeeps DEF serverVars

\* the deck with one row written
LEMMA WrittenDeck ==
  ASSUME DeckTyped, NEW f \in FrameIds, NEW row \in FrameRow \cup {NoFrame}, SetFrame(f, row), UNCHANGED shares
  PROVE  DeckTyped' /\ deck'.frames = [deck.frames EXCEPT ![f] = row]
<1>1. deck' = [deck EXCEPT !.frames[f] = row]
  BY DEF SetFrame
<1>2. deck'.frames = [deck.frames EXCEPT ![f] = row]
      /\ deck' = [frames |-> deck'.frames, snap |-> deck'.snap, expired |-> deck'.expired]
  BY <1>1 DEF DeckTyped
<1>3. deck'.frames \in FrameTable
  BY <1>2 DEF DeckTyped, FrameTable
<1> QED BY <1>2, <1>3 DEF DeckTyped

LEMMA PostFrameStep ==
  ASSUME DeskInv, NEW a \in Asks, PostFrame(a) PROVE DeskInv'
<1> DEFINE k == asks[a]
<1>1. k.op = "add" /\ k.st = "sent" /\ ~Idle(a) /\ UNCHANGED <<shares, desk, calm>>
  BY DEF PostFrame, FrameAt, Idle
<1>2. PICK f \in FrameIds \ Existing :
        InsertFrame(f, k.arg) /\ AskAnswered(a, "ok", [id |-> f, pos |-> k.arg, notes |-> FALSE, nav |-> {}])
  BY DEF PostFrame
<1> DEFINE ans == [id |-> f, pos |-> k.arg, notes |-> FALSE, nav |-> {}]
           row == [NoFrame EXCEPT !.pos = k.arg]
<1> SUFFICES ASSUME calm PROVE DeskInv'
  BY <1>1 DEF DeskInv
<1>3. /\ DeckTyped /\ deck.frames \in FrameTable /\ f \notin Made(deck.frames)
      /\ AskHolds(k, deck.frames, shares, desk) /\ desk.can = TRUE /\ IsAsk(k)
  BY <1>1, <1>2, Served
<1> HIDE DEF k
<1>4. ShowsDeck(k.seen, deck.frames, TRUE, {}) /\ k.arg = Len(k.seen)
  BY <1>1, <1>3 DEF AskHolds, AskTyped
<1>5. k.arg \in Nat
  <2>1. k.seen \in Seq(ShownFrame)
    BY <1>4 DEF ShowsDeck
  <2> QED BY <2>1, <1>4
<1>6. row \in FrameRow /\ ans \in ShownFrame /\ row.pos = k.arg /\ row.notes = FALSE /\ row.nav = {}
  <2>1. ans \in ShownFrame
    BY <1>5 DEF ShownFrame
  <2> QED BY <2>1, <1>5, FreshRow
<1>a. SetFrame(f, row)
  BY <1>2 DEF InsertFrame
<1> HIDE DEF row
<1>7. DeckTyped' /\ deck'.frames = [deck.frames EXCEPT ![f] = row]
  BY <1>1, <1>2, <1>3, <1>6, <1>a, WrittenDeck
<1>8. ~HasFrame(k.seen, f)
  BY <1>3, <1>4 DEF HasFrame, ShowsDeck, Made
<1>9. ShowsDeck(k.seen, deck'.frames, TRUE, {f})
  <2>1. row \in FrameRow \cup {NoFrame} /\ f \in FrameIds
    BY <1>6
  <2> HIDE DEF row
  <2>2. ShowsDeck(k.seen, [deck.frames EXCEPT ![f] = row], TRUE, {f})
    BY <2>1, <1>3, <1>4, <1>8, WriteShows
  <2> QED BY <2>2, <1>7
<1>10. deck'.frames[f] = row
  BY <1>3, <1>7 DEF FrameTable
<1>11. ans = ItemOf(deck'.frames, f) /\ ans.id = f /\ ans.pos = k.arg
  BY <1>6, <1>10 DEF ItemOf
<1> DEFINE q == Answered(k, "ok", ans)
<1>12. IsAsk(q) /\ q.op = k.op /\ q.id = k.id /\ q.arg = k.arg /\ q.seen = k.seen /\ q.st = "ok" /\ q.ans = ans
  BY <1>3, AnsweredIs
<1> HIDE DEF q, ans
<1>13. q.ans.id = f /\ q.ans.pos >= Len(q.seen)
  BY <1>4, <1>5, <1>11, <1>12
<1>14. AnswerWaits(q, deck'.frames, shares', desk)
  BY <1>1, <1>6, <1>8, <1>9, <1>11, <1>12, <1>13 DEF AnswerWaits, FrameOps
<1>15. AskTyped(q, desk)
  BY <1>1, <1>3, <1>12 DEF AskHolds, AskTyped
<1>16. AskHolds(Answered(asks[a], "ok", ans), deck'.frames, shares', desk)
  BY <1>12, <1>14, <1>15 DEF AskHolds, q, k
<1> QED BY <1>1, <1>2, <1>7, <1>16, ServeKeeps DEF ans, k

LEMMA PatchFrameStep ==
  ASSUME DeskInv, NEW a \in Asks, PatchFrame(a) PROVE DeskInv'
<1> DEFINE k == asks[a]
           f == k.id
           row == IF k.op = "nav" THEN [deck.frames[f] EXCEPT !.nav = k.arg] ELSE [deck.frames[f] EXCEPT !.notes = k.arg]
           ans == [id |-> f, pos |-> row.pos, notes |-> row.notes, nav |-> row.nav]
<1>1. /\ k.op \in {"notes", "nav"} /\ k.st \in {"sent", "checked"} /\ ~Idle(a) /\ UNCHANGED <<shares, desk, calm>>
      /\ IF f \in Existing THEN UpdateFrame(f, row) /\ AskAnswered(a, "ok", ans)
         ELSE AskAnswered(a, "missing", <<>>) /\ UNCHANGED deck
  BY DEF PatchFrame, FrameAt, Idle
<1> SUFFICES ASSUME calm PROVE DeskInv'
  BY <1>1 DEF DeskInv
<1>2. /\ DeckTyped /\ deck.frames \in FrameTable /\ Existing = Made(deck.frames)
      /\ AskHolds(k, deck.frames, shares, desk) /\ desk.can = TRUE /\ IsAsk(k)
  BY <1>1, Served
<1> HIDE DEF k
<1>3. /\ ShowsDeck(k.seen, deck.frames, TRUE, {}) /\ f \in FrameIds /\ HasFrame(k.seen, f)
      /\ (k.op = "notes" => k.arg \in BOOLEAN) /\ (k.op = "nav" => k.arg \in SUBSET FrameIds)
  BY <1>1, <1>2 DEF AskHolds, AskTyped
<1>4. CASE f \notin Existing
  <2>1. AskAnswered(a, "missing", <<>>) /\ UNCHANGED deck
    BY <1>1, <1>4
  <2>2. DeckTyped'
    BY <1>1, <1>2, <2>1 DEF DeckTyped
  <2>3. AskHolds(Answered(k, "missing", <<>>), deck'.frames, shares', desk)
    BY <1>1, <1>2, <2>1, FailHolds
  <2> QED BY <1>1, <2>1, <2>2, <2>3, ServeKeeps DEF k
<1>5. CASE f \in Existing
  <2>1. UpdateFrame(f, row) /\ AskAnswered(a, "ok", ans)
    BY <1>1, <1>5
  <2>2. deck.frames[f] \in FrameRow
    BY <1>2, <1>3, <1>5 DEF Made, FrameTable, NoFrame
  <2>3. row \in FrameRow /\ row.pos = deck.frames[f].pos
    <3>1. CASE k.op = "nav"
      BY <2>2, <1>3, <3>1 DEF FrameRow
    <3>2. CASE k.op = "notes"
      BY <2>2, <1>3, <3>2 DEF FrameRow
    <3> QED BY <1>1, <3>1, <3>2
  <2> HIDE DEF row
  <2>4. DeckTyped' /\ deck'.frames = [deck.frames EXCEPT ![f] = row]
    BY <1>1, <1>2, <1>3, <2>1, <2>3, WrittenDeck DEF UpdateFrame
  <2>5. ShowsDeck(k.seen, deck'.frames, TRUE, {f})
    <3>1. ShowsDeck(k.seen, [deck.frames EXCEPT ![f] = row], TRUE, {f})
      BY <1>2, <1>3, <2>3, WriteShows
    <3> QED BY <3>1, <2>4
  <2>6. deck'.frames[f] = row
    BY <1>2, <1>3, <2>4 DEF FrameTable
  <2>7. ans = ItemOf(deck'.frames, f) /\ ans \in ShownFrame
    BY <1>3, <2>3, <2>6 DEF ItemOf, ShownFrame, FrameRow
  <2> DEFINE q == Answered(k, "ok", ans)
  <2>8. IsAsk(q) /\ q.op = k.op /\ q.id = k.id /\ q.arg = k.arg /\ q.seen = k.seen /\ q.st = "ok" /\ q.ans = ans
    BY <1>2, AnsweredIs
  <2> HIDE DEF q, ans
  <2>9. AnswerWaits(q, deck'.frames, shares', desk)
    BY <1>1, <2>5, <2>7, <2>8 DEF AnswerWaits, FrameOps
  <2>10. AskTyped(q, desk)
    BY <1>1, <1>2, <2>8 DEF AskHolds, AskTyped
  <2>11. AskHolds(Answered(asks[a], "ok", ans), deck'.frames, shares', desk)
    BY <2>8, <2>9, <2>10 DEF AskHolds, q, k
  <2> QED BY <1>1, <2>1, <2>4, <2>11, ServeKeeps
<1> QED BY <1>4, <1>5

LEMMA RemoveFrameStep ==
  ASSUME DeskInv, NEW a \in Asks, RemoveFrame(a) PROVE DeskInv'
<1> DEFINE k == asks[a]
           f == k.id
<1>1. /\ k.op = "delete" /\ k.st = "sent" /\ ~Idle(a) /\ UNCHANGED <<shares, desk, calm>>
      /\ IF f \in Existing THEN DeleteFrame(f) /\ AskAnswered(a, "ok", <<>>)
         ELSE AskAnswered(a, "missing", <<>>) /\ UNCHANGED deck
  BY DEF RemoveFrame, FrameAt, Idle
<1> SUFFICES ASSUME calm PROVE DeskInv'
  BY <1>1 DEF DeskInv
<1>2. /\ DeckTyped /\ deck.frames \in FrameTable
      /\ AskHolds(k, deck.frames, shares, desk) /\ desk.can = TRUE /\ IsAsk(k)
  BY <1>1, Served
<1> HIDE DEF k
<1>3. ShowsDeck(k.seen, deck.frames, TRUE, {}) /\ f \in FrameIds
  BY <1>1, <1>2 DEF AskHolds, AskTyped
<1>4. CASE f \notin Existing
  <2>1. AskAnswered(a, "missing", <<>>) /\ UNCHANGED deck
    BY <1>1, <1>4
  <2>2. DeckTyped'
    BY <1>1, <1>2, <2>1 DEF DeckTyped
  <2>3. AskHolds(Answered(k, "missing", <<>>), deck'.frames, shares', desk)
    BY <1>1, <1>2, <2>1, FailHolds
  <2> QED BY <1>1, <2>1, <2>2, <2>3, ServeKeeps DEF k
<1>5. CASE f \in Existing
  <2>1. SetFrame(f, NoFrame) /\ AskAnswered(a, "ok", <<>>)
    BY <1>1, <1>5 DEF DeleteFrame
  <2>2. DeckTyped' /\ deck'.frames = [deck.frames EXCEPT ![f] = NoFrame]
    BY <1>1, <1>2, <1>3, <2>1, WrittenDeck
  <2>3. ~(NoFrame.pos >= 0) /\ NoFrame.pos < 0
    BY DEF NoFrame
  <2>4. ShowsDeck(k.seen, deck'.frames, TRUE, {f})
    <3>1. ShowsDeck(k.seen, [deck.frames EXCEPT ![f] = NoFrame], TRUE, {f})
      BY <1>2, <1>3, <2>3, WriteShows
    <3> QED BY <3>1, <2>2
  <2>5. deck'.frames[f] = NoFrame
    BY <1>2, <1>3, <2>2 DEF FrameTable
  <2> DEFINE q == Answered(k, "ok", <<>>)
  <2>6. IsAsk(q) /\ q.op = k.op /\ q.id = k.id /\ q.arg = k.arg /\ q.seen = k.seen /\ q.st = "ok" /\ q.ans = <<>>
    BY <1>2, AnsweredIs
  <2> HIDE DEF q
  <2>7. AnswerWaits(q, deck'.frames, shares', desk)
    BY <1>1, <2>3, <2>4, <2>5, <2>6 DEF AnswerWaits, FrameOps
  <2>8. AskTyped(q, desk)
    BY <1>1, <1>2, <2>6 DEF AskHolds, AskTyped
  <2>9. AskHolds(Answered(asks[a], "ok", <<>>), deck'.frames, shares', desk)
    BY <2>6, <2>7, <2>8 DEF AskHolds, q, k
  <2> QED BY <1>1, <2>1, <2>2, <2>9, ServeKeeps
<1> QED BY <1>4, <1>5


LEMMA CheckReorderStep ==
  ASSUME DeskInv, NEW a \in Asks, CheckReorder(a) PROVE DeskInv'
<1> DEFINE k == asks[a]
           st == IF Range(k.arg) \subseteq Existing THEN "writing" ELSE "invalid"
<1>1. k.op = "move" /\ k.st = "sent" /\ ~Idle(a) /\ UNCHANGED <<serverVars, desk, calm>> /\ AskAnswered(a, st, <<>>)
  BY DEF CheckReorder, FrameAt, Idle
<1> SUFFICES ASSUME calm PROVE DeskInv'
  BY <1>1 DEF DeskInv
<1>2. DeckTyped /\ deck.frames \in FrameTable /\ Existing = Made(deck.frames) /\ AskHolds(k, deck.frames, shares, desk) /\ desk.can = TRUE /\ IsAsk(k)
  BY <1>1, Served
<1> HIDE DEF k
<1>3. DeckTyped' /\ deck' = deck /\ shares' = shares
  BY <1>1, <1>2 DEF DeckTyped, serverVars
<1>4. ShowsDeck(k.seen, deck.frames, TRUE, {}) /\ Reorders(k.arg, k.seen)
  BY <1>1, <1>2 DEF AskHolds, AskTyped
<1>5. CASE st = "invalid"
  <2>1. AskHolds(Answered(k, st, <<>>), deck'.frames, shares', desk)
    <3> HIDE DEF st
    <3> QED BY <1>1, <1>2, <1>3, <1>5, FailHolds
  <2> HIDE DEF st
  <2> QED BY <1>1, <1>3, <2>1, ServeKeeps DEF k
<1>6. CASE st = "writing"
  <2> DEFINE q == Answered(k, "writing", <<>>)
  <2>1. IsAsk(q) /\ q.op = k.op /\ q.id = k.id /\ q.arg = k.arg /\ q.seen = k.seen /\ q.st = "writing" /\ q.ans = <<>>
    BY <1>2, AnsweredIs
  <2> HIDE DEF q, st
  <2>2. \A n \in 1..Len(k.arg) : deck.frames[k.arg[n]].pos >= 0
    BY <1>4 DEF Reorders, HasFrame, ShowsDeck
  <2>3. \A f \in FrameIds : deck.frames[f].pos >= 0 => \E n \in 1..Len(k.arg) : k.arg[n] = f
    BY <1>4, SMTT(30) DEF Reorders, HasFrame, ShowsDeck
  <2>4. k.arg \in Seq(FrameIds) /\ Len(k.arg) \in Nat
    <3>1. k.arg \in Seq(FrameIds)
      BY <1>4 DEF Reorders
    <3> QED BY <3>1, SeqItems
  <2>5. q.ans \in Seq(FrameIds) /\ Len(q.ans) = 0
    BY <2>1
  <2>6. PartWritten(q, deck.frames)
    BY <2>1, <2>2, <2>3, <2>4, <2>5 DEF PartWritten
  <2>7. AskHolds(q, deck'.frames, shares', desk)
    BY <1>1, <1>2, <1>3, <2>1, <2>6 DEF AskHolds, AskTyped
  <2> QED BY <1>1, <1>3, <1>6, <2>7, ServeKeeps DEF k, q
<1>7. st = "invalid" \/ st = "writing"
  OBVIOUS
<1> QED BY <1>5, <1>6, <1>7

LEMMA WriteReorderStep ==
  ASSUME DeskInv, NEW a \in Asks, WriteReorder(a) PROVE DeskInv'
<1> DEFINE k == asks[a]
           n == Len(k.ans) + 1
           f == k.arg[n]
           row == [deck.frames[f] EXCEPT !.pos = n - 1]
<1>1. /\ k.op = "move" /\ k.st = "writing" /\ ~Idle(a) /\ UNCHANGED <<shares, desk, calm>>
      /\ n <= Len(k.arg) /\ AskAnswered(a, "writing", Append(k.ans, f))
      /\ IF f \in Existing THEN SetFrame(f, row) ELSE UNCHANGED deck
  BY DEF WriteReorder, FrameAt, Idle
<1> SUFFICES ASSUME calm PROVE DeskInv'
  BY <1>1 DEF DeskInv
<1>2. DeckTyped /\ deck.frames \in FrameTable /\ Existing = Made(deck.frames) /\ AskHolds(k, deck.frames, shares, desk) /\ IsAsk(k)
  BY <1>1, Served
<1> HIDE DEF k
<1>3. PartWritten(k, deck.frames) /\ Reorders(k.arg, k.seen)
  BY <1>1, <1>2 DEF AskHolds, AskTyped
<1>4. /\ k.arg \in Seq(FrameIds) /\ Len(k.arg) \in Nat /\ k.ans \in Seq(FrameIds) /\ Len(k.ans) \in Nat
      /\ \A m \in 1..Len(k.arg) : k.arg[m] \in FrameIds
      /\ \A l, m \in 1..Len(k.arg) : k.arg[l] = k.arg[m] => l = m
  <2>1. k.arg \in Seq(FrameIds) /\ k.ans \in Seq(FrameIds)
    BY <1>3 DEF Reorders, PartWritten
  <2>2. DOMAIN k.arg = 1..Len(k.arg) /\ Len(k.arg) \in Nat /\ Len(k.ans) \in Nat /\ \A m \in DOMAIN k.arg : k.arg[m] \in FrameIds
    BY <2>1, SeqItems
  <2> QED BY <2>1, <2>2, <1>3 DEF Reorders
<1>5. n \in 1..Len(k.arg) /\ n \in Nat /\ n - 1 \in Nat
  BY <1>1, <1>4
<1>6. f \in FrameIds /\ f \in Existing
  BY <1>2, <1>3, <1>4, <1>5 DEF PartWritten, Made
<1>7. deck.frames[f] \in FrameRow
  BY <1>2, <1>6 DEF Made, FrameTable, NoFrame
<1>8. row \in FrameRow /\ row.pos = n - 1
  <2> HIDE DEF f, n
  <2> QED BY <1>5, <1>7 DEF FrameRow
<1>9. DeckTyped' /\ deck'.frames = [deck.frames EXCEPT ![f] = row]
  <2>1. SetFrame(f, row)
    BY <1>1, <1>6
  <2> HIDE DEF row, f
  <2> QED BY <2>1, <1>1, <1>2, <1>6, <1>8, WrittenDeck
<1>10. deck'.frames[f].pos = n - 1 /\ \A g \in FrameIds : g # f => deck'.frames[g] = deck.frames[g]
  <2> HIDE DEF row, f, n
  <2> QED BY <1>2, <1>6, <1>8, <1>9 DEF FrameTable
<1> DEFINE ans == Append(k.ans, f)
           q == Answered(k, "writing", ans)
<1>11. IsAsk(q) /\ q.op = k.op /\ q.id = k.id /\ q.arg = k.arg /\ q.seen = k.seen /\ q.st = "writing" /\ q.ans = ans
  <2> HIDE DEF ans
  <2> QED BY <1>2, AnsweredIs
<1>12. ans \in Seq(FrameIds) /\ Len(ans) = n
  <2> HIDE DEF f
  <2> QED BY <1>4, <1>6
<1>13. f = k.arg[n]
  OBVIOUS
<1>14. Len(k.ans) = n - 1
  BY <1>4
<1> HIDE DEF q, ans, row, f, n
<1>15. \A m \in 1..Len(k.arg) : deck'.frames[k.arg[m]].pos >= 0
  BY <1>3, <1>4, <1>5, <1>10, <1>13 DEF PartWritten
<1>16. \A g \in FrameIds : deck'.frames[g].pos >= 0 => \E m \in 1..Len(k.arg) : k.arg[m] = g
  BY <1>3, <1>5, <1>10, <1>13 DEF PartWritten
<1>17. ASSUME NEW m \in 1..n PROVE deck'.frames[k.arg[m]].pos = m - 1
  <2>1. CASE m = n
    BY <2>1, <1>10, <1>13
  <2>2. CASE m # n
    <3>1. m \in 1..Len(k.ans) /\ m \in 1..Len(k.arg)
      BY <2>2, <1>4, <1>5, <1>14
    <3>2. k.arg[m] # f /\ k.arg[m] \in FrameIds
      BY <3>1, <2>2, <1>4, <1>5, <1>13
    <3>3. deck.frames[k.arg[m]].pos = m - 1
      BY <3>1, <1>3 DEF PartWritten
    <3> QED BY <3>2, <3>3, <1>10
  <2> QED BY <2>1, <2>2
<1>18. PartWritten(q, deck'.frames)
  <2>1. Len(q.ans) = n /\ n <= Len(k.arg)
    BY <1>1, <1>5, <1>11, <1>12
  <2> QED BY <2>1, <1>11, <1>12, <1>15, <1>16, <1>17 DEF PartWritten
<1>19. AskHolds(q, deck'.frames, shares', desk)
  BY <1>1, <1>2, <1>11, <1>18 DEF AskHolds, AskTyped
<1> QED BY <1>1, <1>9, <1>19, ServeKeeps DEF k, q, ans

LEMMA EndReorderStep ==
  ASSUME DeskInv, NEW a \in Asks, EndReorder(a) PROVE DeskInv'
<1> DEFINE k == asks[a]
<1>1. k.op = "move" /\ k.st = "writing" /\ Len(k.ans) = Len(k.arg) /\ ~Idle(a) /\ UNCHANGED <<serverVars, desk, calm>>
  BY DEF EndReorder, FrameAt, Idle
<1>2. PICK l \in FrameLists(TRUE) : AskAnswered(a, "ok", l)
  BY DEF EndReorder
<1> SUFFICES ASSUME calm PROVE DeskInv'
  BY <1>1 DEF DeskInv
<1>3. DeckTyped /\ deck.frames \in FrameTable /\ AskHolds(k, deck.frames, shares, desk) /\ IsAsk(k)
  BY <1>1, Served
<1> HIDE DEF k
<1>4. DeckTyped' /\ deck' = deck /\ shares' = shares
  BY <1>1, <1>3 DEF DeckTyped, serverVars
<1>5. PartWritten(k, deck.frames) /\ k.arg \in Seq(FrameIds)
  BY <1>1, <1>3 DEF AskHolds, AskTyped, Reorders
<1>6. Spread(deck.frames)
  BY <1>1, <1>3, <1>5, WrittenSpread
<1>7. ShowsDeck(l, deck.frames, TRUE, {})
  BY <1>3, <1>6, ListingShows
<1> DEFINE q == Answered(k, "ok", l)
<1>8. IsAsk(q) /\ q.op = k.op /\ q.id = k.id /\ q.arg = k.arg /\ q.seen = k.seen /\ q.st = "ok" /\ q.ans = l
  BY <1>3, AnsweredIs
<1> HIDE DEF q
<1>9. AnswerWaits(q, deck.frames, shares, desk)
  BY <1>1, <1>7, <1>8 DEF AnswerWaits, FrameOps
<1>10. AskHolds(q, deck'.frames, shares', desk)
  BY <1>3, <1>4, <1>8, <1>9 DEF AskHolds, AskTyped
<1> QED BY <1>1, <1>2, <1>4, <1>10, ServeKeeps DEF k, q

\* publishing, exporting and revoking
LEMMA PlainSteps ==
  ASSUME DeskInv, NEW a \in Asks, SetPublishedSnapshot(a) \/ ExportPdf(a) \/ RevokeShareLink(a)
  PROVE  DeskInv'
<1> DEFINE k == asks[a]
<1> SUFFICES ASSUME calm PROVE DeskInv'
  BY DEF DeskInv, SetPublishedSnapshot, ExportPdf, RevokeShareLink
<1>1. CASE SetPublishedSnapshot(a)
  <2>1. /\ k.op = "publish" /\ k.st = "snapped" /\ ~Idle(a) /\ UNCHANGED <<shares, desk, calm>>
        /\ AskAnswered(a, "ok", <<>>) /\ deck' = [deck EXCEPT !.snap = k.ans]
    BY <1>1 DEF SetPublishedSnapshot, FrameAt, Idle
  <2>2. DeckTyped /\ AskHolds(k, deck.frames, shares, desk)
    BY <2>1, Served
  <2> HIDE DEF k
  <2>3. DeckTyped' /\ deck'.frames = deck.frames
    BY <2>1, <2>2 DEF DeckTyped
  <2>4. AskHolds(Answered(k, "ok", <<>>), deck'.frames, shares', desk)
    BY <2>1, <2>2, <2>3, PlainHolds DEF FrameOps
  <2> QED BY <2>1, <2>3, <2>4, ServeKeeps DEF k
<1>2. CASE ExportPdf(a)
  <2> DEFINE st == ExportPresentationPdf
  <2>1. /\ k.op = "export" /\ k.st = "sent" /\ ~Idle(a) /\ UNCHANGED <<serverVars, desk, calm>>
        /\ AskAnswered(a, st, <<>>)
    BY <1>2 DEF ExportPdf, FrameAt, Idle
  <2>2. DeckTyped /\ AskHolds(k, deck.frames, shares, desk)
    BY <2>1, Served
  <2>3. st = "ok" \/ st \in {"missing", "invalid"}
    BY DEF ExportPresentationPdf
  <2> HIDE DEF k, st
  <2>4. DeckTyped' /\ deck' = deck /\ shares' = shares
    BY <2>1, <2>2 DEF DeckTyped, serverVars
  <2>5. AskHolds(Answered(k, st, <<>>), deck'.frames, shares', desk)
    <3>1. CASE st = "ok"
      BY <3>1, <2>1, <2>2, <2>4, PlainHolds DEF FrameOps
    <3>2. CASE st \in {"missing", "invalid"}
      BY <3>2, <2>1, <2>2, <2>4, FailHolds
    <3> QED BY <3>1, <3>2, <2>3
  <2> QED BY <2>1, <2>4, <2>5, ServeKeeps DEF k
<1>3. CASE RevokeShareLink(a)
  <2>1. /\ k.op = "revoke" /\ k.st = "sent" /\ ~Idle(a) /\ UNCHANGED <<deck, desk, calm>>
        /\ AskAnswered(a, "ok", <<>>) /\ shares' = [shares EXCEPT ![k.id].st = "revoked"]
    BY <1>3 DEF RevokeShareLink, FrameAt, Idle, RevokeShareLinkById
  <2>2. DeckTyped /\ AskHolds(k, deck.frames, shares, desk)
    BY <2>1, Served
  <2> HIDE DEF k
  <2>3. k.id \in Links
    BY <2>1, <2>2 DEF AskHolds, AskTyped
  <2>4. /\ DeckTyped' /\ shares'[k.id].st = "revoked"
        /\ \A l \in Links : l # k.id => shares'[l] = shares[l]
    BY <2>1, <2>2, <2>3 DEF DeckTyped
  <2>5. AskHolds(Answered(k, "ok", <<>>), deck'.frames, shares', desk)
    BY <2>1, <2>2, <2>4, PlainHolds DEF FrameOps
  <2>6. \A l \in Links : shares[l].st \notin {"none", "active"} => shares'[l].st \notin {"none", "active"}
    <3> TAKE l \in Links
    <3> QED BY <2>4
  <2> QED BY <2>1, <2>4, <2>5, <2>6, ServeKeeps DEF k
<1> QED BY <1>1, <1>2, <1>3

LEMMA ShareStep ==
  ASSUME DeskInv, NEW a \in Asks, CreateShareLinkForResource(a) PROVE DeskInv'
<1> DEFINE k == asks[a]
<1>1. k.op = "share" /\ k.st = "sent" /\ ~Idle(a) /\ UNCHANGED <<deck, desk, calm>>
  BY DEF CreateShareLinkForResource, FrameAt, Idle
<1> SUFFICES ASSUME calm PROVE DeskInv'
  BY <1>1 DEF DeskInv
<1>2. DeckTyped /\ AskHolds(k, deck.frames, shares, desk)
  BY <1>1, Served
<1>3. CASE AskAnswered(a, "denied", <<>>) /\ UNCHANGED shares
  <2> HIDE DEF k
  <2>1. DeckTyped'
    BY <1>1, <1>2, <1>3 DEF DeckTyped
  <2>2. AskHolds(Answered(k, "denied", <<>>), deck'.frames, shares', desk)
    BY <1>1, <1>2, <1>3, FailHolds
  <2> QED BY <1>1, <1>3, <2>1, <2>2, ServeKeeps DEF k
<1>4. ASSUME NEW l \in Links, CreateShareLink(l, k.arg), AskAnswered(a, "ok", l)
      PROVE  DeskInv'
  <2>1. shares[l].st = "none" /\ \E row : row = [x \in {"st", "role", "kind"} |-> row[x]] /\ shares' = [shares EXCEPT ![l] = row]
    <3> DEFINE row == [st |-> "active", role |-> k.arg.role, kind |-> k.arg.kind]
    <3>1. row = [x \in {"st", "role", "kind"} |-> row[x]]
      OBVIOUS
    <3> QED BY <3>1, <1>4 DEF CreateShareLink
  <2> HIDE DEF k
  <2>2. DeckTyped' /\ \A m \in Links : m # l => shares'[m] = shares[m]
    BY <1>1, <1>2, <2>1 DEF DeckTyped
  <2>3. AskHolds(Answered(k, "ok", l), deck'.frames, shares', desk)
    BY <1>1, <1>2, PlainHolds DEF FrameOps
  <2>4. \A m \in Links : shares[m].st \notin {"none", "active"} => shares'[m].st \notin {"none", "active"}
    BY <2>1, <2>2
  <2> QED BY <1>1, <1>4, <2>2, <2>3, <2>4, ServeKeeps DEF k
<1> QED BY <1>3, <1>4 DEF CreateShareLinkForResource


\* what the page makes of an answer, operation by operation
LEMMA AppliedIs ==
  ASSUME NEW k, k.op \in AskOps, desk = [x \in DeskFields |-> desk[x]]
  PROVE  LET q == Applied(desk, k) IN
         /\ q = [x \in DeskFields |-> q[x]] /\ q.can = desk.can /\ q.status = desk.status
         /\ q.frames = IF k.op = "move" THEN IF k.st = "ok" THEN k.ans ELSE k.seen
                       ELSE IF k.st = "ok" /\ k.op = "add" THEN Append(k.seen, k.ans)
                       ELSE IF k.st = "ok" /\ k.op \in {"notes", "nav"}
                            THEN [n \in DOMAIN k.seen |-> IF k.seen[n].id = k.id THEN k.ans ELSE k.seen[n]]
                       ELSE IF k.st = "ok" /\ k.op = "delete" THEN Without(k.seen, k.id)
                       ELSE desk.frames
         /\ q.links = IF k.st = "ok" /\ k.op = "share" THEN Append(desk.links, [id |-> k.ans, revoked |-> FALSE])
                      ELSE IF k.st = "ok" /\ k.op = "revoke"
                           THEN [n \in DOMAIN desk.links |-> IF desk.links[n].id = k.id THEN [desk.links[n] EXCEPT !.revoked = TRUE] ELSE desk.links[n]]
                      ELSE desk.links
<1> USE DEF DeskFields, Applied, Moved
<1>1. CASE k.op = "move"
  BY <1>1
<1>2. CASE k.op # "move" /\ k.st # "ok"
  BY <1>2
<1>3. CASE k.op = "add" /\ k.st = "ok"
  BY <1>3
<1>4. CASE k.op \in {"notes", "nav"} /\ k.st = "ok"
  BY <1>4
<1>5. CASE k.op = "delete" /\ k.st = "ok"
  BY <1>5
<1>6. CASE k.op = "publish" /\ k.st = "ok"
  BY <1>6
<1>7. CASE k.op = "share" /\ k.st = "ok"
  BY <1>7
<1>8. CASE k.op = "revoke" /\ k.st = "ok"
  BY <1>8
<1>9. CASE k.op = "export" /\ k.st = "ok"
  BY <1>9
<1> HIDE DEF Applied
<1> QED BY <1>1, <1>2, <1>3, <1>4, <1>5, <1>6, <1>7, <1>8, <1>9 DEF AskOps, FrameOps

LEMMA TakeAnswerStep ==
  ASSUME DeskInv, NEW a \in Asks, TakeAnswer(a) PROVE DeskInv'
<1> DEFINE k == asks[a]
<1>1. /\ ~Idle(a) /\ k.st # "writing" /\ asks' = [asks EXCEPT ![a] = NoAsk] /\ UNCHANGED <<serverVars, calm>>
      /\ \E said : desk' = [Applied(desk, k) EXCEPT !.said = said]
  BY DEF TakeAnswer, Idle
<1> SUFFICES ASSUME calm PROVE DeskInv'
  BY <1>1 DEF DeskInv
<1>2. /\ DeckTyped /\ deck.frames \in FrameTable /\ AskHolds(k, deck.frames, shares, desk)
      /\ desk.can \in BOOLEAN /\ (k.op # "revoke" => desk.can = TRUE) /\ k.op \in AskOps
  BY <1>1, Served
<1>3. DeskTyped /\ AsksTyped /\ OneAsk /\ desk.status = "ready"
  BY <1>1 DEF DeskInv, Quiet, Idle
<1>4. DeckTyped' /\ deck' = deck /\ shares' = shares
  BY <1>1, <1>2 DEF DeckTyped, serverVars
<1>5. AsksTyped' /\ \A b \in Asks : Idle(b)'
  BY <1>1, <1>3 DEF AsksTyped, OneAsk, Idle, NoAsk
<1>6. OneAsk' /\ Quiet'
  BY <1>5 DEF OneAsk, Idle, Quiet
<1> HIDE DEF k
<1> DEFINE q == Applied(desk, k)
<1>7. /\ q = [x \in DeskFields |-> q[x]] /\ q.can = desk.can /\ q.status = desk.status
      /\ q.frames = IF k.op = "move" THEN IF k.st = "ok" THEN k.ans ELSE k.seen
                    ELSE IF k.st = "ok" /\ k.op = "add" THEN Append(k.seen, k.ans)
                    ELSE IF k.st = "ok" /\ k.op \in {"notes", "nav"}
                         THEN [n \in DOMAIN k.seen |-> IF k.seen[n].id = k.id THEN k.ans ELSE k.seen[n]]
                    ELSE IF k.st = "ok" /\ k.op = "delete" THEN Without(k.seen, k.id)
                    ELSE desk.frames
      /\ q.links = IF k.st = "ok" /\ k.op = "share" THEN Append(desk.links, [id |-> k.ans, revoked |-> FALSE])
                   ELSE IF k.st = "ok" /\ k.op = "revoke"
                        THEN [n \in DOMAIN desk.links |-> IF desk.links[n].id = k.id THEN [desk.links[n] EXCEPT !.revoked = TRUE] ELSE desk.links[n]]
                   ELSE desk.links
  BY <1>2, <1>3, AppliedIs DEF DeskTyped
<1> HIDE DEF q
<1>8. desk'.frames = q.frames /\ desk'.links = q.links /\ desk'.can = q.can /\ desk'.status = q.status
      /\ desk' = [x \in DeskFields |-> desk'[x]]
  <2>1. PICK said : desk' = [q EXCEPT !.said = said]
    BY <1>1 DEF q
  <2>2. desk'.frames = q.frames /\ desk'.links = q.links /\ desk'.can = q.can /\ desk'.status = q.status
    BY <2>1, <1>7
  <2>3. desk' = [x \in DeskFields |-> desk'[x]]
    BY <2>1, <1>7
  <2> QED BY <2>2, <2>3
<1>9. /\ AskTyped(k, desk) /\ (k.st = "ok" => AnswerWaits(k, deck.frames, shares, desk))
      /\ (k.st # "ok" => ShowsDeck(k.seen, deck.frames, desk.can, {}))
  BY <1>1, <1>2 DEF AskHolds, k
<1>10. ShowsDeck(q.frames, deck.frames, desk.can, {})
  <2>1. CASE k.st # "ok"
    <3>1. q.frames = k.seen
      BY <2>1, <1>7, <1>9 DEF AskTyped
    <3> QED BY <3>1, <2>1, <1>9
  <2>2. CASE k.st = "ok" /\ k.op = "add"
    <3>1. /\ k.ans.id \in FrameIds /\ k.ans = ItemOf(deck.frames, k.ans.id) /\ k.ans.pos >= Len(k.seen)
          /\ k.ans \in ShownFrame /\ ShowsDeck(k.seen, deck.frames, TRUE, {k.ans.id}) /\ ~HasFrame(k.seen, k.ans.id)
      BY <2>2, <1>9 DEF AnswerWaits
    <3>2. ShowsDeck(Append(k.seen, k.ans), deck.frames, TRUE, {})
      BY <3>1, <1>2, AddedShows
    <3> QED BY <3>2, <2>2, <1>2, <1>7
  <2>3. CASE k.st = "ok" /\ k.op \in {"notes", "nav"}
    <3>1. /\ k.ans = ItemOf(deck.frames, k.id) /\ k.ans \in ShownFrame /\ ShowsDeck(k.seen, deck.frames, TRUE, {k.id})
          /\ HasFrame(k.seen, k.id) /\ k.id \in FrameIds
      BY <2>3, <1>9 DEF AnswerWaits, AskTyped
    <3>2. ShowsDeck([n \in DOMAIN k.seen |-> IF k.seen[n].id = k.id THEN k.ans ELSE k.seen[n]], deck.frames, TRUE, {})
      BY <3>1, <1>2, PatchedShows
    <3> QED BY <3>2, <2>3, <1>2, <1>7
  <2>4. CASE k.st = "ok" /\ k.op = "delete"
    <3>1. deck.frames[k.id].pos < 0 /\ ShowsDeck(k.seen, deck.frames, TRUE, {k.id}) /\ k.id \in FrameIds
      BY <2>4, <1>9 DEF AnswerWaits, AskTyped
    <3>2. ShowsDeck(Without(k.seen, k.id), deck.frames, TRUE, {})
      BY <3>1, <1>2, DeletedShows
    <3> QED BY <3>2, <2>4, <1>2, <1>7
  <2>5. CASE k.st = "ok" /\ k.op = "move"
    BY <2>5, <1>2, <1>7, <1>9 DEF AnswerWaits
  <2>6. CASE k.st = "ok" /\ k.op \notin FrameOps
    <3>1. q.frames = desk.frames /\ k.seen = desk.frames
      BY <2>6, <1>7, <1>9 DEF AskTyped, FrameOps
    <3> QED BY <3>1, <2>6, <1>9 DEF AnswerWaits
  <2> QED BY <2>1, <2>2, <2>3, <2>4, <2>5, <2>6 DEF FrameOps
<1> DEFINE LinkItem == [id : Links, revoked : BOOLEAN]
           Ended(it) == it.revoked => shares[it.id].st \notin {"none", "active"}
<1>11. q.links \in Seq(LinkItem) /\ \A n \in 1..Len(q.links) : Ended(q.links[n])
  <2>1. /\ desk.links \in Seq(LinkItem) /\ \A n \in 1..Len(desk.links) : Ended(desk.links[n])
        /\ DOMAIN desk.links = 1..Len(desk.links) /\ Len(desk.links) \in Nat /\ \A n \in 1..Len(desk.links) : desk.links[n] \in LinkItem
    <3>1. desk.links \in Seq(LinkItem) /\ \A n \in 1..Len(desk.links) : Ended(desk.links[n])
      BY <1>3 DEF DeskTyped
    <3> HIDE DEF LinkItem, Ended
    <3>2. DOMAIN desk.links = 1..Len(desk.links) /\ Len(desk.links) \in Nat /\ \A n \in DOMAIN desk.links : desk.links[n] \in LinkItem
      BY <3>1, SeqItems
    <3> QED BY <3>1, <3>2
  <2>2. CASE k.st = "ok" /\ k.op = "share"
    <3> DEFINE it == [id |-> k.ans, revoked |-> FALSE]
    <3>1. it \in LinkItem /\ Ended(it)
      BY <2>2, <1>9 DEF AnswerWaits
    <3>2. q.links = Append(desk.links, it)
      BY <2>2, <1>7
    <3> HIDE DEF it, LinkItem, Ended
    <3>3. q.links \in Seq(LinkItem) /\ Len(q.links) = Len(desk.links) + 1 /\ q.links[Len(desk.links) + 1] = it
          /\ \A n \in 1..Len(desk.links) : q.links[n] = desk.links[n]
      BY <3>1, <3>2, <2>1, AppendProperties
    <3>4. \A n \in 1..Len(q.links) : n = Len(desk.links) + 1 \/ n \in 1..Len(desk.links)
      BY <3>3, <2>1
    <3> QED BY <3>1, <3>3, <3>4, <2>1
  <2>3. CASE k.st = "ok" /\ k.op = "revoke"
    <3> DEFINE new(n) == IF desk.links[n].id = k.id THEN [desk.links[n] EXCEPT !.revoked = TRUE] ELSE desk.links[n]
    <3>1. q.links = [n \in 1..Len(desk.links) |-> new(n)]
      BY <2>1, <2>3, <1>7
    <3>2. shares[k.id].st \notin {"none", "active"}
      BY <2>3, <1>9 DEF AnswerWaits
    <3>3. ASSUME NEW n \in 1..Len(desk.links) PROVE new(n) \in LinkItem /\ Ended(new(n))
      <4>1. desk.links[n] \in LinkItem /\ Ended(desk.links[n])
        BY <2>1
      <4>2. CASE desk.links[n].id = k.id
        <5>1. LET it == [desk.links[n] EXCEPT !.revoked = TRUE] IN it \in LinkItem /\ it.id = k.id
          BY <4>1, <4>2
        <5> QED BY <5>1, <4>2, <3>2
      <4>3. CASE desk.links[n].id # k.id
        BY <4>1, <4>3
      <4> QED BY <4>2, <4>3
    <3> HIDE DEF new, LinkItem, Ended
    <3>4. q.links \in [1..Len(desk.links) -> LinkItem]
      BY <3>1, <3>3
    <3>5. q.links \in Seq(LinkItem) /\ Len(q.links) = Len(desk.links)
      BY <3>4, <2>1
    <3> QED BY <3>1, <3>3, <3>5
  <2>4. CASE ~(k.st = "ok" /\ k.op \in {"share", "revoke"})
    <3>1. q.links = desk.links
      BY <2>4, <1>7
    <3> QED BY <3>1, <2>1
  <2> QED BY <2>2, <2>3, <2>4
<1>12. DeskTyped'
  BY <1>2, <1>4, <1>7, <1>8, <1>11 DEF DeskTyped
<1>13. ShowsDeck(desk'.frames, deck'.frames, desk'.can, {}) /\ desk'.status = "ready"
  BY <1>3, <1>4, <1>7, <1>8, <1>10
<1> QED BY <1>4, <1>5, <1>6, <1>12, <1>13 DEF DeskInv

LEMMA OthersStep ==
  ASSUME DeskInv, OthersNext PROVE DeskInv'
<1>1. CASE OtherEditor
  <2>1. calm' = (calm /\ desk.status # "ready") /\ UNCHANGED <<shares, desk, asks>>
    BY <1>1 DEF OtherEditor
  <2> SUFFICES ASSUME calm, desk.status # "ready" PROVE DeskInv'
    BY <2>1 DEF DeskInv
  <2>2. DeckTyped /\ DeskTyped /\ AsksTyped /\ OneAsk /\ Quiet /\ Spread(deck.frames)
    BY DEF DeskInv
  <2>3. deck.frames \in FrameTable /\ Existing = Made(deck.frames)
    BY <2>2 DEF DeckTyped, Existing, Made
  <2>4. DeckTyped' /\ Spread(deck'.frames)
    <3>1. ASSUME NEW f \in FrameIds \ Existing, InsertFrame(f, Cardinality(Existing))
          PROVE  DeckTyped' /\ Spread(deck'.frames)
      <4> DEFINE row == [NoFrame EXCEPT !.pos = Cardinality(Made(deck.frames))]
      <4>1. SetFrame(f, row)
        BY <3>1, <2>3 DEF InsertFrame
      <4>2. Cardinality(Made(deck.frames)) \in Nat
        BY MadeFinite
      <4>3. row \in FrameRow /\ row.pos = Cardinality(Made(deck.frames))
        BY <4>2, FreshRow
      <4> HIDE DEF row
      <4>4. DeckTyped' /\ deck'.frames = [deck.frames EXCEPT ![f] = row]
        BY <4>1, <4>3, <2>1, <2>2, WrittenDeck
      <4>5. Spread([deck.frames EXCEPT ![f] = row])
        BY <4>3, <2>2, <2>3, InsertSpread
      <4> QED BY <4>4, <4>5
    <3>2. ASSUME NEW f \in Existing, DeleteFrame(f)
          PROVE  DeckTyped' /\ Spread(deck'.frames)
      <4>1. f \in FrameIds
        BY DEF Existing
      <4>2. DeckTyped' /\ deck'.frames = [deck.frames EXCEPT ![f] = NoFrame]
        BY <4>1, <3>2, <2>1, <2>2, WrittenDeck DEF DeleteFrame
      <4>3. Spread([deck.frames EXCEPT ![f] = NoFrame])
        BY <4>1, <2>2, <2>3, RemoveSpread
      <4> QED BY <4>2, <4>3
    <3> QED BY <3>1, <3>2, <1>1 DEF OtherEditor
  <2>5. DeskTyped' /\ AsksTyped' /\ OneAsk' /\ Quiet' /\ desk'.status # "ready" /\ \A b \in Asks : Idle(b)'
    BY <2>1, <2>2 DEF DeskTyped, AsksTyped, OneAsk, Quiet, Idle
  <2> QED BY <2>4, <2>5 DEF DeskInv
<1>2. CASE UpdatePresentation \/ EditDiagram \/ ChangeRole
  <2>1. UNCHANGED <<shares, desk, asks, calm>> /\ (deck' = deck \/ \E e : deck' = [deck EXCEPT !.expired = e])
    BY <1>2 DEF UpdatePresentation, EditDiagram, ChangeRole
  <2> SUFFICES ASSUME calm PROVE DeskInv'
    BY <2>1 DEF DeskInv
  <2>2. DeckTyped /\ DeskTyped
    BY DEF DeskInv
  <2>3. deck' = [deck EXCEPT !.snap = deck'.snap, !.expired = deck'.expired]
    BY <2>1, <2>2 DEF DeckTyped
  <2>4. desk' = [desk EXCEPT !.status = desk'.status]
    BY <2>1, <2>2 DEF DeskTyped, DeskFields
  <2> QED BY <2>1, <2>3, <2>4, AsideSteps
<1>3. CASE ExpireLink
  <2>1. PICK l \in Links : shares[l].st = "active" /\ shares' = [shares EXCEPT ![l].st = "expired"]
    BY <1>3 DEF ExpireLink
  <2>2. UNCHANGED <<deck, desk, asks, calm>>
    BY <1>3 DEF ExpireLink
  <2> SUFFICES ASSUME calm PROVE DeskInv'
    BY <2>2 DEF DeskInv
  <2>3. /\ DeckTyped /\ DeskTyped /\ AsksTyped /\ OneAsk
        /\ desk.status # "ready" => Quiet /\ Spread(deck.frames)
        /\ \A a \in Asks : ~Idle(a) => AskHolds(asks[a], deck.frames, shares, desk)
        /\ desk.status = "ready" /\ Quiet => ShowsDeck(desk.frames, deck.frames, desk.can, {})
    BY DEF DeskInv
  <2>4. DeckTyped' /\ shares'[l].st = "expired" /\ \A m \in Links : m # l => shares'[m] = shares[m]
    BY <2>1, <2>2, <2>3 DEF DeckTyped
  <2>5. \A m \in Links : shares[m].st \notin {"none", "active"} => shares'[m].st \notin {"none", "active"}
    BY <2>4
  <2>6. DeskTyped'
    <3>1. \A n \in 1..Len(desk.links) : desk.links[n].id \in Links
      <4>1. desk.links \in Seq([id : Links, revoked : BOOLEAN])
        BY <2>3 DEF DeskTyped
      <4>2. \A n \in 1..Len(desk.links) : desk.links[n] \in [id : Links, revoked : BOOLEAN]
        BY <4>1, SeqItems
      <4> QED BY <4>2
    <3> QED BY <3>1, <2>2, <2>3, <2>5 DEF DeskTyped
  <2>7. AsksTyped' /\ OneAsk' /\ (Quiet' <=> Quiet) /\ \A a : Idle(a)' <=> Idle(a)
    BY <2>2, <2>3 DEF AsksTyped, OneAsk, Quiet, Idle
  <2>8. ASSUME NEW a \in Asks, ~Idle(a)'
        PROVE  AskHolds(asks'[a], deck'.frames, shares', desk')
    <3>1. AskHolds(asks[a], deck.frames, shares, desk)
      BY <2>3, <2>7, <2>8
    <3>2. AskHolds(asks[a], deck.frames, shares', desk)
      BY <3>1, <2>5 DEF AskHolds, AskTyped, AnswerWaits
    <3> QED BY <3>2, <2>2
  <2> QED BY <2>2, <2>3, <2>4, <2>6, <2>7, <2>8 DEF DeskInv
<1> QED BY <1>1, <1>2, <1>3 DEF OthersNext

LEMMA SeatStep ==
  ASSUME DeskInv, SeatNext \/ UNCHANGED presentationVars PROVE DeskInv'
<1>1. UNCHANGED <<deck, shares, desk, asks, calm>>
  <2>1. CASE SeatNext
    BY <2>1 DEF SeatNext, ResolveLink, ResolveFrames, EnterPresenter, PressKey, FrameButtons, Seat, serverVars
  <2>2. CASE UNCHANGED presentationVars
    BY <2>2 DEF presentationVars
  <2> QED BY <2>1, <2>2
<1> SUFFICES ASSUME calm PROVE DeskInv'
  BY <1>1 DEF DeskInv
<1>2. DeckTyped /\ DeskTyped
  BY DEF DeskInv
<1>3. deck' = [deck EXCEPT !.snap = deck'.snap, !.expired = deck'.expired]
  BY <1>1, <1>2 DEF DeckTyped
<1>4. desk' = [desk EXCEPT !.status = desk'.status]
  BY <1>1, <1>2 DEF DeskTyped, DeskFields
<1> QED BY <1>1, <1>3, <1>4, AsideSteps

LEMMA DeskInvNext == DeskInv /\ [PresentationNext]_presentationVars => DeskInv'
<1> SUFFICES ASSUME DeskInv, [PresentationNext]_presentationVars PROVE DeskInv'
  OBVIOUS
<1>1. CASE LoadEditor
  BY <1>1, LoadEditorStep
<1>2. ASSUME NEW a \in Asks,
             \/ HandleAddFrame(a) \/ SaveNotes(a) \/ SaveNavLinks(a) \/ HandleDeleteFrame(a) \/ MoveFrame(a)
             \/ HandlePublish(a) \/ HandleExportPdf(a) \/ ShareLinkPanel(a) \/ PresentationSharePanel(a)
             \/ HandleRevoke(a)
      PROVE  DeskInv'
  BY <1>2, SendSteps, MoveFrameStep
<1>3. ASSUME NEW a \in Asks,
             \/ RefuseAsk(a) \/ PostFrame(a) \/ AssertNavLinksResolve(a) \/ PatchFrame(a) \/ RemoveFrame(a)
             \/ CheckReorder(a) \/ WriteReorder(a) \/ EndReorder(a) \/ PublishSnapshot(a) \/ SetPublishedSnapshot(a)
             \/ ExportPdf(a) \/ CreateShareLinkForResource(a) \/ RevokeShareLink(a) \/ LoseAsk(a) \/ TakeAnswer(a)
      PROVE  DeskInv'
  BY <1>3, RefusingSteps, PostFrameStep, PatchFrameStep, RemoveFrameStep, CheckReorderStep, WriteReorderStep, EndReorderStep,
     PlainSteps, ShareStep, TakeAnswerStep
<1>4. CASE OthersNext
  BY <1>4, OthersStep
<1>5. CASE SeatNext \/ UNCHANGED presentationVars
  BY <1>5, SeatStep
<1> QED BY <1>1, <1>2, <1>3, <1>4, <1>5 DEF PresentationNext, EditorNext

\* A page of the presentation editor that sent one request at a time, lost no answer and shared its frames with nobody
\* shows the server's frames when nothing is in flight, each at its place, also after an order that was undone; and a
\* link it shows as revoked opens nothing.
THEOREM EditorShowsTheServer == PresentationSpec => []EditorShowsServer
<1>1. DeskInv => EditorShowsServer
  <2> SUFFICES ASSUME DeskInv, desk.status = "ready", calm, Quiet PROVE EditorShowsServer
    BY DEF EditorShowsServer
  <2>1. DeckTyped /\ DeskTyped /\ ShowsDeck(desk.frames, deck.frames, desk.can, {})
    BY DEF DeskInv
  <2>2. /\ deck.frames \in FrameTable /\ desk.can \in BOOLEAN /\ Existing = Made(deck.frames)
        /\ \A f : FrameItem(f) = ItemOf(deck.frames, f)
    BY <2>1 DEF DeckTyped, DeskTyped, Existing, Made, FrameItem, ItemOf
  <2>3. DOMAIN desk.frames = 1..Len(desk.frames)
    <3>1. desk.frames \in Seq(ShownFrame)
      BY <2>1 DEF ShowsDeck
    <3> QED BY <3>1, SeqItems
  <2>4. /\ {Redact(desk.frames[n], desk.can) : n \in 1..Len(desk.frames)} = {Redact(ItemOf(deck.frames, f), desk.can) : f \in Made(deck.frames)}
        /\ Len(desk.frames) = Cardinality(Made(deck.frames))
        /\ {deck.frames[f].pos : f \in Made(deck.frames)} = 0..(Cardinality(Made(deck.frames)) - 1)
              => \A n \in 1..Len(desk.frames) : desk.frames[n].pos = n - 1
    BY <2>1, <2>2, ShownIsServed, ZenonT(60)
  <2>5. {Redact(r, desk.can) : r \in Range(desk.frames)} = {Redact(desk.frames[n], desk.can) : n \in 1..Len(desk.frames)}
    BY <2>3, SMTT(30) DEF Range
  <2>6. {Redact(FrameItem(f), desk.can) : f \in Existing} = {Redact(ItemOf(deck.frames, f), desk.can) : f \in Made(deck.frames)}
    BY <2>2
  <2>7. \A n \in DOMAIN desk.links : desk.links[n].revoked => shares[desk.links[n].id].st # "active"
    <3>1. desk.links \in Seq([id : Links, revoked : BOOLEAN])
      BY <2>1 DEF DeskTyped
    <3>2. DOMAIN desk.links = 1..Len(desk.links)
      BY <3>1, SeqItems
    <3> QED BY <2>1, <3>2 DEF DeskTyped
  <2> QED BY <2>2, <2>3, <2>4, <2>5, <2>6, <2>7 DEF EditorShowsServer
<1> QED BY <1>1, DeskInvInit, DeskInvNext, PTL DEF PresentationSpec

-----------------------------------------------------------------------------
(* The comments panel                                                      *)

CommentItem ==
  [id : CommentIds, parentId : CommentIds \cup {NoParent}, authorId : {"me", "other"}, status : {"open", "resolved"},
   anchored : BOOLEAN, body : SUBSET (Staff \cup {"other"})]
CommentPatch == [status : {"open", "resolved"}] \cup [body : SUBSET (Staff \cup {"other"})]

\* a parent comes before its replies, and ids are unique: what commentThreads.ts relies on
Forest(notes) ==
  /\ \A m, n \in 1..Len(notes) : notes[m].id = notes[n].id => m = n
  /\ \A n \in 1..Len(notes) : notes[n].parentId # NoParent => \E m \in 1..(n - 1) : notes[m].id = notes[n].parentId
InTable(row, table) == \E m \in 1..Len(table) : table[m].id = row.id /\ table[m].parentId = row.parentId
KnownTo(notes, table) == \A n \in 1..Len(notes) : InTable(notes[n], table)
GoodList(notes) == notes \in Seq(CommentItem) /\ Forest(notes)

PostFields == {"op", "parent", "anchored", "body", "to", "at", "rows", "alone"}
PostTyped(k) ==
  /\ k = [x \in PostFields |-> k[x]]
  /\ k.op \in {"list", "create", "status"} /\ k.to \in {"open", "resolved"}
  /\ k.anchored \in BOOLEAN /\ k.body \in SUBSET (Staff \cup {"other"}) /\ k.alone \in BOOLEAN
\* what a request means to a panel that it reached alone, and what its answer will be
PostWaits(k, table, p) ==
  /\ k.op = "list" /\ k.at = "ok" => GoodList(k.rows) /\ KnownTo(k.rows, table)
  /\ p.fresh /\ k.alone =>
       /\ k.op = "create" => k.parent = NoParent \/ k.parent \in Ids(p.list)
       /\ k.op = "create" /\ k.at \in {"inserted", "ok"} =>
            /\ k.rows[1] \in CommentItem /\ k.rows[1].id \notin Ids(p.list) /\ k.rows[1].parentId = k.parent
            /\ InTable(k.rows[1], table)
       /\ k.op = "status" => k.parent \in Ids(p.list)
       /\ k.op = "status" /\ k.at = "ok" =>
            k.rows[1] \in CommentItem /\ k.rows[1].id = k.parent /\ InTable(k.rows[1], table)
PostFree(p) == postings[p].op = "none"
PostsHold ==
  /\ postings = [p \in Posts |-> postings[p]]
  /\ \A p \in Posts : ~PostFree(p) => PostTyped(postings[p]) /\ PostWaits(postings[p], thread, panel)
  /\ \A p, q \in Posts : p # q /\ ~PostFree(p) /\ postings[p].alone => PostFree(q)
PanelFields == {"list", "state", "all", "known", "fresh"}
PanelHolds ==
  /\ panel = [x \in PanelFields |-> panel[x]] /\ panel.fresh \in BOOLEAN
  /\ panel.fresh => GoodList(panel.list) /\ KnownTo(panel.list, thread) /\ panel.known = Ids(panel.list)
CommentInv ==
  /\ GoodList(thread) /\ anchor \in [selected : BOOLEAN, live : BOOLEAN]
  /\ PostsHold /\ PanelHolds

LEMMA GrownKnown ==
  ASSUME NEW notes, NEW t, NEW u, KnownTo(notes, t), KnownTo(t, u) PROVE KnownTo(notes, u)
BY DEF KnownTo, InTable

LEMMA GrownInTable ==
  ASSUME NEW row, NEW t, NEW u, InTable(row, t), KnownTo(t, u) PROVE InTable(row, u)
BY DEF KnownTo, InTable

LEMMA GoodItems ==
  ASSUME NEW notes, GoodList(notes)
  PROVE  /\ DOMAIN notes = 1..Len(notes) /\ Len(notes) \in Nat /\ Ids(notes) \in SUBSET CommentIds
         /\ \A n \in 1..Len(notes) : notes[n] \in CommentItem /\ notes[n].id \in Ids(notes)
         /\ KnownTo(notes, notes)
<1>1. DOMAIN notes = 1..Len(notes) /\ Len(notes) \in Nat /\ \A n \in DOMAIN notes : notes[n] \in CommentItem
  BY SeqItems DEF GoodList
<1>2. \A n \in DOMAIN notes : notes[n].id \in CommentIds
  BY <1>1 DEF CommentItem
<1> QED BY <1>1, <1>2 DEF Ids, KnownTo, InTable

LEMMA FoundRow ==
  ASSUME NEW notes, GoodList(notes), NEW n \in 1..Len(notes)
  PROVE  CommentRow(notes, notes[n].id) = notes[n]
<1>1. DOMAIN notes = 1..Len(notes)
  BY GoodItems
<1>2. \A m \in DOMAIN notes : notes[m].id = notes[n].id => m = n
  BY <1>1 DEF GoodList, Forest
<1> QED BY <1>1, <1>2 DEF CommentRow

LEMMA AddedItem ==
  ASSUME NEW notes, GoodList(notes), NEW row \in CommentItem, row.id \notin Ids(notes),
         row.parentId = NoParent \/ row.parentId \in Ids(notes)
  PROVE  LET new == Append(notes, row)
         IN  GoodList(new) /\ Ids(new) = Ids(notes) \cup {row.id} /\ KnownTo(notes, new) /\ InTable(row, new)
<1> DEFINE new == Append(notes, row)
<1>1. /\ notes \in Seq(CommentItem) /\ DOMAIN notes = 1..Len(notes) /\ Len(notes) \in Nat
      /\ \A n \in 1..Len(notes) : notes[n].id \in Ids(notes)
  BY GoodItems DEF GoodList
<1>2. /\ new \in Seq(CommentItem) /\ Len(new) = Len(notes) + 1 /\ new[Len(notes) + 1] = row
      /\ \A n \in 1..Len(notes) : new[n] = notes[n]
  BY <1>1, AppendProperties
<1>3. DOMAIN new = 1..Len(new)
  BY <1>2, SeqItems
<1> HIDE DEF new
<1>4. \A n \in 1..Len(new) : n \in 1..Len(notes) \/ n = Len(notes) + 1
  BY <1>1, <1>2
<1>5. \A n \in 1..Len(notes) : n \in 1..Len(new) /\ n # Len(notes) + 1 /\ new[n].id # row.id
  BY <1>1, <1>2
<1>6. Forest(new)
  <2>1. ASSUME NEW m \in 1..Len(new), NEW n \in 1..Len(new), new[m].id = new[n].id PROVE m = n
    <3>1. CASE m \in 1..Len(notes) /\ n \in 1..Len(notes)
      BY <3>1, <2>1, <1>2 DEF GoodList, Forest
    <3> QED BY <3>1, <2>1, <1>2, <1>4, <1>5
  <2>2. ASSUME NEW n \in 1..Len(new), new[n].parentId # NoParent PROVE \E m \in 1..(n - 1) : new[m].id = new[n].parentId
    <3>1. CASE n \in 1..Len(notes)
      <4>1. PICK m \in 1..(n - 1) : notes[m].id = notes[n].parentId
        BY <3>1, <2>2, <1>2 DEF GoodList, Forest
      <4>2. m \in 1..Len(notes)
        BY <3>1, <1>1
      <4> QED BY <4>1, <4>2, <3>1, <1>2
    <3>2. CASE n = Len(notes) + 1
      <4>1. PICK m \in 1..Len(notes) : notes[m].id = row.parentId
        BY <3>2, <2>2, <1>1, <1>2 DEF Ids
      <4>2. m \in 1..(n - 1) /\ new[m].id = new[n].parentId
        BY <4>1, <3>2, <1>1, <1>2
      <4> QED BY <4>2
    <3> QED BY <3>1, <3>2, <1>4
  <2> QED BY <2>1, <2>2 DEF Forest
<1>7. Ids(new) = Ids(notes) \cup {row.id}
  <2>1. ASSUME NEW i \in Ids(new) PROVE i \in Ids(notes) \cup {row.id}
    BY <1>1, <1>2, <1>3, <1>4 DEF Ids
  <2>2. ASSUME NEW i \in Ids(notes) \cup {row.id} PROVE i \in Ids(new)
    <3>1. CASE i = row.id
      <4>1. Len(notes) + 1 \in DOMAIN new
        BY <1>1, <1>2, <1>3
      <4> QED BY <4>1, <3>1, <1>2 DEF Ids
    <3>2. CASE i \in Ids(notes)
      <4>1. PICK n \in 1..Len(notes) : notes[n].id = i
        BY <3>2, <1>1 DEF Ids
      <4>2. n \in DOMAIN new /\ new[n].id = i
        BY <4>1, <1>2, <1>3, <1>5
      <4> QED BY <4>2 DEF Ids
    <3> QED BY <3>1, <3>2
  <2> QED BY <2>1, <2>2
<1>8. KnownTo(notes, new)
  BY <1>2, <1>5 DEF KnownTo, InTable
<1>9. InTable(row, new)
  <2>1. Len(notes) + 1 \in 1..Len(new)
    BY <1>1, <1>2
  <2> QED BY <2>1, <1>2 DEF InTable
<1>10. GoodList(new)
  BY <1>2, <1>6 DEF GoodList
<1> QED BY <1>7, <1>8, <1>9, <1>10 DEF new

LEMMA ChangedItems ==
  ASSUME NEW notes, GoodList(notes), NEW new, new = [n \in DOMAIN notes |-> new[n]],
         \A n \in 1..Len(notes) : new[n] \in CommentItem /\ new[n].id = notes[n].id /\ new[n].parentId = notes[n].parentId
  PROVE  GoodList(new) /\ Ids(new) = Ids(notes) /\ KnownTo(notes, new) /\ KnownTo(new, notes)
<1>1. DOMAIN notes = 1..Len(notes) /\ Len(notes) \in Nat
  BY GoodItems
<1>2. new \in [1..Len(notes) -> CommentItem]
  BY <1>1
<1>3. new \in Seq(CommentItem) /\ Len(new) = Len(notes) /\ DOMAIN new = DOMAIN notes
  BY <1>1, <1>2
<1>4. Forest(new)
  <2>1. ASSUME NEW m \in 1..Len(new), NEW n \in 1..Len(new), new[m].id = new[n].id PROVE m = n
    BY <2>1, <1>3 DEF GoodList, Forest
  <2>2. ASSUME NEW n \in 1..Len(new), new[n].parentId # NoParent PROVE \E m \in 1..(n - 1) : new[m].id = new[n].parentId
    <3>1. PICK m \in 1..(n - 1) : notes[m].id = notes[n].parentId
      BY <2>2, <1>3 DEF GoodList, Forest
    <3>2. m \in 1..Len(notes)
      BY <1>1, <1>3
    <3> QED BY <3>1, <3>2, <1>3
  <2> QED BY <2>1, <2>2 DEF Forest
<1>5. Ids(new) = Ids(notes)
  BY <1>1, <1>3 DEF Ids
<1> QED BY <1>3, <1>4, <1>5 DEF GoodList, KnownTo, InTable

LEMMA Rewritten ==
  ASSUME NEW notes, GoodList(notes), NEW new, new = [n \in DOMAIN notes |-> new[n]],
         \A n \in 1..Len(notes) :
           \/ new[n] = notes[n]
           \/ new[n] \in CommentItem /\ new[n].id = notes[n].id /\ InTable(new[n], notes)
  PROVE  GoodList(new) /\ Ids(new) = Ids(notes) /\ KnownTo(notes, new) /\ KnownTo(new, notes)
<1>1. ASSUME NEW n \in 1..Len(notes)
      PROVE  new[n] \in CommentItem /\ new[n].id = notes[n].id /\ new[n].parentId = notes[n].parentId
  <2>1. notes[n] \in CommentItem
    BY GoodItems
  <2>2. CASE new[n] \in CommentItem /\ new[n].id = notes[n].id /\ InTable(new[n], notes)
    <3>1. PICK m \in 1..Len(notes) : notes[m].id = new[n].id /\ notes[m].parentId = new[n].parentId
      BY <2>2 DEF InTable
    <3>2. m = n
      BY <3>1, <2>2 DEF GoodList, Forest
    <3> QED BY <3>1, <3>2, <2>2
  <2>3. CASE new[n] = notes[n]
    BY <2>1, <2>3
  <2> QED BY <2>2, <2>3
<1> QED BY <1>1, ChangedItems

LEMMA StatusItem ==
  ASSUME NEW row \in CommentItem, NEW s \in {"open", "resolved"}
  PROVE  [row EXCEPT !.status = s] \in CommentItem /\ [row EXCEPT !.status = s].id = row.id
         /\ [row EXCEPT !.status = s].parentId = row.parentId
BY DEF CommentItem

LEMMA PatchedItem ==
  ASSUME NEW row \in CommentItem, NEW patch \in CommentPatch
  PROVE  Patched(row, patch) \in CommentItem /\ Patched(row, patch).id = row.id /\ Patched(row, patch).parentId = row.parentId
<1> DEFINE new == Patched(row, patch)
<1>1. DOMAIN row = {"id", "parentId", "authorId", "status", "anchored", "body"}
  BY DEF CommentItem
<1>2. new = [x \in DOMAIN row |-> IF x \in DOMAIN patch THEN patch[x] ELSE row[x]]
  BY DEF Patched
<1>3. CASE patch \in [status : {"open", "resolved"}]
  BY <1>1, <1>2, <1>3 DEF CommentItem
<1>4. CASE patch \in [body : SUBSET (Staff \cup {"other"})]
  BY <1>1, <1>2, <1>4 DEF CommentItem
<1> QED BY <1>3, <1>4 DEF CommentPatch

LEMMA WaitsGrow ==
  ASSUME NEW k, NEW t, NEW u, NEW p, PostWaits(k, t, p), KnownTo(t, u) PROVE PostWaits(k, u, p)
<1>1. k.op = "list" /\ k.at = "ok" => GoodList(k.rows) /\ KnownTo(k.rows, u)
  BY GrownKnown DEF PostWaits
<1>2. InTable(k.rows[1], t) => InTable(k.rows[1], u)
  BY GrownInTable
<1> QED BY <1>1, <1>2 DEF PostWaits

LEMMA AnsweredPost ==
  ASSUME PostsHold, NEW p \in Posts, ~PostFree(p), NEW st, NEW notes, AnswerPost(p, st, notes)
  PROVE  /\ postings' = [x \in Posts |-> postings'[x]]
         /\ \A x \in Posts : x # p => postings'[x] = postings[x]
         /\ PostTyped(postings'[p]) /\ postings'[p].op = postings[p].op /\ postings'[p].parent = postings[p].parent
         /\ postings'[p].alone = postings[p].alone /\ postings'[p].at = st /\ postings'[p].rows = notes
<1>1. postings = [x \in Posts |-> postings[x]] /\ PostTyped(postings[p])
  BY DEF PostsHold
<1> DEFINE k == postings[p]
           q == [k EXCEPT !.at = st, !.rows = notes]
<1>2. postings' = [postings EXCEPT ![p] = q]
  BY <1>1 DEF AnswerPost
<1>3. k = [x \in PostFields |-> k[x]]
  BY <1>1 DEF PostTyped
<1>4. /\ q = [x \in PostFields |-> q[x]] /\ q.at = st /\ q.rows = notes
      /\ q.op = k.op /\ q.parent = k.parent /\ q.alone = k.alone /\ q.to = k.to /\ q.anchored = k.anchored /\ q.body = k.body
  BY <1>3 DEF PostFields
<1>5. PostTyped(q)
  BY <1>1, <1>4 DEF PostTyped
<1> HIDE DEF q
<1>6. postings'[p] = q
  BY <1>1, <1>2
<1> QED BY <1>1, <1>2, <1>4, <1>5, <1>6

LEMMA ServerStep ==
  ASSUME CommentInv, UNCHANGED <<anchor, panel>>, GoodList(thread'), KnownTo(thread, thread'),
         NEW p \in Posts, ~PostFree(p), NEW st, NEW notes, AnswerPost(p, st, notes),
         PostWaits(postings'[p], thread', panel)
  PROVE  CommentInv'
<1>1. PostsHold /\ PanelHolds /\ anchor \in [selected : BOOLEAN, live : BOOLEAN]
  BY DEF CommentInv
<1>2. /\ postings' = [x \in Posts |-> postings'[x]]
      /\ \A x \in Posts : x # p => postings'[x] = postings[x]
      /\ PostTyped(postings'[p]) /\ postings'[p].op = postings[p].op
      /\ postings'[p].alone = postings[p].alone
  BY <1>1, AnsweredPost
<1>3. PanelHolds'
  BY <1>1, GrownKnown DEF PanelHolds
<1>4. ASSUME NEW x \in Posts, ~PostFree(x)' PROVE PostTyped(postings'[x]) /\ PostWaits(postings'[x], thread', panel')
  <2>1. CASE x = p
    BY <2>1, <1>2
  <2>2. CASE x # p
    <3>1. PostTyped(postings[x]) /\ PostWaits(postings[x], thread, panel) /\ postings'[x] = postings[x]
      BY <2>2, <1>1, <1>2, <1>4 DEF PostsHold, PostFree
    <3> QED BY <3>1, WaitsGrow
  <2> QED BY <2>1, <2>2
<1>5. \A x, y \in Posts : x # y /\ ~PostFree(x)' /\ postings'[x].alone => PostFree(y)'
  BY <1>1, <1>2 DEF PostsHold, PostFree
<1>6. PostsHold'
  BY <1>2, <1>4, <1>5 DEF PostsHold
<1> QED BY <1>1, <1>3, <1>6 DEF CommentInv

LEMMA ThreadStep ==
  ASSUME CommentInv, UNCHANGED <<anchor, panel, postings>>, GoodList(thread'), KnownTo(thread, thread')
  PROVE  CommentInv'
<1>1. PostsHold /\ PanelHolds /\ anchor \in [selected : BOOLEAN, live : BOOLEAN]
  BY DEF CommentInv
<1>2. PanelHolds'
  BY <1>1, GrownKnown DEF PanelHolds
<1>3. \A x \in Posts : ~PostFree(x) => PostWaits(postings[x], thread', panel)
  BY <1>1, WaitsGrow DEF PostsHold
<1>4. PostsHold'
  BY <1>1, <1>3 DEF PostsHold, PostFree
<1> QED BY <1>1, <1>2, <1>4 DEF CommentInv

LEMMA AsideComments ==
  ASSUME CommentInv, UNCHANGED <<thread, anchor, postings>>, PanelHolds', panel'.fresh = panel.fresh, panel'.list = panel.list
  PROVE  CommentInv'
<1>1. PostsHold /\ PanelHolds /\ GoodList(thread) /\ anchor \in [selected : BOOLEAN, live : BOOLEAN]
  BY DEF CommentInv
<1>2. \A x \in Posts : ~PostFree(x) => PostWaits(postings[x], thread, panel')
  BY <1>1 DEF PostsHold, PostWaits
<1>3. PostsHold'
  BY <1>1, <1>2 DEF PostsHold, PostFree
<1> QED BY <1>1, <1>3 DEF CommentInv

LEMMA SendStep ==
  ASSUME CommentInv, NEW p \in Posts, NEW op \in {"list", "create", "status"}, NEW parent, NEW anchored \in BOOLEAN,
         NEW text \in SUBSET (Staff \cup {"other"}), NEW to \in {"open", "resolved"},
         SendPost(p, op, parent, anchored, text, to),
         panel.fresh /\ op = "create" => parent = NoParent \/ parent \in Ids(panel.list),
         panel.fresh /\ op = "status" => parent \in Ids(panel.list)
  PROVE  CommentInv'
<1>1. PostsHold /\ PanelHolds /\ GoodList(thread) /\ anchor \in [selected : BOOLEAN, live : BOOLEAN]
  BY DEF CommentInv
<1> DEFINE only == \A r \in Posts : PostFree(r)
           new == [op |-> op, parent |-> parent, anchored |-> anchored, body |-> text, to |-> to, at |-> "sent",
                   rows |-> <<>>, alone |-> only]
           old(q) == IF PostFree(q) THEN NoPost ELSE [postings[q] EXCEPT !.alone = FALSE]
<1>2. /\ PostFree(p) /\ UNCHANGED <<thread, anchor, panel>>
      /\ postings' = [q \in Posts |-> IF q = p THEN new ELSE old(q)]
  BY DEF SendPost, PostFree, commentServer
<1>3. /\ new = [x \in PostFields |-> new[x]] /\ new.op = op /\ new.parent = parent /\ new.at = "sent"
      /\ new.anchored = anchored /\ new.body = text /\ new.to = to /\ new.alone = only
  BY DEF PostFields
<1>4. only \in BOOLEAN
  OBVIOUS
<1> HIDE DEF new
<1>5. PostTyped(new) /\ PostWaits(new, thread, panel)
  <2>1. PostTyped(new)
    BY <1>3, <1>4 DEF PostTyped
  <2>2. PostWaits(new, thread, panel)
    BY <1>3 DEF PostWaits
  <2> QED BY <2>1, <2>2
<1>6. ASSUME NEW q \in Posts, ~PostFree(q)
      PROVE  PostTyped(old(q)) /\ PostWaits(old(q), thread, panel) /\ old(q).alone = FALSE /\ old(q).op # "none"
  <2> DEFINE k == postings[q]
  <2>1. PostTyped(k) /\ PostWaits(k, thread, panel) /\ old(q) = [k EXCEPT !.alone = FALSE] /\ k.op # "none"
    BY <1>1, <1>6 DEF PostsHold, PostFree
  <2> DEFINE j == [k EXCEPT !.alone = FALSE]
  <2>2. k = [x \in PostFields |-> k[x]]
    BY <2>1 DEF PostTyped
  <2>3. /\ j = [x \in PostFields |-> j[x]] /\ j.at = k.at /\ j.rows = k.rows /\ j.alone = FALSE
        /\ j.op = k.op /\ j.parent = k.parent /\ j.to = k.to /\ j.anchored = k.anchored /\ j.body = k.body
    BY <2>2 DEF PostFields
  <2> HIDE DEF j, k, old
  <2>4. PostTyped(j)
    BY <2>1, <2>3 DEF PostTyped
  <2>5. PostWaits(j, thread, panel)
    BY <2>1, <2>3 DEF PostWaits
  <2> QED BY <2>1, <2>3, <2>4, <2>5 DEF j
<1>7. \A q \in Posts : PostFree(q) => old(q).op = "none"
  BY DEF NoPost
<1> HIDE DEF old
<1>8. postings'[p] = new /\ \A q \in Posts : q # p => postings'[q] = old(q)
  BY <1>2
<1>9. \A q \in Posts : ~PostFree(q)' => PostTyped(postings'[q]) /\ PostWaits(postings'[q], thread', panel')
  BY <1>2, <1>5, <1>6, <1>7, <1>8 DEF PostFree
<1>10. ASSUME NEW x \in Posts, NEW y \in Posts, x # y, ~PostFree(x)', postings'[x].alone PROVE PostFree(y)'
  <2>1. x = p
    BY <1>6, <1>7, <1>8, <1>10 DEF PostFree
  <2>2. only
    BY <2>1, <1>3, <1>8, <1>10
  <2> QED BY <2>1, <2>2, <1>7, <1>8, <1>10 DEF PostFree
<1>11. PostsHold'
  BY <1>2, <1>9, <1>10 DEF PostsHold
<1>12. PanelHolds'
  BY <1>1, <1>2 DEF PanelHolds
<1> QED BY <1>1, <1>2, <1>11, <1>12 DEF CommentInv

LEMMA TakeKeeps ==
  ASSUME CommentInv, NEW p \in Posts, ~PostFree(p), postings' = [postings EXCEPT ![p] = NoPost], UNCHANGED <<thread, anchor>>,
         PanelHolds', panel'.fresh => postings[p].alone \/ (panel.fresh /\ panel'.list = panel.list)
  PROVE  CommentInv'
<1>1. PostsHold /\ PanelHolds /\ GoodList(thread) /\ anchor \in [selected : BOOLEAN, live : BOOLEAN]
  BY DEF CommentInv
<1>2. postings'[p].op = "none" /\ \A x \in Posts : x # p => postings'[x] = postings[x]
  BY <1>1 DEF PostsHold, NoPost
<1>3. ASSUME NEW x \in Posts, ~PostFree(x)' PROVE PostTyped(postings'[x]) /\ PostWaits(postings'[x], thread', panel')
  <2>1. x # p /\ postings'[x] = postings[x] /\ ~PostFree(x)
    BY <1>2, <1>3 DEF PostFree
  <2>2. PostTyped(postings[x]) /\ PostWaits(postings[x], thread, panel) /\ ~postings[p].alone
    BY <1>1, <2>1 DEF PostsHold
  <2> QED BY <2>1, <2>2 DEF PostWaits
<1>4. \A x, y \in Posts : x # y /\ ~PostFree(x)' /\ postings'[x].alone => PostFree(y)'
  BY <1>1, <1>2 DEF PostsHold, PostFree
<1>5. PostsHold'
  BY <1>1, <1>3, <1>4 DEF PostsHold
<1> QED BY <1>1, <1>5 DEF CommentInv

LEMMA TakePostStep ==
  ASSUME CommentInv, NEW p \in Posts, TakePost(p) PROVE CommentInv'
<1> DEFINE k == postings[p]
<1>1. /\ ~PostFree(p) /\ postings' = [postings EXCEPT ![p] = NoPost] /\ UNCHANGED <<thread, anchor>>
      /\ panel' = IF k.op = "list" THEN ApplyList(k)
                  ELSE IF CommentClient(k) # "ok" THEN panel
                  ELSE IF k.op = "create" THEN [panel EXCEPT !.list = Append(@, k.rows[1]), !.known = @ \cup {k.rows[1].id},
                                                             !.fresh = @ /\ k.alone]
                  ELSE [panel EXCEPT !.fresh = @ /\ k.alone,
                                     !.list = [n \in DOMAIN @ |-> IF @[n].id = k.parent THEN k.rows[1] ELSE @[n]]]
  BY DEF TakePost, PostFree, commentServer
<1>2. PostsHold /\ PanelHolds /\ GoodList(thread)
  BY DEF CommentInv
<1>3. PostTyped(k) /\ PostWaits(k, thread, panel) /\ k.alone \in BOOLEAN
  BY <1>1, <1>2 DEF PostsHold, PostTyped
<1>4. panel = [x \in PanelFields |-> panel[x]] /\ panel.fresh \in BOOLEAN
  BY <1>2 DEF PanelHolds
<1> HIDE DEF k
<1>5. CASE k.op = "list" /\ CommentClient(k) = "ok"
  <2>1. panel' = [panel EXCEPT !.list = k.rows, !.state = "ready", !.known = Ids(k.rows), !.fresh = k.alone] /\ k.at = "ok"
    BY <1>1, <1>5 DEF ApplyList, CommentClient
  <2>2. /\ panel' = [x \in PanelFields |-> panel'[x]]
        /\ panel'.list = k.rows /\ panel'.known = Ids(k.rows) /\ panel'.fresh = k.alone
    BY <2>1, <1>4 DEF PanelFields
  <2>3. GoodList(k.rows) /\ KnownTo(k.rows, thread)
    BY <2>1, <1>3, <1>5 DEF PostWaits
  <2>4. PanelHolds'
    BY <2>2, <2>3, <1>1, <1>3 DEF PanelHolds
  <2> QED BY <2>2, <2>4, <1>1, TakeKeeps DEF k
<1>6. CASE k.op = "list" /\ CommentClient(k) # "ok"
  <2>1. panel' = [panel EXCEPT !.state = "error"]
    BY <1>1, <1>6 DEF ApplyList
  <2>2. /\ panel' = [x \in PanelFields |-> panel'[x]]
        /\ panel'.list = panel.list /\ panel'.known = panel.known /\ panel'.fresh = panel.fresh
    BY <2>1, <1>4 DEF PanelFields
  <2>3. PanelHolds'
    BY <2>2, <1>1, <1>2 DEF PanelHolds
  <2> QED BY <2>2, <2>3, <1>1, TakeKeeps
<1>7. CASE k.op # "list" /\ CommentClient(k) # "ok"
  <2>1. panel' = panel
    BY <1>1, <1>7
  <2>2. PanelHolds'
    BY <2>1, <1>1, <1>2 DEF PanelHolds
  <2> QED BY <2>1, <2>2, <1>1, TakeKeeps
<1>8. CASE k.op = "create" /\ CommentClient(k) = "ok"
  <2> DEFINE row == k.rows[1]
  <2>1. panel' = [panel EXCEPT !.list = Append(panel.list, row), !.known = panel.known \cup {row.id},
                               !.fresh = panel.fresh /\ k.alone] /\ k.at = "ok"
    BY <1>1, <1>8 DEF CommentClient
  <2> HIDE DEF row
  <2>2. /\ panel' = [x \in PanelFields |-> panel'[x]]
        /\ panel'.list = Append(panel.list, row) /\ panel'.known = panel.known \cup {row.id}
        /\ panel'.fresh = (panel.fresh /\ k.alone)
    BY <2>1, <1>4 DEF PanelFields
  <2>3. panel'.fresh \in BOOLEAN
    BY <2>2, <1>3, <1>4
  <2>4. ASSUME panel'.fresh
        PROVE  GoodList(panel'.list) /\ KnownTo(panel'.list, thread') /\ panel'.known = Ids(panel'.list)
    <3>1. panel.fresh /\ k.alone
      BY <2>2, <2>4
    <3>2. GoodList(panel.list) /\ KnownTo(panel.list, thread) /\ panel.known = Ids(panel.list)
      BY <3>1, <1>2 DEF PanelHolds
    <3>3. /\ row \in CommentItem /\ row.id \notin Ids(panel.list) /\ InTable(row, thread)
          /\ row.parentId = NoParent \/ row.parentId \in Ids(panel.list)
      BY <3>1, <2>1, <1>3, <1>8 DEF PostWaits, row
    <3>4. GoodList(Append(panel.list, row)) /\ Ids(Append(panel.list, row)) = Ids(panel.list) \cup {row.id}
      BY <3>2, <3>3, AddedItem
    <3>5. KnownTo(Append(panel.list, row), thread)
      <4>1. panel.list \in Seq(CommentItem) /\ Len(panel.list) \in Nat
        BY <3>2, GoodItems DEF GoodList
      <4>2. /\ Len(Append(panel.list, row)) = Len(panel.list) + 1 /\ Append(panel.list, row)[Len(panel.list) + 1] = row
            /\ \A n \in 1..Len(panel.list) : Append(panel.list, row)[n] = panel.list[n]
        BY <4>1, <3>3, AppendProperties
      <4>3. \A n \in 1..(Len(panel.list) + 1) : n \in 1..Len(panel.list) \/ n = Len(panel.list) + 1
        BY <4>1
      <4> QED BY <4>2, <4>3, <3>2, <3>3 DEF KnownTo
    <3> QED BY <3>2, <3>4, <3>5, <2>2, <1>1
  <2>5. PanelHolds'
    BY <2>2, <2>3, <2>4 DEF PanelHolds
  <2>6. panel'.fresh => k.alone
    BY <2>2
  <2> QED BY <2>5, <2>6, <1>1, TakeKeeps DEF k
<1>9. CASE k.op = "status" /\ CommentClient(k) = "ok"
  <2> DEFINE new == [n \in DOMAIN panel.list |-> IF panel.list[n].id = k.parent THEN k.rows[1] ELSE panel.list[n]]
  <2>1. panel' = [panel EXCEPT !.fresh = panel.fresh /\ k.alone, !.list = new] /\ k.at = "ok"
    BY <1>1, <1>9 DEF CommentClient
  <2>2. new = [n \in DOMAIN panel.list |-> new[n]]
    OBVIOUS
  <2>3. \A n \in DOMAIN panel.list : new[n] = IF panel.list[n].id = k.parent THEN k.rows[1] ELSE panel.list[n]
    OBVIOUS
  <2> HIDE DEF new
  <2>4. /\ panel' = [x \in PanelFields |-> panel'[x]]
        /\ panel'.list = new /\ panel'.known = panel.known
        /\ panel'.fresh = (panel.fresh /\ k.alone)
    BY <2>1, <1>4 DEF PanelFields
  <2>5. panel'.fresh \in BOOLEAN
    BY <2>4, <1>3, <1>4
  <2>6. ASSUME panel'.fresh
        PROVE  GoodList(panel'.list) /\ KnownTo(panel'.list, thread') /\ panel'.known = Ids(panel'.list)
    <3>1. panel.fresh /\ k.alone
      BY <2>4, <2>6
    <3>2. /\ GoodList(panel.list) /\ KnownTo(panel.list, thread) /\ panel.known = Ids(panel.list)
          /\ DOMAIN panel.list = 1..Len(panel.list)
      BY <3>1, <1>2, GoodItems DEF PanelHolds
    <3>3. k.rows[1] \in CommentItem /\ k.rows[1].id = k.parent /\ InTable(k.rows[1], thread) /\ k.parent \in Ids(panel.list)
      BY <3>1, <2>1, <1>3, <1>9 DEF PostWaits
    <3>4. InTable(k.rows[1], panel.list)
      <4>1. PICK n \in 1..Len(panel.list) : panel.list[n].id = k.parent
        BY <3>2, <3>3 DEF Ids
      <4>2. PICK m \in 1..Len(thread) : thread[m].id = panel.list[n].id /\ thread[m].parentId = panel.list[n].parentId
        BY <3>2 DEF KnownTo, InTable
      <4>3. PICK j \in 1..Len(thread) : thread[j].id = k.rows[1].id /\ thread[j].parentId = k.rows[1].parentId
        BY <3>3 DEF InTable
      <4>4. j = m
        BY <4>1, <4>2, <4>3, <3>3, <1>2 DEF GoodList, Forest
      <4> QED BY <4>1, <4>2, <4>3, <4>4, <3>3 DEF InTable
    <3>5. \A n \in 1..Len(panel.list) :
            \/ new[n] = panel.list[n]
            \/ new[n] \in CommentItem /\ new[n].id = panel.list[n].id /\ InTable(new[n], panel.list)
      BY <2>3, <3>2, <3>3, <3>4
    <3>6. GoodList(new) /\ Ids(new) = Ids(panel.list) /\ KnownTo(new, panel.list)
      BY <3>2, <3>5, <2>2, Rewritten
    <3>7. KnownTo(new, thread)
      BY <3>2, <3>6, GrownKnown
    <3> QED BY <3>2, <3>6, <3>7, <2>4, <1>1
  <2>7. PanelHolds'
    BY <2>4, <2>5, <2>6 DEF PanelHolds
  <2>8. panel'.fresh => k.alone
    BY <2>4
  <2> QED BY <2>7, <2>8, <1>1, TakeKeeps DEF k
<1> QED BY <1>3, <1>5, <1>6, <1>7, <1>8, <1>9 DEF PostTyped

LEMMA NewRow ==
  ASSUME GoodList(thread), Unused # {}, NEW who \in {"me", "other"}, NEW parent, parent = NoParent \/ parent \in Ids(thread),
         NEW anchored \in BOOLEAN, NEW text \in SUBSET (Staff \cup {"other"})
  PROVE  LET row == NewComment(FreshId, who, parent, anchored, text)
         IN  row \in CommentItem /\ row.id \notin Ids(thread) /\ row.parentId = parent
<1>1. FreshId \in CommentIds /\ FreshId \notin Ids(thread)
  BY DEF FreshId, Unused
<1>2. parent \in CommentIds \cup {NoParent}
  BY GoodItems
<1> QED BY <1>1, <1>2 DEF NewComment, CommentItem

LEMMA UpdateKeeps ==
  ASSUME GoodList(thread), NEW i, NEW patch \in CommentPatch, UpdateComment(i, patch)
  PROVE  GoodList(thread') /\ KnownTo(thread, thread')
<1> DEFINE new == [n \in DOMAIN thread |-> IF thread[n].id = i THEN Patched(thread[n], patch) ELSE thread[n]]
<1>1. thread' = new
  BY DEF UpdateComment
<1>2. new = [n \in DOMAIN thread |-> new[n]] /\ DOMAIN thread = 1..Len(thread)
  BY GoodItems
<1>3. ASSUME NEW n \in 1..Len(thread)
      PROVE  new[n] \in CommentItem /\ new[n].id = thread[n].id /\ new[n].parentId = thread[n].parentId
  <2>1. thread[n] \in CommentItem
    BY GoodItems
  <2>2. new[n] = IF thread[n].id = i THEN Patched(thread[n], patch) ELSE thread[n]
    BY <1>2
  <2> HIDE DEF new
  <2>3. Patched(thread[n], patch) \in CommentItem /\ Patched(thread[n], patch).id = thread[n].id
        /\ Patched(thread[n], patch).parentId = thread[n].parentId
    BY <2>1, PatchedItem
  <2>4. CASE thread[n].id = i
    BY <2>2, <2>3, <2>4
  <2>5. CASE thread[n].id # i
    BY <2>1, <2>2, <2>5
  <2> QED BY <2>4, <2>5
<1> HIDE DEF new
<1>4. GoodList(new) /\ KnownTo(thread, new)
  BY <1>2, <1>3, ChangedItems
<1> QED BY <1>1, <1>4

LEMMA FreshKnown ==
  ASSUME CommentInv, panel.fresh PROVE Ids(panel.list) \in SUBSET Ids(thread)
<1>1. GoodList(thread) /\ GoodList(panel.list) /\ KnownTo(panel.list, thread)
  BY DEF CommentInv, PanelHolds
<1>2. DOMAIN thread = 1..Len(thread) /\ DOMAIN panel.list = 1..Len(panel.list)
  BY <1>1, GoodItems
<1> QED BY <1>1, <1>2 DEF KnownTo, InTable, Ids

LEMMA PostCommentStep ==
  ASSUME CommentInv, NEW p \in Posts, PostComment(p) PROVE CommentInv'
<1> DEFINE k == postings[p]
<1>1. GoodList(thread) /\ PostsHold /\ ~PostFree(p) /\ k.op = "create" /\ UNCHANGED <<anchor, panel>>
  BY DEF CommentInv, PostComment, ReadMember, PostFree
<1>2. PostTyped(k) /\ PostWaits(k, thread, panel)
  BY <1>1 DEF PostsHold
<1>3. CASE ParentExists(k.parent)
  <2> DEFINE row == NewComment(FreshId, "me", k.parent, k.anchored, k.body)
             st == IF ResolveMentions(row.body) # {} THEN "inserted" ELSE "ok"
  <2>1. Unused # {} /\ thread' = Append(thread, row) /\ AnswerPost(p, st, <<row>>)
    BY <1>3 DEF PostComment, CreateComment
  <2>2. k.parent = NoParent \/ k.parent \in Ids(thread)
    BY <1>3 DEF ParentExists
  <2>3. row \in CommentItem /\ row.id \notin Ids(thread) /\ row.parentId = k.parent
    <3>1. k.anchored \in BOOLEAN /\ k.body \in SUBSET (Staff \cup {"other"}) /\ "me" \in {"me", "other"}
      BY <1>2 DEF PostTyped
    <3>2. GoodList(thread) /\ Unused # {}
      BY <1>1, <2>1
    <3> HIDE DEF k
    <3> QED BY <3>1, <3>2, <2>2, NewRow
  <2>4. st \in {"inserted", "ok"}
    OBVIOUS
  <2> HIDE DEF row, st, k
  <2>5. GoodList(thread') /\ KnownTo(thread, thread') /\ InTable(row, thread')
    BY <2>1, <2>2, <2>3, <1>1, AddedItem
  <2>6. /\ postings'[p].op = k.op /\ postings'[p].parent = k.parent
        /\ postings'[p].alone = k.alone /\ postings'[p].at = st /\ postings'[p].rows = <<row>>
    BY <2>1, <1>1, AnsweredPost DEF k
  <2>7. <<row>>[1] = row
    OBVIOUS
  <2>8. panel.fresh => row.id \notin Ids(panel.list)
    BY <2>3, FreshKnown
  <2>9. PostWaits(postings'[p], thread', panel)
    BY <2>3, <2>4, <2>5, <2>6, <2>7, <2>8, <1>1, <1>2 DEF PostWaits
  <2> QED BY <2>1, <2>5, <2>9, <1>1, ServerStep
<1>4. CASE ~ParentExists(k.parent)
  <2>1. AnswerPost(p, "error", <<>>) /\ thread' = thread
    BY <1>4 DEF PostComment
  <2> HIDE DEF k
  <2>2. /\ postings'[p].op = k.op /\ postings'[p].parent = k.parent
        /\ postings'[p].alone = k.alone /\ postings'[p].at = "error"
    BY <2>1, <1>1, AnsweredPost DEF k
  <2>3. PostWaits(postings'[p], thread', panel)
    BY <2>1, <2>2, <1>1, <1>2 DEF PostWaits
  <2>4. KnownTo(thread, thread') /\ GoodList(thread')
    BY <2>1, <1>1, GoodItems
  <2> QED BY <2>1, <2>3, <2>4, <1>1, ServerStep
<1> QED BY <1>3, <1>4

LEMMA PatchStatusStep ==
  ASSUME CommentInv, NEW p \in Posts, PatchStatus(p) PROVE CommentInv'
<1> DEFINE k == postings[p]
           row == [CommentRow(thread, k.parent) EXCEPT !.status = k.to]
           patch == [status |-> k.to]
<1>1. /\ GoodList(thread) /\ PostsHold /\ ~PostFree(p) /\ k.op = "status" /\ UNCHANGED <<anchor, panel>>
      /\ UpdateComment(k.parent, patch) /\ AnswerPost(p, "ok", <<row>>)
  BY DEF CommentInv, PatchStatus, ReadMember, PostFree
<1>2. PostTyped(k) /\ PostWaits(k, thread, panel)
  BY <1>1 DEF PostsHold
<1>3. k.to \in {"open", "resolved"} /\ patch \in CommentPatch
  BY <1>2 DEF PostTyped, CommentPatch
<1>4. GoodList(thread') /\ KnownTo(thread, thread')
  BY <1>1, <1>3, UpdateKeeps
<1>5. ASSUME panel.fresh, k.alone
      PROVE  row \in CommentItem /\ row.id = k.parent /\ InTable(row, thread') /\ k.parent \in Ids(panel.list)
  <2>1. k.parent \in Ids(panel.list)
    BY <1>1, <1>2, <1>5 DEF PostWaits
  <2>2. k.parent \in Ids(thread) /\ DOMAIN thread = 1..Len(thread)
    BY <2>1, <1>1, <1>5, FreshKnown, GoodItems
  <2>3. PICK n \in 1..Len(thread) : thread[n].id = k.parent
    BY <2>2 DEF Ids
  <2>4. CommentRow(thread, k.parent) = thread[n] /\ thread[n] \in CommentItem
    BY <2>3, <1>1, FoundRow, GoodItems
  <2>5. row = [thread[n] EXCEPT !.status = k.to]
    BY <2>4
  <2> HIDE DEF row, k
  <2>6. row \in CommentItem /\ row.id = thread[n].id /\ row.parentId = thread[n].parentId
    BY <2>4, <2>5, <1>3, StatusItem
  <2>7. InTable(row, thread)
    BY <2>6 DEF InTable
  <2> QED BY <2>1, <2>3, <2>6, <2>7, <1>4, GrownInTable
<1> HIDE DEF row, k, patch
<1>6. /\ postings'[p].op = k.op /\ postings'[p].parent = k.parent
      /\ postings'[p].alone = k.alone /\ postings'[p].at = "ok" /\ postings'[p].rows = <<row>>
  BY <1>1, AnsweredPost DEF k
<1>7. <<row>>[1] = row
  OBVIOUS
<1>8. PostWaits(postings'[p], thread', panel)
  BY <1>1, <1>5, <1>6, <1>7 DEF PostWaits
<1> QED BY <1>1, <1>4, <1>8, ServerStep

LEMMA PlainAnswers ==
  ASSUME CommentInv, NEW p \in Posts, NotAMember(p) \/ GetComments(p) \/ EnqueueMentioned(p) \/ LosePost(p) PROVE CommentInv'
<1> DEFINE k == postings[p]
<1>1. GoodList(thread) /\ PostsHold /\ ~PostFree(p) /\ UNCHANGED <<thread, anchor, panel>>
  BY DEF CommentInv, NotAMember, GetComments, EnqueueMentioned, LosePost, ReadMember, PostFree, commentServer
<1>2. PostTyped(k) /\ PostWaits(k, thread, panel) /\ KnownTo(thread, thread) /\ GoodList(thread') /\ KnownTo(thread, thread')
  BY <1>1, GoodItems DEF PostsHold
<1>3. PICK st \in {"missing", "error", "ok"} :
        \/ st # "ok" /\ AnswerPost(p, st, <<>>)
        \/ st = "ok" /\ k.op = "list" /\ AnswerPost(p, st, thread)
        \/ st = "ok" /\ k.op = "create" /\ k.at = "inserted" /\ AnswerPost(p, st, k.rows)
  BY DEF NotAMember, GetComments, EnqueueMentioned, LosePost
<1> HIDE DEF k
<1>4. CASE st # "ok"
  <2>1. AnswerPost(p, st, <<>>)
    BY <1>3, <1>4
  <2>2. /\ postings'[p].op = k.op /\ postings'[p].parent = k.parent
        /\ postings'[p].alone = k.alone /\ postings'[p].at = st
    BY <2>1, <1>1, AnsweredPost DEF k
  <2>3. PostWaits(postings'[p], thread', panel)
    BY <2>2, <1>1, <1>2, <1>3, <1>4 DEF PostWaits
  <2> QED BY <2>1, <2>3, <1>1, <1>2, ServerStep
<1>5. CASE k.op = "list" /\ AnswerPost(p, "ok", thread)
  <2>1. /\ postings'[p].op = k.op /\ postings'[p].at = "ok" /\ postings'[p].rows = thread
    BY <1>1, <1>5, AnsweredPost DEF k
  <2>2. PostWaits(postings'[p], thread', panel)
    BY <2>1, <1>1, <1>2, <1>5 DEF PostWaits
  <2> QED BY <2>2, <1>1, <1>2, <1>5, ServerStep
<1>6. CASE k.op = "create" /\ k.at = "inserted" /\ AnswerPost(p, "ok", k.rows)
  <2>1. /\ postings'[p].op = k.op /\ postings'[p].parent = k.parent
        /\ postings'[p].alone = k.alone /\ postings'[p].at = "ok" /\ postings'[p].rows = k.rows
    BY <1>1, <1>6, AnsweredPost DEF k
  <2>2. PostWaits(postings'[p], thread', panel)
    BY <2>1, <1>1, <1>2, <1>6 DEF PostWaits
  <2> QED BY <2>2, <1>1, <1>2, <1>6, ServerStep
<1> QED BY <1>3, <1>4, <1>5, <1>6

LEMMA OtherCommentsStep ==
  ASSUME CommentInv, OtherComments PROVE CommentInv'
<1>1. GoodList(thread) /\ UNCHANGED <<anchor, panel, postings>> /\ DOMAIN thread = 1..Len(thread)
  BY GoodItems DEF CommentInv, OtherComments
<1>2. CASE \E parent \in Ids(thread) \cup {NoParent} :
             Unused # {} /\ CreateComment(NewComment(FreshId, "other", parent, FALSE, {}))
  <2>1. PICK parent \in Ids(thread) \cup {NoParent} :
          Unused # {} /\ thread' = Append(thread, NewComment(FreshId, "other", parent, FALSE, {}))
    BY <1>2 DEF CreateComment
  <2> DEFINE row == NewComment(FreshId, "other", parent, FALSE, {})
  <2>2. row \in CommentItem /\ row.id \notin Ids(thread) /\ row.parentId = parent
    BY <2>1, <1>1, NewRow
  <2>3. thread' = Append(thread, row)
    BY <2>1
  <2> HIDE DEF row
  <2>4. row.parentId = NoParent \/ row.parentId \in Ids(thread)
    BY <2>2
  <2>5. GoodList(Append(thread, row)) /\ KnownTo(thread, Append(thread, row))
    BY <2>2, <2>4, <1>1, AddedItem
  <2>6. GoodList(thread') /\ KnownTo(thread, thread')
    BY <2>3, <2>5
  <2> QED BY <2>6, <1>1, ThreadStep
<1>3. CASE \E n \in DOMAIN thread :
             \/ thread[n].status = "open" /\ UpdateComment(thread[n].id, [status |-> "resolved"])
             \/ thread[n].authorId = "other" /\ UpdateComment(thread[n].id, [body |-> Staff \ {"me"}])
  <2>1. PICK n \in DOMAIN thread : \/ UpdateComment(thread[n].id, [status |-> "resolved"])
                                   \/ UpdateComment(thread[n].id, [body |-> Staff \ {"me"}])
    BY <1>3
  <2>2. [body |-> Staff \ {"me"}] \in CommentPatch /\ [status |-> "resolved"] \in CommentPatch
    BY DEF CommentPatch
  <2>3. GoodList(thread') /\ KnownTo(thread, thread')
    BY <2>1, <2>2, <1>1, UpdateKeeps
  <2> QED BY <2>3, <1>1, ThreadStep
<1> QED BY <1>2, <1>3 DEF OtherComments

LEMMA CommentInvInit == CommentInit => CommentInv
<1> SUFFICES ASSUME CommentInit PROVE CommentInv
  OBVIOUS
<1>1. GoodList(<<>>) /\ Ids(<<>>) = {} /\ \A table : KnownTo(<<>>, table)
  BY DEF GoodList, Forest, Ids, KnownTo
<1>2. GoodList(thread)
  <2>1. CASE thread = <<>>
    BY <2>1, <1>1
  <2>2. CASE thread # <<>>
    <3>1. PICK k \in 1..(Cardinality(CommentIds) - 1) :
            thread \in {[n \in 1..k |-> NewComment(order[n], "other", IF n = 1 THEN NoParent ELSE order[n - 1], FALSE, {})] :
                          order \in {q \in [1..k -> CommentIds] : IsInjective(q)}}
      BY <2>2 DEF CommentInit, Chains
    <3>2. PICK order \in {q \in [1..k -> CommentIds] : IsInjective(q)} :
            thread = [n \in 1..k |-> NewComment(order[n], "other", IF n = 1 THEN NoParent ELSE order[n - 1], FALSE, {})]
      BY <3>1
    <3>3. k \in Nat /\ k >= 1
      BY CommentsAssumption, FS_CardinalityType
    <3>4. order \in [1..k -> CommentIds] /\ \A m, n \in 1..k : order[m] = order[n] => m = n
      BY <3>2 DEF IsInjective
    <3> DEFINE up(n) == IF n = 1 THEN NoParent ELSE order[n - 1]
    <3>5. ASSUME NEW n \in 1..k PROVE up(n) \in CommentIds \cup {NoParent} /\ order[n] \in CommentIds
      <4>1. n # 1 => n - 1 \in 1..k
        BY <3>3
      <4> QED BY <4>1, <3>4
    <3>6. ASSUME NEW n \in 1..k
          PROVE  thread[n] \in CommentItem /\ thread[n].id = order[n] /\ thread[n].parentId = up(n)
      <4>1. thread[n] = NewComment(order[n], "other", up(n), FALSE, {})
        BY <3>2
      <4> HIDE DEF up
      <4> QED BY <4>1, <3>5 DEF NewComment, CommentItem
    <3>7. thread \in [1..k -> CommentItem]
      BY <3>2, <3>6
    <3>8. thread \in Seq(CommentItem) /\ Len(thread) = k
      BY <3>3, <3>7
    <3>9. Forest(thread)
      <4>1. ASSUME NEW m \in 1..k, NEW n \in 1..k, thread[m].id = thread[n].id PROVE m = n
        BY <4>1, <3>4, <3>6
      <4>2. ASSUME NEW n \in 1..k, thread[n].parentId # NoParent
            PROVE  \E m \in 1..(n - 1) : thread[m].id = thread[n].parentId
        <5>1. n # 1 /\ thread[n].parentId = order[n - 1]
          BY <4>2, <3>6
        <5>2. n - 1 \in 1..k /\ n - 1 \in 1..(n - 1)
          BY <5>1, <3>3
        <5>3. thread[n - 1].id = order[n - 1]
          BY <5>2, <3>6
        <5> QED BY <5>1, <5>2, <5>3
      <4> QED BY <4>1, <4>2, <3>8 DEF Forest
    <3> QED BY <3>8, <3>9 DEF GoodList
  <2> QED BY <2>1, <2>2
<1>3. PostsHold
  BY DEF CommentInit, PostsHold, PostFree, NoPost
<1>4. PanelHolds
  <2>1. panel = [list |-> <<>>, state |-> "loading", all |-> FALSE, known |-> {}, fresh |-> TRUE]
    BY DEF CommentInit
  <2> QED BY <2>1, <1>1 DEF PanelHolds, PanelFields
<1>5. anchor \in [selected : BOOLEAN, live : BOOLEAN]
  BY DEF CommentInit
<1> QED BY <1>2, <1>3, <1>4, <1>5 DEF CommentInv

-----------------------------------------------------------------------------
(* Threads: every comment resolves to the root above it, and is placed in  *)
(* the one thread of that root.                                            *)

LEMMA RootOrReply ==
  ASSUME NEW notes, GoodList(notes), NEW n \in 1..Len(notes)
  PROVE  IF notes[n].parentId = NoParent THEN notes[n].parentId \notin Ids(notes)
         ELSE \E m \in 1..(n - 1) : m \in 1..Len(notes) /\ notes[m].id = notes[n].parentId /\ notes[n].parentId \in Ids(notes)
<1>1. DOMAIN notes = 1..Len(notes) /\ Len(notes) \in Nat /\ Ids(notes) \in SUBSET CommentIds
  BY GoodItems
<1>2. CASE notes[n].parentId = NoParent
  BY <1>1, <1>2, CommentsAssumption DEF NoParent
<1>3. CASE notes[n].parentId # NoParent
  <2>1. PICK m \in 1..(n - 1) : notes[m].id = notes[n].parentId
    BY <1>3 DEF GoodList, Forest
  <2>2. m \in 1..Len(notes)
    BY <1>1
  <2> QED BY <2>1, <2>2, <1>1, <1>3 DEF Ids
<1> QED BY <1>2, <1>3

\* g[n] is the id of the root above the comment in place n
Rooted(notes, g, m) ==
  /\ g = [n \in 1..m |-> g[n]]
  /\ \A n \in 1..m :
       IF notes[n].parentId = NoParent THEN g[n] = notes[n].id
       ELSE \E k \in 1..(n - 1) : notes[k].id = notes[n].parentId /\ g[n] = g[k]

LEMMA RootedExists ==
  ASSUME NEW notes, GoodList(notes), NEW m \in 0..Len(notes)
  PROVE  \E g : Rooted(notes, g, m)
<1> DEFINE None == {n \in Nat : n \in 0..Len(notes) /\ ~\E g : Rooted(notes, g, n)}
<1>0. Len(notes) \in Nat
  BY GoodItems
<1> SUFFICES ASSUME None # {} PROVE FALSE
  BY <1>0
<1>1. PICK n \in None : \A y \in None : n <= y
  BY Least
<1>2. n # 0
  <2>1. Rooted(notes, [k \in 1..0 |-> NoParent], 0)
    BY DEF Rooted
  <2> QED BY <2>1
<1>3. n \in 1..Len(notes) /\ n \in Nat /\ n - 1 \in Nat /\ n - 1 \in 0..Len(notes) /\ ~(n <= n - 1)
  BY <1>0, <1>2
<1>4. PICK g : Rooted(notes, g, n - 1)
  BY <1>1, <1>3
<1>5. \E v : IF notes[n].parentId = NoParent THEN v = notes[n].id
             ELSE \E k \in 1..(n - 1) : notes[k].id = notes[n].parentId /\ v = g[k]
  BY <1>3, RootOrReply
<1>6. PICK v : IF notes[n].parentId = NoParent THEN v = notes[n].id
               ELSE \E k \in 1..(n - 1) : notes[k].id = notes[n].parentId /\ v = g[k]
  BY <1>5
<1> DEFINE h == [k \in 1..n |-> IF k = n THEN v ELSE g[k]]
<1>7. h = [k \in 1..n |-> h[k]] /\ h[n] = v /\ \A k \in 1..(n - 1) : h[k] = g[k] /\ k \in 1..n
  BY <1>3
<1>8. \A k \in 1..n : k = n \/ (k \in 1..(n - 1) /\ \A j \in 1..(k - 1) : j \in 1..(n - 1))
  BY <1>3
<1> HIDE DEF h
<1>9. Rooted(notes, h, n)
  <2>1. ASSUME NEW k \in 1..n
        PROVE  IF notes[k].parentId = NoParent THEN h[k] = notes[k].id
               ELSE \E j \in 1..(k - 1) : notes[j].id = notes[k].parentId /\ h[k] = h[j]
    <3>1. CASE k = n
      BY <3>1, <1>6, <1>7
    <3>2. CASE k # n
      <4>1. k \in 1..(n - 1) /\ h[k] = g[k] /\ \A j \in 1..(k - 1) : h[j] = g[j]
        BY <3>2, <1>7, <1>8
      <4>2. IF notes[k].parentId = NoParent THEN g[k] = notes[k].id
            ELSE \E j \in 1..(k - 1) : notes[j].id = notes[k].parentId /\ g[k] = g[j]
        BY <4>1, <1>4 DEF Rooted
      <4> QED BY <4>1, <4>2
    <3> QED BY <3>1, <3>2
  <2> QED BY <2>1, <1>7 DEF Rooted
<1> QED BY <1>9

UpStep(notes, f) ==
  [i \in Ids(notes) |-> IF CommentRow(notes, i).parentId \in Ids(notes) THEN f[CommentRow(notes, i).parentId] ELSE i]
Up(notes) == CHOOSE f : f = UpStep(notes, f)

LEMMA UpFixed ==
  ASSUME NEW notes, GoodList(notes) PROVE Up(notes) = UpStep(notes, Up(notes))
<1>1. DOMAIN notes = 1..Len(notes) /\ Len(notes) \in Nat
  BY GoodItems
<1>2. PICK g : Rooted(notes, g, Len(notes))
  BY <1>1, RootedExists
<1> DEFINE At(i) == CHOOSE n \in 1..Len(notes) : notes[n].id = i
           f == [i \in Ids(notes) |-> g[At(i)]]
<1>3. ASSUME NEW n \in 1..Len(notes) PROVE At(notes[n].id) = n /\ notes[n].id \in Ids(notes) /\ f[notes[n].id] = g[n]
  <2>1. \A m \in 1..Len(notes) : notes[m].id = notes[n].id => m = n
    BY DEF GoodList, Forest
  <2>2. At(notes[n].id) = n
    BY <2>1
  <2>3. notes[n].id \in Ids(notes)
    BY GoodItems
  <2> QED BY <2>2, <2>3
<1>4. ASSUME NEW i \in Ids(notes) PROVE f[i] = UpStep(notes, f)[i]
  <2>1. PICK n \in 1..Len(notes) : notes[n].id = i
    BY <1>1 DEF Ids
  <2> HIDE DEF f, At
  <2>a. CommentRow(notes, i) = notes[n]
    BY <2>1, FoundRow
  <2>2. f[i] = g[n] /\ CommentRow(notes, i) = notes[n]
    BY <2>1, <2>a, <1>3
  <2>3. UpStep(notes, f)[i] = IF notes[n].parentId \in Ids(notes) THEN f[notes[n].parentId] ELSE i
    BY <2>2 DEF UpStep
  <2>4. IF notes[n].parentId = NoParent THEN g[n] = notes[n].id
        ELSE \E k \in 1..(n - 1) : notes[k].id = notes[n].parentId /\ g[n] = g[k]
    BY <1>2 DEF Rooted
  <2>5. CASE notes[n].parentId = NoParent
    <3>1. notes[n].parentId \notin Ids(notes)
      BY <2>5, RootOrReply
    <3> QED BY <3>1, <2>1, <2>2, <2>3, <2>4, <2>5
  <2>6. CASE notes[n].parentId # NoParent
    <3>1. notes[n].parentId \in Ids(notes)
      BY <2>6, RootOrReply
    <3>2. PICK k \in 1..(n - 1) : notes[k].id = notes[n].parentId /\ g[n] = g[k]
      BY <2>4, <2>6
    <3>3. k \in 1..Len(notes)
      BY <1>1
    <3>4. f[notes[n].parentId] = g[k]
      BY <3>2, <3>3, <1>3
    <3> QED BY <3>1, <3>2, <3>4, <2>2, <2>3
  <2> QED BY <2>5, <2>6
<1>5. f = UpStep(notes, f)
  <2>1. DOMAIN UpStep(notes, f) = Ids(notes) /\ UpStep(notes, f) = [i \in Ids(notes) |-> UpStep(notes, f)[i]]
    BY DEF UpStep
  <2>2. f = [i \in Ids(notes) |-> f[i]]
    OBVIOUS
  <2> HIDE DEF f
  <2> QED BY <2>1, <2>2, <1>4
<1> HIDE DEF f
<1> QED BY <1>5 DEF Up

LEMMA UpIs ==
  ASSUME NEW notes, GoodList(notes), NEW n \in 1..Len(notes)
  PROVE  Up(notes)[notes[n].id] = IF notes[n].parentId = NoParent THEN notes[n].id ELSE Up(notes)[notes[n].parentId]
<1>1. notes[n].id \in Ids(notes) /\ CommentRow(notes, notes[n].id) = notes[n]
  BY GoodItems, FoundRow
<1>2. UpStep(notes, Up(notes))[notes[n].id] = IF notes[n].parentId \in Ids(notes) THEN Up(notes)[notes[n].parentId] ELSE notes[n].id
  BY <1>1 DEF UpStep
<1>3. Up(notes)[notes[n].id] = UpStep(notes, Up(notes))[notes[n].id]
  BY UpFixed
<1>4. notes[n].parentId \in Ids(notes) <=> notes[n].parentId # NoParent
  BY RootOrReply
<1> QED BY <1>2, <1>3, <1>4

\* the root above a comment is in the list, no later than the comment
LEMMA UpRoot ==
  ASSUME NEW notes, GoodList(notes), NEW n \in 1..Len(notes)
  PROVE  \E k \in 1..n : Up(notes)[notes[n].id] = notes[k].id /\ notes[k].parentId = NoParent
<1> DEFINE Lost == {m \in Nat : m \in 1..Len(notes) /\ ~\E k \in 1..m : Up(notes)[notes[m].id] = notes[k].id /\ notes[k].parentId = NoParent}
<1>0. Len(notes) \in Nat
  BY GoodItems
<1> SUFFICES ASSUME Lost # {} PROVE FALSE
  BY <1>0
<1>1. PICK m \in Lost : \A y \in Lost : m <= y
  BY Least
<1>2. CASE notes[m].parentId = NoParent
  <2>1. Up(notes)[notes[m].id] = notes[m].id /\ m \in 1..m
    BY <1>2, UpIs
  <2> QED BY <2>1, <1>2
<1>3. CASE notes[m].parentId # NoParent
  <2>1. PICK j \in 1..(m - 1) : j \in 1..Len(notes) /\ notes[j].id = notes[m].parentId
    BY <1>3, RootOrReply
  <2>2. j \in Nat /\ ~(m <= j) /\ j < m
    OBVIOUS
  <2>3. PICK k \in 1..j : Up(notes)[notes[j].id] = notes[k].id /\ notes[k].parentId = NoParent
    BY <2>1, <2>2, <1>1
  <2>4. Up(notes)[notes[m].id] = Up(notes)[notes[j].id]
    BY <2>1, <1>3, UpIs
  <2>5. k \in 1..m
    BY <2>2
  <2> QED BY <2>3, <2>4, <2>5
<1> QED BY <1>2, <1>3

LEMMA Resolved ==
  ASSUME NEW notes, GoodList(notes), NEW n \in 1..Len(notes)
  PROVE  ResolveRootId(notes[n], notes) = Up(notes)[notes[n].id]
BY DEF ResolveRootId, Up, UpStep

ThreadItem == [root : CommentItem, replies : Seq(CommentItem), anchor : {"none", "element", "missing"}]
Shows(t, i) == t.root.id = i \/ \E k \in 1..Len(t.replies) : t.replies[k].id = i
\* the threads of the first m comments: one for each root, with the comments below it
ThreadsOf(notes, threads, m) ==
  /\ threads \in Seq(ThreadItem)
  /\ \A a, b \in 1..Len(threads) : threads[a].root.id = threads[b].root.id => a = b
  /\ \A k \in 1..m : \E n \in 1..Len(threads) : threads[n].root.id = Up(notes)[notes[k].id]
  /\ \A n \in 1..Len(threads) : \A i \in CommentIds :
       Shows(threads[n], i) <=> \E k \in 1..m : notes[k].id = i /\ Up(notes)[i] = threads[n].root.id

LEMMA PlacedNext ==
  ASSUME NEW notes, GoodList(notes), anchor \in [selected : BOOLEAN, live : BOOLEAN],
         NEW m \in 1..Len(notes), NEW threads, ThreadsOf(notes, threads, m - 1)
  PROVE  ThreadsOf(notes, Placed(notes[m], Up(notes)[notes[m].id], threads), m)
<1> DEFINE c == notes[m]
           r == Up(notes)[notes[m].id]
           new == Placed(c, r, threads)
<1>1. /\ m \in Nat /\ c \in CommentItem /\ c.id \in CommentIds
      /\ \A k \in 1..m : k = m \/ k \in 1..(m - 1)
      /\ \A k \in 1..(m - 1) : k \in 1..m /\ k \in 1..Len(notes) /\ notes[k].id # c.id
  <2>1. m \in Nat /\ Len(notes) \in Nat /\ c \in CommentItem /\ c.id \in CommentIds
    BY GoodItems DEF CommentItem
  <2>2. \A k \in 1..(m - 1) : k \in 1..m /\ k \in 1..Len(notes) /\ k # m
    BY <2>1
  <2>3. \A k \in 1..(m - 1) : notes[k].id # c.id
    BY <2>2 DEF GoodList, Forest
  <2> QED BY <2>1, <2>2, <2>3
<1>2. /\ threads \in Seq(ThreadItem)
      /\ \A a, b \in 1..Len(threads) : threads[a].root.id = threads[b].root.id => a = b
      /\ \A k \in 1..(m - 1) : \E n \in 1..Len(threads) : threads[n].root.id = Up(notes)[notes[k].id]
      /\ \A n \in 1..Len(threads) : \A i \in CommentIds :
           Shows(threads[n], i) <=> \E k \in 1..(m - 1) : notes[k].id = i /\ Up(notes)[i] = threads[n].root.id
  BY DEF ThreadsOf
<1>3. DOMAIN threads = 1..Len(threads) /\ Len(threads) \in Nat /\ \A n \in 1..Len(threads) : threads[n] \in ThreadItem
  BY <1>2, SeqItems
<1>4. ASSUME NEW n \in 1..Len(threads)
      PROVE  threads[n].root.id \in CommentIds /\ threads[n].root.id # c.id
  <2>1. threads[n].root.id \in CommentIds
    BY <1>3 DEF ThreadItem, CommentItem
  <2>2. Shows(threads[n], threads[n].root.id)
    BY DEF Shows
  <2>3. PICK k \in 1..(m - 1) : notes[k].id = threads[n].root.id
    BY <2>1, <2>2, <1>2, SMTT(30)
  <2> QED BY <2>1, <2>3, <1>1
<1>5. PICK j \in 1..m : r = notes[j].id /\ notes[j].parentId = NoParent
  BY UpRoot
<1>6. Up(notes)[r] = r /\ j \in 1..Len(notes)
  <2>1. j \in 1..Len(notes)
    BY <1>1
  <2> QED BY <2>1, <1>5, UpIs
<1>7. CASE r = c.id
  <2> DEFINE t == [root |-> c, replies |-> <<>>, anchor |-> ClassifyAnchor(c)]
  <2>1. new = Append(threads, t)
    BY <1>7 DEF Placed
  <2>2. t \in ThreadItem /\ t.root.id = c.id /\ \A i : Shows(t, i) <=> i = c.id
    <3>1. ClassifyAnchor(c) \in {"none", "element", "missing"}
      BY DEF ClassifyAnchor
    <3>2. <<>> \in Seq(CommentItem)
      OBVIOUS
    <3>3. t \in ThreadItem /\ t.root.id = c.id /\ t.replies = <<>>
      BY <3>1, <3>2, <1>1 DEF ThreadItem
    <3> HIDE DEF t
    <3> QED BY <3>3 DEF Shows
  <2> HIDE DEF t, new, c, r
  <2>3. /\ new \in Seq(ThreadItem) /\ Len(new) = Len(threads) + 1 /\ new[Len(threads) + 1] = t
        /\ \A n \in 1..Len(threads) : new[n] = threads[n]
    BY <2>1, <2>2, <1>2, AppendProperties
  <2>4. /\ \A n \in 1..Len(new) : n \in 1..Len(threads) \/ n = Len(threads) + 1
        /\ \A n \in 1..Len(threads) : n \in 1..Len(new)
        /\ Len(threads) + 1 \in 1..Len(new)
    BY <2>3, <1>3
  <2>5. ASSUME NEW a \in 1..Len(new), NEW b \in 1..Len(new), new[a].root.id = new[b].root.id PROVE a = b
    <3>1. CASE a \in 1..Len(threads) /\ b \in 1..Len(threads)
      BY <3>1, <2>3, <2>5, <1>2
    <3> QED BY <3>1, <2>2, <2>3, <2>4, <2>5, <1>4
  <2>6. ASSUME NEW k \in 1..m PROVE \E n \in 1..Len(new) : new[n].root.id = Up(notes)[notes[k].id]
    <3>1. CASE k = m
      <4>1. new[Len(threads) + 1].root.id = Up(notes)[notes[k].id]
        BY <3>1, <2>2, <2>3, <1>7 DEF c, r
      <4> QED BY <4>1, <2>4
    <3>2. CASE k \in 1..(m - 1)
      <4>1. PICK n \in 1..Len(threads) : threads[n].root.id = Up(notes)[notes[k].id]
        BY <3>2, <1>2
      <4> QED BY <4>1, <2>3, <2>4
    <3> QED BY <3>1, <3>2, <1>1
  <2>7. ASSUME NEW n \in 1..Len(new), NEW i \in CommentIds
        PROVE  Shows(new[n], i) <=> \E k \in 1..m : notes[k].id = i /\ Up(notes)[i] = new[n].root.id
    <3>1. CASE n \in 1..Len(threads)
      <4>1. new[n] = threads[n] /\ new[n].root.id # c.id
        BY <3>1, <2>3, <1>4
      <4>2. Shows(new[n], i) <=> \E k \in 1..(m - 1) : notes[k].id = i /\ Up(notes)[i] = new[n].root.id
        BY <3>1, <4>1, <1>2
      <4>3. ~(notes[m].id = i /\ Up(notes)[i] = new[n].root.id)
        BY <4>1, <1>7 DEF c, r
      <4> QED BY <4>2, <4>3, <1>1
    <3>2. CASE n = Len(threads) + 1
      <4>1. Shows(new[n], i) <=> i = c.id
        BY <3>2, <2>2, <2>3
      <4>2. new[n].root.id = c.id
        BY <3>2, <2>2, <2>3
      <4>3. i = c.id => notes[m].id = i /\ Up(notes)[i] = new[n].root.id /\ m \in 1..m
        BY <4>2, <1>1, <1>7 DEF c, r
      <4>4. ASSUME NEW k \in 1..m, notes[k].id = i, Up(notes)[i] = c.id PROVE i = c.id
        <5>1. CASE k = m
          BY <5>1, <4>4 DEF c
        <5>2. CASE k \in 1..(m - 1)
          <6>1. PICK l \in 1..k : Up(notes)[notes[k].id] = notes[l].id
            BY <5>2, <1>1, UpRoot
          <6>2. l \in 1..(m - 1)
            BY <5>2, <1>1
          <6> QED BY <6>1, <6>2, <4>4, <1>1
        <5> QED BY <5>1, <5>2, <1>1
      <4> QED BY <4>1, <4>2, <4>3, <4>4
    <3> QED BY <3>1, <3>2, <2>4
  <2>8. ThreadsOf(notes, new, m)
    BY <2>3, <2>5, <2>6, <2>7 DEF ThreadsOf
  <2> QED BY <2>8 DEF new, c, r
<1>8. CASE r # c.id
  <2>1. j \in 1..(m - 1)
    BY <1>1, <1>5, <1>8
  <2>2. PICK p \in 1..Len(threads) : threads[p].root.id = r
    BY <2>1, <1>2, <1>5, <1>6
  <2> DEFINE opened == {n \in DOMAIN threads : threads[n].root.id = r}
             last == CHOOSE k \in opened : \A l \in opened : l <= k
             t == [threads[p] EXCEPT !.replies = Append(threads[p].replies, c)]
  <2>3. opened = {p} /\ p \in Nat
    BY <2>2, <1>2, <1>3
  <2>4. last = p
    BY <2>3
  <2>5. new = [threads EXCEPT ![p] = t]
    <3>1. new = [threads EXCEPT ![last].replies = Append(@, c)]
      BY <2>3, <1>8 DEF Placed
    <3> HIDE DEF last
    <3> QED BY <3>1, <2>4
  <2>6. threads[p] \in ThreadItem /\ threads[p].replies \in Seq(CommentItem)
    BY <1>3 DEF ThreadItem
  <2> DEFINE more == Append(threads[p].replies, c)
  <2>7. /\ more \in Seq(CommentItem) /\ Len(threads[p].replies) \in Nat
        /\ Len(more) = Len(threads[p].replies) + 1 /\ more[Len(threads[p].replies) + 1] = c
        /\ \A k \in 1..Len(threads[p].replies) : more[k] = threads[p].replies[k]
    BY <2>6, <1>1, AppendProperties, SeqItems
  <2>8. t \in ThreadItem /\ t.root = threads[p].root /\ t.replies = more
    <3> HIDE DEF more
    <3>1. t = [threads[p] EXCEPT !.replies = more]
      BY DEF more
    <3> HIDE DEF t
    <3> QED BY <3>1, <2>6, <2>7 DEF ThreadItem
  <2> HIDE DEF t, more, opened, last
  <2>9. \A i : Shows(t, i) <=> Shows(threads[p], i) \/ i = c.id
    <3>1. TAKE i
    <3>2. ASSUME Shows(t, i) PROVE Shows(threads[p], i) \/ i = c.id
      <4>1. \A k \in 1..Len(more) : k \in 1..Len(threads[p].replies) \/ k = Len(threads[p].replies) + 1
        BY <2>7
      <4> QED BY <4>1, <3>2, <2>7, <2>8 DEF Shows
    <3>3. ASSUME Shows(threads[p], i) PROVE Shows(t, i)
      <4>1. \A k \in 1..Len(threads[p].replies) : k \in 1..Len(more)
        BY <2>7
      <4> QED BY <4>1, <3>3, <2>7, <2>8 DEF Shows
    <3>4. ASSUME i = c.id PROVE Shows(t, i)
      <4>1. Len(threads[p].replies) + 1 \in 1..Len(more)
        BY <2>7
      <4> QED BY <4>1, <3>4, <2>7, <2>8 DEF Shows
    <3> QED BY <3>2, <3>3, <3>4
  <2> HIDE DEF new, c, r
  <2>10. /\ new \in Seq(ThreadItem) /\ Len(new) = Len(threads) /\ new[p] = t
         /\ \A n \in 1..Len(threads) : n # p => new[n] = threads[n]
    <3>1. new \in [1..Len(threads) -> ThreadItem]
      BY <2>5, <2>8, <1>3
    <3> QED BY <3>1, <2>5, <2>2, <1>3
  <2>11. \A n \in 1..Len(threads) : new[n].root.id = threads[n].root.id
    BY <2>8, <2>10
  <2>12. \A k \in 1..m : \E n \in 1..Len(new) : new[n].root.id = Up(notes)[notes[k].id]
    <3>1. TAKE k \in 1..m
    <3>2. CASE k = m
      BY <3>2, <2>2, <2>10, <2>11 DEF r
    <3>3. CASE k \in 1..(m - 1)
      BY <3>3, <2>10, <2>11, <1>2
    <3> QED BY <3>2, <3>3, <1>1
  <2>13. ASSUME NEW n \in 1..Len(new), NEW i \in CommentIds
         PROVE  Shows(new[n], i) <=> \E k \in 1..m : notes[k].id = i /\ Up(notes)[i] = new[n].root.id
    <3>1. n \in 1..Len(threads) /\ new[n].root.id = threads[n].root.id
      BY <2>10, <2>11
    <3>2. Shows(threads[n], i) <=> \E k \in 1..(m - 1) : notes[k].id = i /\ Up(notes)[i] = new[n].root.id
      BY <3>1, <1>2
    <3>3. CASE n = p
      <4>1. Shows(new[n], i) <=> Shows(threads[n], i) \/ i = c.id
        BY <3>3, <2>9, <2>10
      <4>2. i = c.id <=> notes[m].id = i /\ Up(notes)[i] = new[n].root.id
        BY <3>1, <3>3, <2>2 DEF c, r
      <4>3. m \in 1..m
        BY <1>1
      <4> QED BY <4>1, <4>2, <4>3, <3>2, <1>1
    <3>4. CASE n # p
      <4>1. new[n] = threads[n] /\ new[n].root.id # r
        BY <3>1, <3>4, <2>2, <2>10, <1>2
      <4>2. ~(notes[m].id = i /\ Up(notes)[i] = new[n].root.id)
        BY <4>1 DEF r
      <4> QED BY <4>1, <4>2, <3>2, <1>1
    <3> QED BY <3>3, <3>4
  <2>14. \A a, b \in 1..Len(new) : new[a].root.id = new[b].root.id => a = b
    BY <2>10, <2>11, <1>2
  <2>15. ThreadsOf(notes, new, m)
    BY <2>10, <2>12, <2>13, <2>14 DEF ThreadsOf
  <2> QED BY <2>15 DEF new, c, r
<1> QED BY <1>7, <1>8

BuiltUpTo(notes, f, m) ==
  /\ f = [n \in 0..m |-> f[n]] /\ f[0] = <<>>
  /\ \A n \in 1..m : f[n] = Placed(notes[n], ResolveRootId(notes[n], notes), f[n - 1])

LEMMA BuiltExists ==
  ASSUME NEW notes, NEW m \in Nat PROVE \E f : BuiltUpTo(notes, f, m)
<1> DEFINE None == {n \in Nat : ~\E f : BuiltUpTo(notes, f, n)}
<1> SUFFICES ASSUME None # {} PROVE FALSE
  OBVIOUS
<1>1. PICK n \in None : \A y \in None : n <= y
  BY Least
<1>2. n # 0
  <2>1. BuiltUpTo(notes, [k \in 0..0 |-> <<>>], 0)
    BY DEF BuiltUpTo
  <2> QED BY <2>1
<1>3. n \in Nat /\ n - 1 \in Nat /\ ~(n <= n - 1)
  BY <1>2
<1>4. PICK f : BuiltUpTo(notes, f, n - 1)
  BY <1>1, <1>3
<1> DEFINE next == Placed(notes[n], ResolveRootId(notes[n], notes), f[n - 1])
<1> HIDE DEF next
<1> DEFINE g == [k \in 0..n |-> IF k = n THEN next ELSE f[k]]
<1>5. /\ g = [k \in 0..n |-> g[k]] /\ g[n] = next
      /\ \A k \in 0..(n - 1) : g[k] = f[k]
      /\ \A k \in 1..n : k - 1 \in 0..(n - 1) /\ (k = n \/ (k \in 1..(n - 1) /\ k \in 0..(n - 1)))
      /\ 0 \in 0..(n - 1)
  BY <1>3
<1> HIDE DEF g
<1>6. ASSUME NEW k \in 1..n PROVE g[k] = Placed(notes[k], ResolveRootId(notes[k], notes), g[k - 1])
  <2>1. CASE k = n
    BY <2>1, <1>5 DEF next
  <2>2. CASE k \in 1..(n - 1)
    <3>1. f[k] = Placed(notes[k], ResolveRootId(notes[k], notes), f[k - 1])
      BY <2>2, <1>4 DEF BuiltUpTo
    <3>2. g[k] = f[k] /\ g[k - 1] = f[k - 1]
      <4>1. k \in 0..(n - 1) /\ k - 1 \in 0..(n - 1)
        BY <2>2, <1>3
      <4> QED BY <4>1, <1>5
    <3> QED BY <3>1, <3>2
  <2> QED BY <2>1, <2>2, <1>5
<1>7. BuiltUpTo(notes, g, n)
  BY <1>4, <1>5, <1>6 DEF BuiltUpTo
<1> QED BY <1>7

LEMMA BuildThreadsBuilds ==
  ASSUME NEW notes, Len(notes) \in Nat
  PROVE  \E f : BuiltUpTo(notes, f, Len(notes)) /\ BuildThreads(notes) = f[Len(notes)]
<1> DEFINE Step(f) == [n \in 0..Len(notes) |->
                         IF n = 0 THEN <<>> ELSE Placed(notes[n], ResolveRootId(notes[n], notes), f[n - 1])]
           built == CHOOSE f : f = Step(f)
<1>1. PICK g : BuiltUpTo(notes, g, Len(notes))
  BY BuiltExists
<1>2. g = Step(g)
  <2>1. \A n \in 0..Len(notes) : g[n] = Step(g)[n]
    <3> TAKE n \in 0..Len(notes)
    <3>1. CASE n = 0
      BY <3>1, <1>1 DEF BuiltUpTo
    <3>2. CASE n # 0
      <4>1. n \in 1..Len(notes)
        BY <3>2
      <4> QED BY <4>1, <3>2, <1>1 DEF BuiltUpTo
    <3> QED BY <3>1, <3>2
  <2> QED BY <2>1, <1>1 DEF BuiltUpTo
<1>3. built = Step(built)
  BY <1>2
<1>4. BuiltUpTo(notes, built, Len(notes))
  <2> HIDE DEF built
  <2>1. \A n \in 0..Len(notes) : built[n] = Step(built)[n]
    BY <1>3
  <2>2. built = [n \in 0..Len(notes) |-> built[n]]
    BY <1>3
  <2> QED BY <2>1, <2>2 DEF BuiltUpTo
<1>5. BuildThreads(notes) = built[Len(notes)]
  BY DEF BuildThreads
<1> QED BY <1>4, <1>5

LEMMA ThreadsBuilt ==
  ASSUME NEW notes, GoodList(notes), anchor \in [selected : BOOLEAN, live : BOOLEAN]
  PROVE  ThreadsOf(notes, BuildThreads(notes), Len(notes))
<1>0. Len(notes) \in Nat
  BY GoodItems
<1>1. PICK f : BuiltUpTo(notes, f, Len(notes)) /\ BuildThreads(notes) = f[Len(notes)]
  BY <1>0, BuildThreadsBuilds
<1> DEFINE Wrong == {n \in Nat : n \in 0..Len(notes) /\ ~ThreadsOf(notes, f[n], n)}
<1>2. Wrong = {}
  <2> SUFFICES ASSUME Wrong # {} PROVE FALSE
    OBVIOUS
  <2>1. PICK n \in Wrong : \A y \in Wrong : n <= y
    BY Least
  <2>2. n # 0
    <3>1. f[0] = <<>>
      BY <1>1 DEF BuiltUpTo
    <3>2. <<>> \in Seq(ThreadItem) /\ Len(<<>>) = 0
      OBVIOUS
    <3>3. ThreadsOf(notes, f[0], 0)
      BY <3>1, <3>2 DEF ThreadsOf
    <3> QED BY <3>3
  <2>3. n \in 1..Len(notes) /\ n - 1 \in Nat /\ n - 1 \in 0..Len(notes) /\ ~(n <= n - 1)
    BY <2>2, <1>0
  <2>4. ThreadsOf(notes, f[n - 1], n - 1)
    BY <2>1, <2>3
  <2>5. f[n] = Placed(notes[n], Up(notes)[notes[n].id], f[n - 1])
    <3>1. \A k \in 1..Len(notes) : f[k] = Placed(notes[k], ResolveRootId(notes[k], notes), f[k - 1])
      BY <1>1 DEF BuiltUpTo
    <3>2. n \in 1..Len(notes)
      BY <2>3
    <3> HIDE DEF Wrong
    <3>3. f[n] = Placed(notes[n], ResolveRootId(notes[n], notes), f[n - 1])
      BY <3>1, <3>2
    <3>4. ResolveRootId(notes[n], notes) = Up(notes)[notes[n].id]
      BY <3>2, Resolved
    <3> QED BY <3>3, <3>4
  <2>6. ThreadsOf(notes, f[n], n)
    BY <2>3, <2>4, <2>5, PlacedNext
  <2> QED BY <2>6
<1>3. Len(notes) \in 0..Len(notes)
  BY <1>0
<1> QED BY <1>0, <1>1, <1>2, <1>3

\* a thread on the screen has a root of the list
LEMMA ThreadRoots ==
  ASSUME CommentInv, panel.fresh, NEW t \in Threads PROVE t.root.id \in Ids(panel.list)
<1>1. GoodList(panel.list) /\ anchor \in [selected : BOOLEAN, live : BOOLEAN]
  BY DEF CommentInv, PanelHolds
<1>2. ThreadsOf(panel.list, AllThreads, Len(panel.list)) /\ DOMAIN panel.list = 1..Len(panel.list)
  BY <1>1, ThreadsBuilt, GoodItems DEF AllThreads
<1>3. AllThreads \in Seq(ThreadItem)
  BY <1>2 DEF ThreadsOf
<1>4. DOMAIN AllThreads = 1..Len(AllThreads) /\ \A n \in DOMAIN AllThreads : AllThreads[n] \in ThreadItem
  BY <1>3, SeqItems
<1>5. PICK n \in 1..Len(AllThreads) : t = AllThreads[n]
  BY <1>4 DEF Threads, Range
<1>6. t.root.id \in CommentIds /\ Shows(AllThreads[n], t.root.id)
  BY <1>4, <1>5 DEF ThreadItem, CommentItem, Shows
<1>7. \E k \in 1..Len(panel.list) : panel.list[k].id = t.root.id
  BY <1>2, <1>5, <1>6 DEF ThreadsOf
<1> QED BY <1>2, <1>7 DEF Ids

LEMMA SendPosts ==
  ASSUME CommentInv, NEW p \in Posts,
         MountList(p) \/ HandleRefresh(p) \/ HandleSubmit(p) \/ HandleReplySubmit(p) \/ HandleStatusChange(p)
  PROVE  CommentInv'
<1>0. /\ {} \in SUBSET (Staff \cup {"other"}) /\ {"other"} \in SUBSET (Staff \cup {"other"})
      /\ "list" \in {"list", "create", "status"} /\ "create" \in {"list", "create", "status"}
      /\ "status" \in {"list", "create", "status"} /\ "list" # "create" /\ "list" # "status" /\ "create" # "status"
      /\ "open" \in {"open", "resolved"} /\ "resolved" \in {"open", "resolved"} /\ FALSE \in BOOLEAN
  OBVIOUS
<1>1. CASE MountList(p) \/ HandleRefresh(p)
  <2>1. SendPost(p, "list", NoParent, FALSE, {}, "open")
    BY <1>1 DEF MountList, HandleRefresh
  <2> QED BY <1>0, <2>1, SendStep
<1>2. CASE HandleSubmit(p)
  <2>1. SendPost(p, "create", NoParent, anchor.selected, {"other"}, "open") /\ anchor.selected \in BOOLEAN
    BY <1>2 DEF HandleSubmit, CommentInv
  <2> QED BY <1>0, <2>1, SendStep
<1>3. CASE HandleReplySubmit(p)
  <2>1. PICK t \in Threads : SendPost(p, "create", t.root.id, FALSE, {}, "open")
    BY <1>3 DEF HandleReplySubmit
  <2>2. panel.fresh => t.root.id \in Ids(panel.list)
    BY ThreadRoots
  <2> QED BY <1>0, <2>1, <2>2, SendStep
<1>4. CASE HandleStatusChange(p)
  <2>1. PICK t \in Threads :
          SendPost(p, "status", t.root.id, FALSE, {}, IF t.root.status = "open" THEN "resolved" ELSE "open")
    BY <1>4 DEF HandleStatusChange
  <2>2. panel.fresh => t.root.id \in Ids(panel.list)
    BY ThreadRoots
  <2>3. PICK to \in {"open", "resolved"} : SendPost(p, "status", t.root.id, FALSE, {}, to)
    BY <2>1
  <2> QED BY <1>0, <2>2, <2>3, SendStep
<1> QED BY <1>1, <1>2, <1>3, <1>4

LEMMA CommentInvNext == CommentInv /\ [CommentNext]_commentVars => CommentInv'
<1> SUFFICES ASSUME CommentInv, [CommentNext]_commentVars PROVE CommentInv'
  OBVIOUS
<1>0. GoodList(thread) /\ PanelHolds /\ KnownTo(thread, thread)
  BY GoodItems DEF CommentInv
<1>1. CASE OtherComments
  BY <1>1, OtherCommentsStep
<1>2. CASE MembershipEnds
  <2>1. UNCHANGED <<thread, anchor, panel, postings>>
    BY <1>2 DEF MembershipEnds
  <2> QED BY <2>1, <1>0, ThreadStep
<1>3. CASE ShowResolved
  <2>1. panel' = [panel EXCEPT !.all = ~panel.all] /\ UNCHANGED <<thread, anchor, postings>>
    BY <1>3 DEF ShowResolved, commentServer
  <2>2. panel = [x \in PanelFields |-> panel[x]]
    BY <1>0 DEF PanelHolds
  <2>3. /\ panel' = [x \in PanelFields |-> panel'[x]]
        /\ panel'.fresh = panel.fresh /\ panel'.list = panel.list /\ panel'.known = panel.known
    BY <2>1, <2>2 DEF PanelFields
  <2>4. PanelHolds'
    BY <2>1, <2>3, <1>0 DEF PanelHolds
  <2> QED BY <2>1, <2>3, <2>4, AsideComments
<1>4. ASSUME NEW p \in Posts,
             \/ MountList(p) \/ HandleRefresh(p) \/ HandleSubmit(p) \/ HandleReplySubmit(p) \/ HandleStatusChange(p)
             \/ NotAMember(p) \/ GetComments(p) \/ PostComment(p) \/ EnqueueMentioned(p) \/ PatchStatus(p)
             \/ LosePost(p) \/ TakePost(p)
      PROVE  CommentInv'
  BY <1>4, SendPosts, PlainAnswers, PostCommentStep, PatchStatusStep, TakePostStep
<1>5. CASE UNCHANGED commentVars
  <2>1. UNCHANGED <<thread, anchor, panel, postings>>
    BY <1>5 DEF commentVars
  <2> QED BY <2>1, <1>0, ThreadStep
<1> QED BY <1>1, <1>2, <1>3, <1>4, <1>5 DEF CommentNext

LEMMA InvHidesNone == CommentInv => NoCommentHidden
<1> SUFFICES ASSUME CommentInv, panel.fresh, NEW i \in panel.known
             PROVE  LET parent == CommentRow(thread, i).parentId IN
                    /\ Cardinality({k \in DOMAIN panel.list : panel.list[k].id = i}) = 1
                    /\ \E n \in DOMAIN AllThreads :
                         /\ PlacesOf(i) = {n}
                         /\ IF parent = NoParent THEN AllThreads[n].root.id = i
                            ELSE PlacesOf(parent) = {n} /\ AllThreads[n].root.id # i
                         /\ AllThreads[n] \in Threads <=> (panel.all \/ AllThreads[n].root.status = "open")
  BY DEF NoCommentHidden
<1> DEFINE notes == panel.list
<1>1. /\ GoodList(thread) /\ GoodList(notes) /\ KnownTo(notes, thread) /\ panel.known = Ids(notes)
      /\ anchor \in [selected : BOOLEAN, live : BOOLEAN]
  BY DEF CommentInv, PanelHolds
<1>2. DOMAIN notes = 1..Len(notes) /\ Len(notes) \in Nat /\ Ids(notes) \in SUBSET CommentIds
  BY <1>1, GoodItems
<1>3. ThreadsOf(notes, AllThreads, Len(notes))
  BY <1>1, ThreadsBuilt DEF AllThreads
<1> HIDE DEF notes
<1>4. PICK k \in 1..Len(notes) : notes[k].id = i
  BY <1>1, <1>2 DEF Ids
<1>5. CommentRow(thread, i).parentId = notes[k].parentId
  <2>1. PICK m \in 1..Len(thread) : thread[m].id = i /\ thread[m].parentId = notes[k].parentId
    BY <1>1, <1>4 DEF KnownTo, InTable
  <2>2. CommentRow(thread, thread[m].id) = thread[m]
    BY <1>1, FoundRow
  <2> QED BY <2>1, <2>2
<1>6. Cardinality({m \in DOMAIN notes : notes[m].id = i}) = 1
  <2>1. {m \in DOMAIN notes : notes[m].id = i} = {k}
    BY <1>1, <1>2, <1>4 DEF GoodList, Forest
  <2> QED BY <2>1, FS_Singleton
<1>7. /\ DOMAIN AllThreads = 1..Len(AllThreads)
      /\ \A n \in DOMAIN AllThreads : DOMAIN AllThreads[n].replies = 1..Len(AllThreads[n].replies)
  <2>1. AllThreads \in Seq(ThreadItem)
    BY <1>3 DEF ThreadsOf
  <2>2. DOMAIN AllThreads = 1..Len(AllThreads) /\ \A n \in DOMAIN AllThreads : AllThreads[n] \in ThreadItem
    BY <2>1, SeqItems
  <2>3. ASSUME NEW n \in DOMAIN AllThreads PROVE DOMAIN AllThreads[n].replies = 1..Len(AllThreads[n].replies)
    <3>1. AllThreads[n].replies \in Seq(CommentItem)
      BY <2>2 DEF ThreadItem
    <3> QED BY <3>1, SeqItems
  <2> QED BY <2>2, <2>3
<1>8. PICK n \in 1..Len(AllThreads) : AllThreads[n].root.id = Up(notes)[i]
  BY <1>3, <1>4 DEF ThreadsOf
<1>9. ASSUME NEW m \in 1..Len(notes), Up(notes)[notes[m].id] = Up(notes)[i] PROVE PlacesOf(notes[m].id) = {n}
  <2>1. \A a \in DOMAIN AllThreads : a \in PlacesOf(notes[m].id) <=> Shows(AllThreads[a], notes[m].id)
    BY <1>7 DEF PlacesOf, Shows
  <2>2. notes[m].id \in CommentIds
    BY <1>1, <1>2, GoodItems
  <2>3. \A a \in 1..Len(AllThreads) : Shows(AllThreads[a], notes[m].id) <=> AllThreads[a].root.id = Up(notes)[i]
    BY <2>2, <1>3, <1>9 DEF ThreadsOf
  <2>4. \A a \in 1..Len(AllThreads) : AllThreads[a].root.id = Up(notes)[i] => a = n
    BY <1>3, <1>8 DEF ThreadsOf
  <2>5. PlacesOf(notes[m].id) \in SUBSET DOMAIN AllThreads
    BY DEF PlacesOf
  <2> QED BY <2>1, <2>3, <2>4, <2>5, <1>7, <1>8
<1>10. PlacesOf(i) = {n}
  BY <1>4, <1>9
<1>11. IF notes[k].parentId = NoParent THEN AllThreads[n].root.id = i
       ELSE PlacesOf(notes[k].parentId) = {n} /\ AllThreads[n].root.id # i
  <2>1. CASE notes[k].parentId = NoParent
    <3>1. Up(notes)[i] = i
      BY <2>1, <1>1, <1>4, UpIs
    <3> QED BY <3>1, <2>1, <1>8
  <2>2. CASE notes[k].parentId # NoParent
    <3>1. PICK m \in 1..(k - 1) : m \in 1..Len(notes) /\ notes[m].id = notes[k].parentId
      BY <2>2, <1>1, RootOrReply
    <3>2. Up(notes)[notes[m].id] = Up(notes)[i]
      BY <3>1, <2>2, <1>1, <1>4, UpIs
    <3>3. PlacesOf(notes[m].id) = {n}
      BY <3>1, <3>2, <1>9
    <3>4. PICK j \in 1..m : Up(notes)[notes[m].id] = notes[j].id
      BY <3>1, <1>1, UpRoot
    <3>5. j \in 1..Len(notes) /\ j # k
      BY <3>1, <1>2
    <3>6. notes[j].id # i
      BY <3>5, <1>1, <1>4 DEF GoodList, Forest
    <3> QED BY <3>1, <3>2, <3>3, <3>4, <3>6, <2>2, <1>8
  <2> QED BY <2>1, <2>2
<1>12. AllThreads[n] \in Threads <=> (panel.all \/ AllThreads[n].root.status = "open")
  BY <1>7, <1>8 DEF Threads, Range
<1> QED BY <1>5, <1>6, <1>7, <1>8, <1>10, <1>11, <1>12 DEF notes

(* As long as no request overtook its last list, the panel has every comment it was given in exactly one thread, that *)
(* of its parent, and shows the threads the filter lets through: for any chains of replies, members and requests     *)
(* (buildThreads, CommentsSidebar).                                                                                  *)
THEOREM NoCommentIsHidden == CommentSpec => []NoCommentHidden
<1> QED BY CommentInvInit, CommentInvNext, InvHidesNone, PTL DEF CommentSpec
=============================================================================
