--------------------------- MODULE CheckoutProofs ---------------------------
(***************************************************************************)
(* Theorems about Checkout, for any items, tabs, staff, baskets and stock  *)
(* and any number of requests.                                             *)
(*                                                                         *)
(* Every claim is about a request nobody crossed, or about an item nobody  *)
(* raced: requests about the same cart or item at the same time are on     *)
(* record (Rivalry), so a step of one disturbs no claim of another.        *)
(***************************************************************************)
EXTENDS Checkout, FunctionTheorems, SequenceTheorems, FiniteSetTheorems,
        WellFoundedInduction, TLAPS

ItemDocs == [exists : BOOLEAN, active : BOOLEAN, inStock : BOOLEAN, qty : Nat \cup {NoCount}]

\* The collections and the histories have their shapes.
DataInv ==
    /\ menu \in [Item -> ItemDocs]
    /\ carts \in Nat
    /\ cart # NoCart => cart \in CartDocs /\ cart.id \in 1..carts
    /\ orders = [o \in Order |-> orders[o]]
    /\ \A o \in Order : orders[o] # Free => orders[o] \in OrderDocs
    /\ hist = [crossed |-> hist.crossed, uncleared |-> hist.uncleared,
               raced |-> hist.raced, mixed |-> hist.mixed, shelf |-> hist.shelf]
    /\ hist.shelf \in [Item -> Int \cup {NoCount}]

-----------------------------------------------------------------------------
(* What is left of a request.                                               *)

IsList(s) == Len(s) \in Nat /\ s = [k \in 1..Len(s) |-> s[k]]

\* What a save of a menu item may change.
ItemPatch(set) ==
    /\ DOMAIN set \subseteq {"exists", "active", "inStock", "qty"}
    /\ "exists" \in DOMAIN set => set.exists \in BOOLEAN
    /\ "active" \in DOMAIN set => set.active \in BOOLEAN
    /\ "inStock" \in DOMAIN set => set.inStock \in BOOLEAN
    /\ "qty" \in DOMAIN set => set.qty \in Nat \cup {NoCount}

\* A step left to do is one of its handler, about a thing of its request.
TaskInv(op, on, h) ==
    /\ h.do \in {"clear", "add", "new", "push", "line", "replace", "checkout", "drop"} =>
         NoCart \in on
    /\ h.do \in {"add", "new", "push"} => h.line \in Line
    /\ h.do = "line" => h.qty \in 1..LineLimit
    /\ h.do = "replace" => h.lines \in Seq(Line)
    /\ h.do \in {"menu", "create"} => h.lines \in Seq(Line) /\ Items(h.lines) \subseteq on
    /\ h.do = "menu" /\ h.cart # 0 => NoCart \in on
    /\ h.do = "item" => h.item \in Item \cap on /\ ItemPatch(h.set)
    /\ op = "order" /\ h.do = "item" /\ "qty" \in DOMAIN h.set => Counted(h.set.qty)
    /\ op = "edit" => h.do = "item"
    /\ op = "cart" => h.do \in {"line", "replace"}
    /\ op = "order" => h.do # "replace"

\* The tab fills its cart; the order is placed; its items are sold.
Shop == {"clear", "add", "new", "push", "line", "replace", "checkout"}
Sell == {"drop", "item", "skip"}
Stage(todo) ==
    \/ /\ todo[1].do \in Shop
       /\ \A k \in 2..Len(todo) : todo[k].do \in {"add", "checkout"}
       /\ todo[1].do = "clear" => Len(todo) > 1
    \/ Len(todo) = 1 /\ todo[1].do = "menu"
    \/ todo[1].do = "create" /\ \A k \in 2..Len(todo) : todo[k].do \in Sell
    \/ \A k \in 1..Len(todo) : todo[k].do \in Sell

RequestInv(q) ==
    \/ q = Idle
    \/ /\ q = [op |-> q.op, wish |-> q.wish, on |-> q.on, todo |-> q.todo]
       /\ q.op \in {"order", "cart", "edit"}
       /\ q.wish \in Seq(Line)
       /\ IsList(q.todo) /\ Len(q.todo) > 0
       /\ \A k \in 1..Len(q.todo) : TaskInv(q.op, q.on, q.todo[k])
       /\ Stage(q.todo)
       /\ q.op # "order" => Len(q.todo) = 1

RequestsInv ==
    /\ req = [a \in Actor |-> req[a]]
    /\ \A a \in Actor : RequestInv(req[a])

Busy(a) == req[a] # Idle
Alone(a) == Busy(a) /\ a \notin hist.crossed

\* Requests about the same thing at the same time are on record.
Rivalry ==
    \A a, b \in Actor :
        a # b /\ Busy(a) /\ Busy(b) /\ req[a].on \cap req[b].on # {} => a \in hist.crossed

-----------------------------------------------------------------------------
(* The stock.                                                               *)

\* The saves of item i that are left.
Saves(todo, i) == {k \in 1..Len(todo) : todo[k].do = "item" /\ todo[k].item = i}
Leaves(todo, i, n) ==
    \A k \in Saves(todo, i) : "qty" \in DOMAIN todo[k].set /\ todo[k].set.qty = n

\* The order is placed and item i will be saved for it.
Selling(a, i) ==
    /\ Busy(a) /\ req[a].op = "order" /\ Todo(a).do # "create"
    /\ Saves(req[a].todo, i) # {}

\* The account of an item agrees with the menu, or will once the sale under way
\* is saved, or a crossed sale is about to race it.
StockOf(i) ==
    menu[i].exists /\ Counted(menu[i].qty) =>
        \/ menu[i].qty = hist.shelf[i] /\ \A a \in Actor : ~Selling(a, i)
        \/ \E a \in Actor \cap hist.crossed : Selling(a, i)
        \/ \E a \in Actor \ hist.crossed :
              Selling(a, i) /\ Leaves(req[a].todo, i, hist.shelf[i])
StockInv == \A i \in Item \ hist.raced : StockOf(i)

\* A sale nobody crossed saves only what is counted.
SellClaim(a) ==
    Alone(a) /\ req[a].op = "order" =>
        \A i \in Item : Saves(req[a].todo, i) # {} => Counted(menu[i].qty)

\* The sale that was decided takes the portions ordered from the stock there is.
BuyClaim(a) ==
    Busy(a) /\ Todo(a).do = "create" =>
        /\ \A i \in Item : Saves(req[a].todo, i) # {} => i \in Items(Todo(a).lines)
        /\ \A i \in Items(Todo(a).lines) \ (Doubled(Todo(a).lines) \cup hist.raced) :
             menu[i].exists /\ Counted(menu[i].qty) =>
                /\ Saves(req[a].todo, i) # {}
                /\ a \notin hist.crossed =>
                     Leaves(req[a].todo, i, menu[i].qty - Count(Todo(a).lines, i))

-----------------------------------------------------------------------------
(* The cart.                                                                *)

Distinct(lines) == \A j, k \in DOMAIN lines : lines[j].item = lines[k].item => j = k

\* What is saved to a cart that was never mixed leaves one line per item.
CartClaim(a) ==
    Alone(a) /\ cart # NoCart /\ cart.id \notin hist.mixed =>
        /\ Todo(a).do = "push" /\ Todo(a).cart = cart.id =>
             Todo(a).line.item \notin Items(cart.lines)
        /\ Todo(a).do = "replace" => Distinct(Todo(a).lines)

IInv == /\ DataInv /\ RequestsInv /\ Rivalry
        /\ StockInv /\ OneLinePerItem
        /\ \A a \in Actor : SellClaim(a) /\ BuyClaim(a) /\ CartClaim(a)

-----------------------------------------------------------------------------
(* The basket.                                                              *)

\* The basket of useCart has one line per item: add() merges.
BasketsMerged == \A w \in Wishes : Distinct(w)

CartHas(n, w, doc) ==
    IF n = 0 THEN doc = NoCart ELSE doc # NoCart /\ doc.lines = SubSeq(w, 1, n)

\* A tab that has cleared the cart and is alone with it has put there what it
\* was asked for; the rest of the basket is still to come.
Filling(w, todo, doc) ==
    /\ Len(todo) <= Len(w) + 2
    /\ \A p \in 2..Len(todo) - 1 : todo[p] = Add(w[p + Len(w) + 1 - Len(todo)])
    /\ Len(todo) = 1 <=> todo[1].do = "checkout"
    /\ Len(todo) > 1 => todo[Len(todo)] = PlaceCart
    /\ Len(todo) = Len(w) + 2 <=> todo[1].do = "clear"
    /\ Len(todo) <= Len(w) + 1 => CartHas(Len(w) + 1 - Len(todo), w, doc)
    /\ todo[1].do \in {"add", "new", "push"} => todo[1].line = w[Len(w) + 2 - Len(todo)]
    /\ todo[1].do = "push" => doc # NoCart /\ todo[1].cart = doc.id
    /\ todo[1].do \in {"clear", "add", "new", "push", "checkout"}

WishClaim(a) ==
    Alone(a) /\ a \notin hist.uncleared /\ req[a].op = "order" =>
        /\ Todo(a).do \in {"menu", "create"} => Todo(a).lines = req[a].wish
        /\ Todo(a).do \in Shop => /\ Distinct(req[a].wish)
                                  /\ Filling(req[a].wish, req[a].todo, cart)

WishInv ==
    /\ \A a \in Actor : WishClaim(a)
    /\ \A o \in Order : orders[o] # Free /\ orders[o].clean => orders[o].lines = orders[o].wish

-----------------------------------------------------------------------------
(* Lists.                                                                   *)

LEMMA ListOf ==
  ASSUME NEW S, NEW s \in Seq(S)
  PROVE  IsList(s) /\ \A k \in 1..Len(s) : s[k] \in S
BY DEF IsList

LEMMA ListSeq ==
  ASSUME NEW s, IsList(s)
  PROVE  s \in Seq({s[k] : k \in 1..Len(s)})
<1> DEFINE S == {s[k] : k \in 1..Len(s)}
<1>1. \A k \in 1..Len(s) : s[k] \in S
  OBVIOUS
<1> HIDE DEF S
<1>2. [k \in 1..Len(s) |-> s[k]] \in Seq(S)
  BY <1>1, IsASeq DEF IsList
<1>3. s \in Seq(S)
  BY <1>2 DEF IsList
<1>4. QED
  BY <1>3 DEF S

\* The first of a list and the rest.
LEMMA RestOf ==
  ASSUME NEW s, IsList(s), Len(s) > 0
  PROVE  /\ Head(s) = s[1]
         /\ IsList(Tail(s)) /\ Len(Tail(s)) = Len(s) - 1
         /\ \A k \in 1..Len(s) - 1 : Tail(s)[k] = s[k + 1]
         /\ Tail(s) = <<>> <=> Len(s) = 1
<1> DEFINE S == {s[k] : k \in 1..Len(s)}
<1>1. s \in Seq(S)
  BY ListSeq
<1> HIDE DEF S
<1>2. s # <<>>
  OBVIOUS
<1>3. /\ Head(s) = s[1] /\ Tail(s) \in Seq(S) /\ Len(Tail(s)) = Len(s) - 1
      /\ \A k \in 1..Len(s) - 1 : Tail(s)[k] = s[k + 1]
  BY <1>1, <1>2
<1>4. IsList(Tail(s))
  BY <1>3, ListOf
<1>5. Tail(s) = <<>> <=> Len(s) = 1
  <2>1. \A u \in Seq(S) : u = <<>> <=> Len(u) = 0
    BY EmptySeq
  <2>2. Tail(s) = <<>> <=> Len(Tail(s)) = 0
    BY <1>3, <2>1, Zenon
  <2>3. Len(s) \in Nat
    BY DEF IsList
  <2>4. QED
    BY <1>3, <2>2, <2>3
<1>6. QED
  BY <1>3, <1>4, <1>5

\* A list with another head.
LEMMA Instead1 ==
  ASSUME NEW s, IsList(s), Len(s) > 0, NEW x
  PROVE  /\ IsList(<<x>> \o Tail(s)) /\ Len(<<x>> \o Tail(s)) = Len(s)
         /\ <<x>> \o Tail(s) # <<>>
         /\ \A k \in 1..Len(s) : (<<x>> \o Tail(s))[k] = IF k = 1 THEN x ELSE s[k]
<1> DEFINE t == Tail(s)
           S == {t[k] : k \in 1..Len(t)} \cup {x}
<1>1. /\ IsList(t) /\ Len(t) = Len(s) - 1 /\ \A k \in 1..Len(s) - 1 : t[k] = s[k + 1]
      /\ Len(s) \in Nat
  BY RestOf DEF IsList
<1> HIDE DEF t
<1>2. t \in Seq(S)
  <2>1. t \in Seq({t[k] : k \in 1..Len(t)})
    BY <1>1, ListSeq
  <2>2. {t[k] : k \in 1..Len(t)} \subseteq S
    OBVIOUS
  <2>3. QED
    BY <2>1, <2>2, SeqMonotonic
<1>3. x \in S
  OBVIOUS
<1> HIDE DEF S
<1>4. <<x>> \in Seq(S) /\ Len(<<x>>) = 1 /\ <<x>>[1] = x
  BY <1>3
<1>5. /\ <<x>> \o t \in Seq(S) /\ Len(<<x>> \o t) = 1 + Len(t)
      /\ \A k \in 1..1 + Len(t) : (<<x>> \o t)[k] = IF k <= 1 THEN <<x>>[k] ELSE t[k - 1]
  BY <1>2, <1>4, ConcatProperties
<1>6. IsList(<<x>> \o t) /\ Len(<<x>> \o t) = Len(s)
  <2>1. IsList(<<x>> \o t)
    BY <1>5, ListOf
  <2>2. QED
    BY <1>1, <1>5, <2>1
<1>7. ASSUME NEW k \in 1..Len(s)
      PROVE  (<<x>> \o t)[k] = IF k = 1 THEN x ELSE s[k]
  BY <1>1, <1>4, <1>5
<1>8. <<x>> \o t # <<>>
  BY <1>1, <1>6
<1>9. QED
  BY <1>6, <1>7, <1>8 DEF t

-----------------------------------------------------------------------------
(* Numbers in rising order.                                                 *)

\* A nonempty set of numbers has a least one.
LEMMA LeastOf ==
  ASSUME NEW T, T \subseteq Nat, T # {}
  PROVE  First(T) \in T /\ \A j \in T : First(T) <= j
<1> DEFINE R == OpToRel(<, Nat)
<1>1. IsWellFoundedOn(R, Nat)
  BY NatLessThanWellFounded
<1>2. \A y, x \in Nat : <<y, x>> \in R <=> y < x
  BY DEF OpToRel
<1> HIDE DEF R
<1>3. PICK x \in T : \A y \in T : <<y, x>> \notin R
  BY <1>1, WFMin
<1>4. \A y \in T : ~(y < x)
  BY <1>2, <1>3
<1>5. \A y \in T : y \in Int /\ x \in Int
  OBVIOUS
<1>6. \A y \in T : x <= y
  BY <1>4, <1>5
<1>7. QED
  BY <1>6 DEF First

\* How many numbers of a finite set are at most k tells them apart.
LEMMA RankOf ==
  ASSUME NEW S, S \subseteq Nat, IsFiniteSet(S)
  PROVE  LET r == [k \in S |-> Cardinality({j \in S : j <= k})]
         IN  /\ r \in [S -> 1..Cardinality(S)]
             /\ \A j, k \in S : j < k => r[j] < r[k]
<1> DEFINE B(k) == {j \in S : j <= k}
           r == [k \in S |-> Cardinality(B(k))]
<1>1. ASSUME NEW k \in S
      PROVE  /\ IsFiniteSet(B(k)) /\ Cardinality(B(k)) \in 1..Cardinality(S)
  <2>1. /\ IsFiniteSet(B(k)) /\ Cardinality(B(k)) <= Cardinality(S)
    <3>1. B(k) \in SUBSET S
      OBVIOUS
    <3>2. QED
      BY <3>1, FS_Subset
  <2>2. Cardinality(B(k)) \in Nat /\ Cardinality(S) \in Nat
    BY <2>1, FS_CardinalityType
  <2>3. k \in B(k)
    OBVIOUS
  <2>4. Cardinality(B(k)) # 0
    BY <2>1, <2>3, FS_EmptySet
  <2>5. QED
    BY <2>1, <2>2, <2>4
<1>2. ASSUME NEW j \in S, NEW k \in S, j < k
      PROVE  Cardinality(B(j)) < Cardinality(B(k))
  <2>1. j \in Int /\ k \in Int /\ \A x \in S : x \in Int
    OBVIOUS
  <2>2. B(j) \in SUBSET B(k)
    <3>1. ASSUME NEW x \in S, x <= j
          PROVE  x <= k
      BY <1>2, <2>1, <3>1
    <3>2. QED
      BY <3>1
  <2>3. k \in B(k) /\ k \notin B(j)
    <3>1. k <= k /\ ~(k <= j)
      BY <1>2, <2>1
    <3>2. QED
      BY <3>1
  <2>4. /\ Cardinality(B(j)) <= Cardinality(B(k))
        /\ Cardinality(B(k)) = Cardinality(B(j)) => B(k) = B(j)
    <3> HIDE DEF B
    <3>1. QED
      BY <1>1, <2>2, FS_Subset
  <2>5. Cardinality(B(j)) \in Int /\ Cardinality(B(k)) \in Int
    BY <1>1
  <2>6. QED
    BY <2>3, <2>4, <2>5
<1>3. QED
  BY <1>1, <1>2

\* A finite set of numbers can be put in rising order.
LEMMA RisingIs ==
  ASSUME NEW S, S \subseteq Nat, IsFiniteSet(S)
  PROVE  /\ Rising(S) \in [1..Cardinality(S) -> S]
         /\ \A m, n \in 1..Cardinality(S) : m < n => Rising(S)[m] < Rising(S)[n]
<1> DEFINE N == Cardinality(S)
           r == [k \in S |-> Cardinality({j \in S : j <= k})]
           s == [n \in 1..N |-> CHOOSE k \in S : r[k] = n]
<1>1. r \in [S -> 1..N] /\ \A j, k \in S : j < k => r[j] < r[k]
  BY RankOf
<1>2. N \in Nat
  BY FS_CardinalityType
<1> HIDE DEF r
<1>3. \A j, k \in S : r[j] = r[k] => j = k
  <2>1. SUFFICES ASSUME NEW j \in S, NEW k \in S, r[j] = r[k], j # k
                 PROVE  FALSE
    OBVIOUS
  <2>2. j < k \/ k < j
    BY <2>1
  <2>3. r[j] < r[k] \/ r[k] < r[j]
    BY <1>1, <2>2
  <2>4. r[j] \in Int /\ r[k] \in Int
    BY <1>1
  <2>5. QED
    BY <2>1, <2>3, <2>4
<1>4. r \in Injection(S, 1..N)
  BY <1>1, <1>3 DEF Injection, IsInjective
<1>5. IsFiniteSet(1..N) /\ Cardinality(1..N) = N
  BY <1>2, FS_Interval
<1>6. r \in Surjection(S, 1..N)
  BY <1>4, <1>5, FS_Injection
<1>7. \A n \in 1..N : \E k \in S : r[k] = n
  BY <1>6 DEF Surjection
<1>8. s \in [1..N -> S] /\ \A n \in 1..N : r[s[n]] = n
  BY <1>7
<1> HIDE DEF s
<1>9. ASSUME NEW m \in 1..N, NEW n \in 1..N, m < n
      PROVE  s[m] < s[n]
  <2>1. s[m] \in S /\ s[n] \in S /\ r[s[m]] = m /\ r[s[n]] = n
    BY <1>8
  <2>2. m \in Int /\ n \in Int /\ s[m] \in Int /\ s[n] \in Int
    <3>1. \A x \in S : x \in Int
      OBVIOUS
    <3>2. m \in Int /\ n \in Int
      BY <1>2
    <3>3. QED
      BY <2>1, <3>1, <3>2
  <2>3. CASE s[m] = s[n]
    BY <1>9, <2>2, <2>1, <2>3
  <2>4. CASE s[n] < s[m]
    <3>1. r[s[n]] < r[s[m]]
      BY <1>1, <2>1, <2>4
    <3>2. QED
      BY <1>9, <2>2, <2>1, <3>1
  <2>5. QED
    BY <2>2, <2>3, <2>4
<1>10. \E t \in [1..N -> S] : \A m, n \in DOMAIN t : m < n => t[m] < t[n]
  <2>1. DOMAIN s = 1..N
    BY <1>8
  <2>2. QED
    BY <1>8, <1>9, <2>1
<1>11. /\ Rising(S) \in [1..N -> S]
       /\ \A m, n \in DOMAIN Rising(S) : m < n => Rising(S)[m] < Rising(S)[n]
  BY <1>10 DEF Rising
<1>12. DOMAIN Rising(S) = 1..N
  BY <1>11
<1>13. QED
  BY <1>11, <1>12

\* What is left of a list without an item.
LEMMA WithoutIs ==
  ASSUME NEW lines \in Seq(Line), NEW i
  PROVE  /\ Without(lines, i) \in Seq(Line)
         /\ Distinct(lines) => Distinct(Without(lines, i))
<1> DEFINE K == {k \in DOMAIN lines : lines[k].item # i}
           N == Cardinality(K)
           t == Rising(K)
<1>1. K \subseteq Nat /\ IsFiniteSet(K) /\ N \in Nat
  <2>1. DOMAIN lines = 1..Len(lines) /\ Len(lines) \in Nat
    OBVIOUS
  <2>2. IsFiniteSet(1..Len(lines))
    BY <2>1, FS_Interval
  <2>3. K \in SUBSET (1..Len(lines))
    BY <2>1
  <2>4. IsFiniteSet(K)
    BY <2>2, <2>3, FS_Subset
  <2>5. QED
    BY <2>3, <2>4, FS_CardinalityType
<1>2. t \in [1..N -> K] /\ \A m, n \in 1..N : m < n => t[m] < t[n]
  <2> HIDE DEF K
  <2>1. QED
    BY <1>1, RisingIs
<1> HIDE DEF t
<1>3. \A n \in 1..N : lines[t[n]] \in Line /\ t[n] \in DOMAIN lines /\ t[n] \in Int
  BY <1>2
<1>4. DOMAIN t = 1..N
  BY <1>2
<1>5. Without(lines, i) = [n \in 1..N |-> lines[t[n]]]
  BY <1>4 DEF Without, t
<1> HIDE DEF K, N
<1>6. Without(lines, i) \in Seq(Line)
  BY <1>1, <1>3, <1>5, IsASeq
<1>7. ASSUME Distinct(lines), NEW m \in 1..N, NEW n \in 1..N, lines[t[m]].item = lines[t[n]].item
      PROVE  m = n
  <2>1. t[m] = t[n]
    BY <1>3, <1>7 DEF Distinct
  <2>2. ~(m < n) /\ ~(n < m)
    BY <1>2, <1>3, <2>1
  <2>3. QED
    BY <1>1, <2>2
<1>8. QED
  BY <1>5, <1>6, <1>7 DEF Distinct

-----------------------------------------------------------------------------
(* Portions.                                                                *)

LEMMA CountNone ==
  ASSUME NEW lines \in Seq(Line), NEW i, i \notin Items(lines)
  PROVE  Count(lines, i) = 0
<1>1. Portions(lines, i) = {}
  BY DEF Portions, Items
<1>2. QED
  BY <1>1, FS_EmptySet DEF Count

LEMMA CountOne ==
  ASSUME NEW lines \in Seq(Line), NEW k \in DOMAIN lines,
         lines[k].item \notin Doubled(lines)
  PROVE  Count(lines, lines[k].item) = lines[k].qty
<1> DEFINE q == lines[k].qty
<1>1. lines[k] \in Line
  OBVIOUS
<1>2. q \in 1..LineLimit /\ LineLimit \in Nat
  BY <1>1, CheckoutAssumption DEF Line
<1>3. \A j \in DOMAIN lines : lines[j].item = lines[k].item => j = k
  BY DEF Doubled, Items
<1>4. Portions(lines, lines[k].item) = {k} \X (1..q)
  BY <1>2, <1>3 DEF Portions
<1>5. IsFiniteSet({k}) /\ Cardinality({k}) = 1
  BY FS_Singleton
<1>6. IsFiniteSet(1..q) /\ Cardinality(1..q) = q
  BY <1>2, FS_Interval
<1>7. Cardinality({k} \X (1..q)) = Cardinality({k}) * Cardinality(1..q)
  <2> HIDE DEF q
  <2>1. QED
    BY <1>5, <1>6, FS_Product
<1>8. QED
  BY <1>2, <1>4, <1>5, <1>6, <1>7 DEF Count

LEMMA CountNat ==
  ASSUME NEW lines \in Seq(Line), NEW i
  PROVE  Count(lines, i) \in Nat
<1>1. DOMAIN lines = 1..Len(lines) /\ Len(lines) \in Nat /\ LineLimit \in Nat
  BY CheckoutAssumption
<1>2. IsFiniteSet(1..Len(lines)) /\ IsFiniteSet(1..LineLimit)
  BY <1>1, FS_Interval
<1>3. IsFiniteSet((DOMAIN lines) \X (1..LineLimit))
  BY <1>1, <1>2, FS_Product
<1>4. Portions(lines, i) \in SUBSET ((DOMAIN lines) \X (1..LineLimit))
  BY DEF Portions
<1>5. QED
  BY <1>3, <1>4, FS_Subset, FS_CardinalityType DEF Count

\* The first lines of a list, up to the only one about an item and before it.
LEMMA CountUpTo ==
  ASSUME NEW lines \in Seq(Line), NEW k \in DOMAIN lines,
         lines[k].item \notin Doubled(lines)
  PROVE  /\ Count(SubSeq(lines, 1, k), lines[k].item) = lines[k].qty
         /\ Count(SubSeq(lines, 1, k - 1), lines[k].item) = 0
<1> DEFINE s == SubSeq(lines, 1, k)
           u == SubSeq(lines, 1, k - 1)
<1>1. k \in 1..Len(lines) /\ Len(lines) \in Nat
  OBVIOUS
<1>2. s \in Seq(Line) /\ Len(s) = k /\ \A j \in 1..k : s[j] = lines[j]
  BY <1>1, SubSeqProperties
<1>3. u \in Seq(Line) /\ Len(u) = k - 1 /\ \A j \in 1..k - 1 : u[j] = lines[j]
  BY <1>1, SubSeqProperties
<1> HIDE DEF s, u
<1>4. \A j \in DOMAIN lines : lines[j].item = lines[k].item => j = k
  BY DEF Doubled, Items
<1>5. DOMAIN s = 1..k /\ DOMAIN u = 1..k - 1
  BY <1>2, <1>3
<1>6. lines[k].item \notin Items(u)
  BY <1>1, <1>3, <1>4, <1>5 DEF Items
<1>7. s[k] = lines[k] /\ k \in DOMAIN s
  BY <1>1, <1>2, <1>5
<1>8. s[k].item \notin Doubled(s)
  BY <1>1, <1>2, <1>4, <1>5, <1>7 DEF Doubled
<1>9. Count(s, s[k].item) = s[k].qty
  BY <1>2, <1>7, <1>8, CountOne
<1>10. Count(u, lines[k].item) = 0
  BY <1>3, <1>6, CountNone
<1>11. QED
  BY <1>7, <1>9, <1>10 DEF s, u

-----------------------------------------------------------------------------
(* What a step leaves of its request.                                       *)

Tasks(q, todo) ==
    /\ IsList(todo) /\ Len(todo) > 0
    /\ \A k \in 1..Len(todo) : TaskInv(q.op, q.on, todo[k])
    /\ Stage(todo)
    /\ q.op # "order" => Len(todo) = 1

Others(a) == \A c \in Actor \ {a} : req'[c] = req[c]

\* Request a goes on with a list of its own.
GoesOn(a, more) ==
    /\ req'[a] = [op |-> req[a].op, wish |-> req[a].wish, on |-> req[a].on, todo |-> more]
    /\ req'[a] # Idle

\* What Continue does to the request.
Resumes(a, more) ==
    req' = [req EXCEPT ![a] = IF more = <<>> THEN Idle ELSE [@ EXCEPT !.todo = more]]

LEMMA DoneResumes ==
  ASSUME NEW a, Done(a)
  PROVE  Resumes(a, Tail(req[a].todo))
BY DEF Done, Continue, Resumes

LEMMA RequestOf ==
  ASSUME RequestsInv, NEW a \in Actor, Busy(a)
  PROVE  /\ req[a] = [op |-> req[a].op, wish |-> req[a].wish, on |-> req[a].on,
                      todo |-> req[a].todo]
         /\ req[a].op \in {"order", "cart", "edit"} /\ req[a].wish \in Seq(Line)
         /\ Tasks(req[a], req[a].todo)
         /\ Todo(a) = req[a].todo[1] /\ TaskInv(req[a].op, req[a].on, Todo(a))
         /\ Len(req[a].todo) \in Nat
<1>1. RequestInv(req[a]) /\ req[a] # Idle
  BY DEF RequestsInv, Busy
<1>2. /\ req[a] = [op |-> req[a].op, wish |-> req[a].wish, on |-> req[a].on,
                    todo |-> req[a].todo]
      /\ req[a].op \in {"order", "cart", "edit"} /\ req[a].wish \in Seq(Line)
      /\ Tasks(req[a], req[a].todo)
  BY <1>1 DEF RequestInv, Tasks
<1>3. Todo(a) = req[a].todo[1] /\ Len(req[a].todo) \in Nat
  BY <1>2, RestOf DEF Todo, Tasks, IsList
<1>4. TaskInv(req[a].op, req[a].on, Todo(a))
  BY <1>2, <1>3 DEF Tasks
<1>5. QED
  BY <1>2, <1>3, <1>4

LEMMA Continued ==
  ASSUME RequestsInv, NEW a \in Actor, Busy(a), NEW more, Resumes(a, more),
         more = <<>> \/ Tasks(req[a], more)
  PROVE  /\ RequestsInv' /\ Others(a)
         /\ more = <<>> => req'[a] = Idle
         /\ more # <<>> => GoesOn(a, more)
<1>1. /\ req[a] = [op |-> req[a].op, wish |-> req[a].wish, on |-> req[a].on,
                    todo |-> req[a].todo]
      /\ req[a].op \in {"order", "cart", "edit"} /\ req[a].wish \in Seq(Line)
  BY RequestOf
<1>2. req' = [req EXCEPT ![a] = IF more = <<>> THEN Idle ELSE [req[a] EXCEPT !.todo = more]]
  BY DEF Resumes
<1>3. req = [c \in Actor |-> req[c]] /\ \A c \in Actor : RequestInv(req[c])
  BY DEF RequestsInv
<1>4. /\ req' = [c \in Actor |-> req'[c]] /\ Others(a)
      /\ req'[a] = IF more = <<>> THEN Idle ELSE [req[a] EXCEPT !.todo = more]
  BY <1>2, <1>3 DEF Others
<1>5. [req[a] EXCEPT !.todo = more]
        = [op |-> req[a].op, wish |-> req[a].wish, on |-> req[a].on, todo |-> more]
  BY <1>1
<1>6. more # <<>> => GoesOn(a, more)
  BY <1>1, <1>4, <1>5 DEF GoesOn, Idle
<1>7. RequestInv(req'[a])
  BY <1>1, <1>4, <1>5 DEF RequestInv, Tasks
<1>8. \A c \in Actor : RequestInv(req'[c])
  BY <1>3, <1>4, <1>7 DEF Others
<1>9. QED
  BY <1>4, <1>6, <1>8 DEF RequestsInv

\* The handler goes on with its next step, if there is one.
LEMMA DoneIs ==
  ASSUME RequestsInv, NEW a \in Actor, Busy(a), Resumes(a, Tail(req[a].todo))
  PROVE  /\ RequestsInv' /\ Others(a)
         /\ Len(req[a].todo) = 1 => req'[a] = Idle
         /\ Len(req[a].todo) > 1 =>
              /\ GoesOn(a, Tail(req[a].todo)) /\ req[a].op = "order"
              /\ Todo(a)' = req[a].todo[2]
         /\ Len(Tail(req[a].todo)) = Len(req[a].todo) - 1
         /\ \A k \in 1..Len(req[a].todo) - 1 : Tail(req[a].todo)[k] = req[a].todo[k + 1]
<1> DEFINE s == req[a].todo
           t == Tail(s)
<1>1. /\ IsList(s) /\ Len(s) \in Nat /\ Len(s) > 0 /\ Stage(s)
      /\ \A k \in 1..Len(s) : TaskInv(req[a].op, req[a].on, s[k])
      /\ req[a].op # "order" => Len(s) = 1
  BY RequestOf DEF Tasks
<1>2. /\ IsList(t) /\ Len(t) = Len(s) - 1 /\ \A k \in 1..Len(s) - 1 : t[k] = s[k + 1]
      /\ t = <<>> <=> Len(s) = 1
  BY <1>1, RestOf
<1> HIDE DEF t
<1> HIDE DEF s
<1>3. ASSUME Len(s) > 1
      PROVE  Tasks(req[a], t)
  <2>1. \A k \in 1..Len(t) : TaskInv(req[a].op, req[a].on, t[k])
    BY <1>1, <1>2
  <2>2. Stage(t)
    <3>1. t[1] = s[2] /\ 2 \in 1..Len(s) /\ 2 \in 2..Len(s)
      BY <1>1, <1>2, <1>3
    <3>2. \A k \in 2..Len(t) : t[k] = s[k + 1] /\ k + 1 \in 2..Len(s)
      BY <1>1, <1>2
    <3>3. \A k \in 1..Len(t) : t[k] = s[k + 1] /\ k + 1 \in 2..Len(s) /\ k + 1 \in 1..Len(s)
      BY <1>1, <1>2
    <3>4. CASE \A k \in 2..Len(s) : s[k].do \in {"add", "checkout"}
      BY <3>1, <3>2, <3>4 DEF Stage, Shop
    <3>5. CASE Len(s) = 1
      BY <1>1, <1>3, <3>5
    <3>6. CASE \A k \in 2..Len(s) : s[k].do \in Sell
      BY <3>3, <3>6 DEF Stage
    <3>7. CASE \A k \in 1..Len(s) : s[k].do \in Sell
      BY <3>3, <3>7 DEF Stage
    <3>8. QED
      BY <1>1, <3>4, <3>5, <3>6, <3>7 DEF Stage
  <2>3. QED
    BY <1>1, <1>2, <1>3, <2>1, <2>2 DEF Tasks
<1>4. Resumes(a, t)
  BY DEF s, t
<1>5. t = <<>> \/ Tasks(req[a], t)
  BY <1>1, <1>2, <1>3
<1>6. /\ RequestsInv' /\ Others(a) /\ (t = <<>> => req'[a] = Idle)
      /\ t # <<>> => GoesOn(a, t)
  BY <1>4, <1>5, Continued
<1>7. ASSUME Len(s) > 1
      PROVE  Todo(a)' = s[2]
  <2>1. req'[a].todo = t /\ Len(t) > 0
    BY <1>1, <1>2, <1>6, <1>7 DEF GoesOn
  <2>2. Head(t) = t[1]
    BY <1>2, <2>1, RestOf
  <2>3. t[1] = s[2]
    BY <1>1, <1>2, <1>7
  <2>4. QED
    BY <2>1, <2>2, <2>3 DEF Todo
<1>8. QED
  BY <1>1, <1>2, <1>6, <1>7 DEF s, t

\* The step at hand turns out to be another one.
LEMMA InsteadIs ==
  ASSUME RequestsInv, NEW a \in Actor, Busy(a), NEW x, Instead(a, <<x>>),
         Todo(a).do = "add",
         x.do \in {"new", "push", "line"}, TaskInv(req[a].op, req[a].on, x)
  PROVE  /\ RequestsInv' /\ Others(a)
         /\ GoesOn(a, <<x>> \o Tail(req[a].todo)) /\ Todo(a)' = x
         /\ Len(<<x>> \o Tail(req[a].todo)) = Len(req[a].todo)
         /\ \A k \in 1..Len(req[a].todo) :
              (<<x>> \o Tail(req[a].todo))[k] = IF k = 1 THEN x ELSE req[a].todo[k]
<1> DEFINE s == req[a].todo
           t == <<x>> \o Tail(s)
<1>1. /\ IsList(s) /\ Len(s) \in Nat /\ Len(s) > 0 /\ Stage(s) /\ s[1].do = "add"
      /\ \A k \in 1..Len(s) : TaskInv(req[a].op, req[a].on, s[k])
      /\ req[a].op # "order" => Len(s) = 1
  BY RequestOf DEF Tasks
<1>2. /\ IsList(t) /\ Len(t) = Len(s) /\ t # <<>>
      /\ \A k \in 1..Len(s) : t[k] = IF k = 1 THEN x ELSE s[k]
  BY <1>1, Instead1
<1>3. Resumes(a, t)
  BY DEF Instead, Continue, Resumes
<1> HIDE DEF t
<1> HIDE DEF s
<1>4. Stage(t)
  <2>1. 1 \in 1..Len(s) /\ t[1] = x
    BY <1>1, <1>2
  <2>2. \A k \in 2..Len(t) : t[k] = s[k] /\ k \in 2..Len(s)
    BY <1>1, <1>2
  <2>3. \A k \in 2..Len(s) : s[k].do \in {"add", "checkout"}
    BY <1>1, <2>1 DEF Stage, Sell
  <2>4. QED
    BY <2>1, <2>2, <2>3 DEF Stage, Shop
<1>5. \A k \in 1..Len(t) : TaskInv(req[a].op, req[a].on, t[k])
  BY <1>1, <1>2
<1>6. Tasks(req[a], t)
  BY <1>1, <1>2, <1>4, <1>5 DEF Tasks
<1>7. RequestsInv' /\ Others(a) /\ GoesOn(a, t)
  BY <1>2, <1>3, <1>6, Continued
<1>8. Todo(a)' = x
  <2>1. req'[a].todo = t
    BY <1>7 DEF GoesOn
  <2>2. Head(t) = t[1] /\ 1 \in 1..Len(s)
    BY <1>1, <1>2, RestOf
  <2>3. QED
    BY <1>2, <2>1, <2>2 DEF Todo
<1>9. QED
  BY <1>2, <1>7, <1>8 DEF s, t

\* The guest is told no.
LEMMA RefuseIs ==
  ASSUME RequestsInv, NEW a \in Actor, Busy(a), Refuse(a)
  PROVE  RequestsInv' /\ Others(a) /\ req'[a] = Idle
BY Continued DEF Refuse, Continue, Resumes

-----------------------------------------------------------------------------
(* What a step leaves of the claims of the others.                          *)

LEMMA SavesOnItems ==
  ASSUME RequestsInv, NEW a \in Actor, Busy(a), NEW i, Saves(req[a].todo, i) # {}
  PROVE  i \in Item \cap req[a].on
<1>1. PICK k \in 1..Len(req[a].todo) : req[a].todo[k].do = "item" /\ req[a].todo[k].item = i
  BY DEF Saves
<1>2. TaskInv(req[a].op, req[a].on, req[a].todo[k])
  BY RequestOf DEF Tasks
<1>3. QED
  BY <1>1, <1>2 DEF TaskInv

LEMMA OthersKept ==
  ASSUME RequestsInv, NEW c \in Actor, req'[c] = req[c],
         c \in hist.crossed => c \in hist'.crossed,
         \A i \in Item \cap req[c].on :
             menu'[i] = menu[i] \/ (i \in hist'.raced /\ c \in hist'.crossed),
         \A i \in Item \cap req[c].on : i \in hist.raced => i \in hist'.raced,
         cart' = cart \/ NoCart \notin req[c].on \/ c \in hist'.crossed,
         hist.mixed \subseteq hist'.mixed,
         SellClaim(c), BuyClaim(c), CartClaim(c)
  PROVE  SellClaim(c)' /\ BuyClaim(c)' /\ CartClaim(c)'
<1>1. Busy(c)' <=> Busy(c)
  BY DEF Busy
<1>2. Todo(c)' = Todo(c)
  BY DEF Todo
<1>3. SellClaim(c)'
  <2>1. SUFFICES ASSUME Busy(c), c \notin hist'.crossed, req[c].op = "order",
                        NEW i \in Item, Saves(req[c].todo, i) # {}
                 PROVE  Counted(menu'[i].qty)
    BY <1>1 DEF SellClaim, Alone, Saves, Counted
  <2>2. menu'[i] = menu[i]
    BY <2>1, SavesOnItems
  <2>3. Counted(menu[i].qty)
    BY <2>1 DEF SellClaim, Alone
  <2>4. QED
    BY <2>2, <2>3
<1>4. BuyClaim(c)'
  <2>1. SUFFICES ASSUME Busy(c), Todo(c).do = "create"
                 PROVE  BuyClaim(c)'
    BY <1>1, <1>2 DEF BuyClaim
  <2>2. TaskInv(req[c].op, req[c].on, Todo(c))
    BY <2>1, RequestOf
  <2>3. Items(Todo(c).lines) \subseteq Item \cap req[c].on
    BY <2>1, <2>2 DEF TaskInv, Items, Line
  <2>4. \A i \in Items(Todo(c).lines) :
           i \notin hist'.raced => i \notin hist.raced /\ menu'[i] = menu[i]
    BY <2>3
  <2>5. QED
    BY <1>2, <2>1, <2>4 DEF BuyClaim, Saves, Leaves, Counted
<1>5. CartClaim(c)'
  <2>1. SUFFICES ASSUME Busy(c), c \notin hist'.crossed, Todo(c).do \in {"push", "replace"}
                 PROVE  CartClaim(c)'
    BY <1>1, <1>2 DEF CartClaim, Alone
  <2>2. TaskInv(req[c].op, req[c].on, Todo(c))
    BY <2>1, RequestOf
  <2>3. cart' = cart
    BY <2>1, <2>2 DEF TaskInv
  <2>4. QED
    BY <1>2, <2>1, <2>3 DEF CartClaim, Alone, Items, Distinct
<1>6. QED
  BY <1>3, <1>4, <1>5

LEMMA RivalryKept ==
  ASSUME Rivalry, NEW a \in Actor, Busy(a), Others(a), req'[a].on \subseteq req[a].on,
         hist.crossed \subseteq hist'.crossed
  PROVE  Rivalry'
BY DEF Rivalry, Others, Busy

\* The account of an item is as right as it was if its sales go on as they did.
LEMMA StockOfKept ==
  ASSUME NEW i, StockOf(i), menu'[i] = menu[i], hist'.shelf[i] = hist.shelf[i],
         \A c \in Actor : Selling(c, i)' <=> Selling(c, i),
         \A c \in Actor : Selling(c, i) =>
             /\ c \in hist.crossed => c \in hist'.crossed
             /\ \A n : Leaves(req[c].todo, i, n) => Leaves(req'[c].todo, i, n)
  PROVE  StockOf(i)'
<1>1. SUFFICES ASSUME menu[i].exists, Counted(menu[i].qty)
               PROVE  \/ menu[i].qty = hist'.shelf[i] /\ \A c \in Actor : ~Selling(c, i)'
                      \/ \E c \in Actor \cap hist'.crossed : Selling(c, i)'
                      \/ \E c \in Actor \ hist'.crossed :
                            Selling(c, i)' /\ Leaves(req'[c].todo, i, hist'.shelf[i])
  BY DEF StockOf, Leaves, Saves, Counted
<1>2. CASE menu[i].qty = hist.shelf[i] /\ \A c \in Actor : ~Selling(c, i)
  BY <1>2
<1>3. CASE \E c \in Actor \cap hist.crossed : Selling(c, i)
  BY <1>3
<1>4. ASSUME NEW c \in Actor \ hist.crossed, Selling(c, i), Leaves(req[c].todo, i, hist.shelf[i])
      PROVE  \/ \E d \in Actor \cap hist'.crossed : Selling(d, i)'
             \/ \E d \in Actor \ hist'.crossed :
                   Selling(d, i)' /\ Leaves(req'[d].todo, i, hist'.shelf[i])
  <2>1. Selling(c, i)' /\ Leaves(req'[c].todo, i, hist'.shelf[i])
    BY <1>4
  <2>2. QED
    BY <2>1
<1>5. QED
  BY <1>1, <1>2, <1>3, <1>4 DEF StockOf

\* The selling of an actor whose request is the same.
LEMMA SameSelling ==
  ASSUME NEW c, req'[c] = req[c], NEW i
  PROVE  Selling(c, i)' <=> Selling(c, i)
BY DEF Selling, Busy, Todo, Saves

\* Steps that leave the menu, the account and the record of overlaps alone.
LEMMA CalmStep ==
  ASSUME IInv, NEW a \in Actor, Busy(a), Others(a), req'[a].on \subseteq req[a].on,
         menu' = menu, hist'.crossed = hist.crossed, hist.raced \subseteq hist'.raced,
         hist.mixed \subseteq hist'.mixed, hist'.shelf = hist.shelf,
         cart' = cart \/ NoCart \in req[a].on,
         \A i \in Item \ hist'.raced :
             /\ Selling(a, i)' <=> Selling(a, i)
             /\ Selling(a, i) => \A n : Leaves(req[a].todo, i, n) => Leaves(req'[a].todo, i, n)
  PROVE  /\ Rivalry' /\ StockInv'
         /\ \A c \in Actor \ {a} : SellClaim(c)' /\ BuyClaim(c)' /\ CartClaim(c)'
<1>1. Rivalry'
  BY RivalryKept DEF IInv
<1>2. ASSUME NEW c \in Actor \ {a}
      PROVE  SellClaim(c)' /\ BuyClaim(c)' /\ CartClaim(c)'
  <2>1. req'[c] = req[c]
    BY DEF Others
  <2>2. cart' = cart \/ NoCart \notin req[c].on \/ c \in hist'.crossed
    <3>1. SUFFICES ASSUME NoCart \in req[a].on, NoCart \in req[c].on
                   PROVE  c \in hist'.crossed
      OBVIOUS
    <3>2. Busy(c)
      BY <3>1 DEF Busy, Idle
    <3>3. QED
      BY <3>1, <3>2 DEF IInv, Rivalry
  <2>3. RequestsInv /\ SellClaim(c) /\ BuyClaim(c) /\ CartClaim(c)
    BY DEF IInv
  <2>4. /\ \A i \in Item \cap req[c].on :
              menu'[i] = menu[i] \/ (i \in hist'.raced /\ c \in hist'.crossed)
        /\ \A i \in Item \cap req[c].on : i \in hist.raced => i \in hist'.raced
        /\ c \in hist.crossed => c \in hist'.crossed
    <3>1. \A i \in Item \cap req[c].on : i \in hist.raced => i \in hist'.raced
      OBVIOUS
    <3>2. \A i \in Item \cap req[c].on : menu'[i] = menu[i]
      OBVIOUS
    <3>3. c \in hist.crossed => c \in hist'.crossed
      OBVIOUS
    <3>4. QED
      BY <3>1, <3>2, <3>3
  <2>5. QED
    BY <2>1, <2>2, <2>3, <2>4, OthersKept
<1>3. ASSUME NEW i \in Item \ hist'.raced
      PROVE  StockOf(i)'
  <2>1. StockOf(i)
    BY DEF IInv, StockInv
  <2>2. \A c \in Actor : Selling(c, i)' <=> Selling(c, i)
    BY SameSelling DEF Others
  <2>3. ASSUME NEW c \in Actor, Selling(c, i)
        PROVE  /\ c \in hist.crossed => c \in hist'.crossed
               /\ \A n : Leaves(req[c].todo, i, n) => Leaves(req'[c].todo, i, n)
    BY <2>3 DEF Others
  <2>4. QED
    BY <2>1, <2>2, <2>3, StockOfKept
<1>4. StockInv'
  BY <1>3 DEF StockInv
<1>5. QED
  BY <1>1, <1>2, <1>4

\* A request that is not yet, or no longer, a sale sells nothing.
LEMMA NoSales ==
  ASSUME RequestsInv, NEW a \in Actor, Busy(a), Todo(a).do \in Shop \cup {"menu"}
  PROVE  \A i : Saves(req[a].todo, i) = {} /\ ~Selling(a, i)
<1> DEFINE s == req[a].todo
<1>1. Stage(s) /\ Len(s) \in Nat /\ s[1].do \in Shop \cup {"menu"} /\ Len(s) > 0
  BY RequestOf DEF Tasks
<1> HIDE DEF s
<1>2. \A k \in 1..Len(s) : k = 1 \/ k \in 2..Len(s)
  BY <1>1
<1>3. \A k \in 1..Len(s) : s[k].do # "item"
  BY <1>1, <1>2 DEF Stage, Shop, Sell
<1>4. QED
  BY <1>3 DEF Selling, Saves, s

\* The saves left once the first step is done.
LEMMA SavesLeft ==
  ASSUME NEW s, IsList(s), Len(s) > 0, NEW i
  PROVE  /\ s[1].do # "item" \/ s[1].item # i =>
              (Saves(Tail(s), i) = {} <=> Saves(s, i) = {})
         /\ Saves(s, i) = {} => Saves(Tail(s), i) = {}
         /\ \A n : Leaves(s, i, n) => Leaves(Tail(s), i, n)
<1> DEFINE t == Tail(s)
<1>1. /\ Len(t) = Len(s) - 1 /\ \A k \in 1..Len(s) - 1 : t[k] = s[k + 1]
      /\ Len(s) \in Nat
  BY RestOf DEF IsList
<1> HIDE DEF t
<1>2. \A k \in Saves(t, i) : k + 1 \in Saves(s, i) /\ t[k] = s[k + 1]
  BY <1>1 DEF Saves
<1>3. \A k \in Saves(s, i) : k # 1 => k - 1 \in Saves(t, i)
  <2>1. ASSUME NEW k \in Saves(s, i), k # 1
        PROVE  k - 1 \in 1..Len(s) - 1 /\ t[k - 1] = s[k]
    BY <1>1, <2>1 DEF Saves
  <2>2. QED
    BY <1>1, <2>1 DEF Saves
<1>4. s[1].do # "item" \/ s[1].item # i => 1 \notin Saves(s, i)
  BY DEF Saves
<1>5. \A n : Leaves(s, i, n) => Leaves(t, i, n)
  BY <1>2 DEF Leaves
<1>6. QED
  BY <1>2, <1>3, <1>4, <1>5 DEF t

-----------------------------------------------------------------------------
(* Requests that begin.                                                     *)

LEMMA BeginKept ==
  ASSUME IInv, NEW a \in Actor, NEW op, NEW wish, NEW on, NEW todo,
         Begin(a, op, wish, on, todo),
         op \in {"order", "cart", "edit"}, wish \in Seq(Line),
         Tasks([op |-> op, wish |-> wish, on |-> on, todo |-> todo], todo),
         todo[1].do \notin {"create", "push"},
         op = "order" => \A i : Saves(todo, i) = {},
         todo[1].do = "replace" /\ cart # NoCart /\ cart.id \notin hist.mixed =>
             Distinct(todo[1].lines)
  PROVE  IInv'
<1> DEFINE q == [op |-> op, wish |-> wish, on |-> on, todo |-> todo]
<1>1. /\ req[a] = Idle /\ req' = [req EXCEPT ![a] = q]
      /\ hist' = [hist EXCEPT !.crossed = Joined(@, a, Rivals(a, on)), !.uncleared = @ \ {a}]
      /\ UNCHANGED <<menu, cart, carts, orders>>
  BY DEF Begin
<1>2. DataInv /\ RequestsInv /\ Rivalry /\ StockInv /\ OneLinePerItem
  BY DEF IInv
<1>3. /\ req' = [c \in Actor |-> req'[c]] /\ req'[a] = q
      /\ \A c \in Actor \ {a} : req'[c] = req[c]
  BY <1>1, <1>2 DEF RequestsInv
<1>4. /\ hist' = [crossed |-> hist'.crossed, uncleared |-> hist'.uncleared,
                  raced |-> hist'.raced, mixed |-> hist'.mixed, shelf |-> hist'.shelf]
      /\ hist'.crossed = Joined(hist.crossed, a, Rivals(a, on))
      /\ hist'.raced = hist.raced /\ hist'.mixed = hist.mixed /\ hist'.shelf = hist.shelf
  BY <1>1, <1>2 DEF DataInv
<1>5. /\ hist.crossed \ {a} \subseteq hist'.crossed
      /\ \A c \in Actor \ {a} : req[c].on \cap on # {} => c \in hist'.crossed /\ a \in hist'.crossed
  BY <1>4 DEF Joined, Rivals
<1>6. DataInv'
  BY <1>1, <1>2, <1>4 DEF DataInv
<1>7. q # Idle /\ RequestInv(q)
  BY DEF RequestInv, Tasks, Idle
<1>8. RequestsInv'
  BY <1>2, <1>3, <1>7 DEF RequestsInv
<1>9. Todo(a)' = todo[1]
  <2>1. Head(todo) = todo[1]
    BY RestOf DEF Tasks
  <2>2. QED
    BY <1>3, <2>1 DEF Todo
<1> HIDE DEF q
<1>10. Rivalry'
  <2>1. req'[a].on = on
    BY <1>3 DEF q
  <2>2. SUFFICES ASSUME NEW b \in Actor, NEW c \in Actor, b # c, Busy(b)', Busy(c)',
                        req'[b].on \cap req'[c].on # {}
                 PROVE  b \in hist'.crossed
    BY DEF Rivalry
  <2>3. CASE b = a \/ c = a
    BY <1>3, <1>5, <2>1, <2>2, <2>3
  <2>4. CASE b # a /\ c # a
    <3>1. b \in hist.crossed
      BY <1>2, <1>3, <2>2, <2>4 DEF Rivalry, Busy
    <3>2. QED
      BY <1>5, <2>4, <3>1
  <2>5. QED
    BY <2>3, <2>4
<1>11. StockInv'
  <2>1. ASSUME NEW i \in Item \ hist'.raced
        PROVE  StockOf(i)'
    <3>1. StockOf(i)
      BY <1>2, <1>4 DEF StockInv
    <3>2. \A c \in Actor \ {a} : Selling(c, i)' <=> Selling(c, i)
      BY <1>3, SameSelling
    <3>3. ~Selling(a, i)
      BY <1>1 DEF Selling, Busy
    <3>4. ~Selling(a, i)'
      <4>1. req'[a].op = op /\ req'[a].todo = todo
        BY <1>3 DEF q
      <4>2. QED
        BY <4>1 DEF Selling, Saves
    <3>5. ASSUME NEW c \in Actor, Selling(c, i)
          PROVE  /\ c \in hist.crossed => c \in hist'.crossed
                 /\ \A n : Leaves(req[c].todo, i, n) => Leaves(req'[c].todo, i, n)
      <4>1. c # a
        BY <3>3, <3>5
      <4>2. req'[c] = req[c]
        BY <1>3, <4>1
      <4>3. QED
        BY <1>5, <4>1, <4>2
    <3>6. QED
      BY <1>1, <1>4, <3>1, <3>2, <3>3, <3>4, <3>5, StockOfKept
  <2>2. QED
    BY <2>1 DEF StockInv
<1>12. OneLinePerItem'
  BY <1>1, <1>2, <1>4 DEF OneLinePerItem
<1>13. ASSUME NEW c \in Actor \ {a}
       PROVE  SellClaim(c)' /\ BuyClaim(c)' /\ CartClaim(c)'
  <2>1. SellClaim(c) /\ BuyClaim(c) /\ CartClaim(c)
    BY DEF IInv
  <2>2. req'[c] = req[c] /\ (c \in hist.crossed => c \in hist'.crossed)
    BY <1>3, <1>5
  <2>3. QED
    BY <1>1, <1>2, <1>4, <2>1, <2>2, OthersKept
<1>14. SellClaim(a)' /\ BuyClaim(a)' /\ CartClaim(a)'
  <2>1. req'[a].op = op /\ req'[a].todo = todo
    BY <1>3 DEF q
  <2>2. SellClaim(a)'
    BY <2>1 DEF SellClaim, Saves
  <2>3. BuyClaim(a)'
    BY <1>9 DEF BuyClaim
  <2>4. CartClaim(a)'
    BY <1>1, <1>4, <1>9 DEF CartClaim, Distinct
  <2>5. QED
    BY <2>2, <2>3, <2>4
<1>15. \A c \in Actor : SellClaim(c)' /\ BuyClaim(c)' /\ CartClaim(c)'
  BY <1>13, <1>14
<1>16. QED
  BY <1>6, <1>8, <1>10, <1>11, <1>12, <1>15 DEF IInv

\* The requests of a tab that checks out, one by one.
LEMMA BasketTodo ==
  ASSUME NEW w \in Seq(Line)
  PROVE  LET s == SyncServerCart(w) \o <<PlaceCart>>
         IN  /\ IsList(s) /\ Len(s) = Len(w) + 2 /\ Len(w) \in Nat
             /\ s[1] = Clear /\ s[Len(w) + 2] = PlaceCart
             /\ \A k \in 2..Len(w) + 1 : s[k] = Add(w[k - 1]) /\ w[k - 1] \in Line
<1> DEFINE S == {Clear, PlaceCart} \cup {Add(l) : l \in Line}
           adds == [k \in DOMAIN w |-> Add(w[k])]
           sync == <<Clear>> \o adds
           s == sync \o <<PlaceCart>>
<1>1. DOMAIN w = 1..Len(w) /\ Len(w) \in Nat /\ \A k \in 1..Len(w) : w[k] \in Line
  OBVIOUS
<1>2. adds = [k \in 1..Len(w) |-> Add(w[k])] /\ \A k \in 1..Len(w) : Add(w[k]) \in S
  BY <1>1
<1>3. /\ <<Clear>> \in Seq(S) /\ Len(<<Clear>>) = 1 /\ <<Clear>>[1] = Clear
      /\ <<PlaceCart>> \in Seq(S) /\ Len(<<PlaceCart>>) = 1 /\ <<PlaceCart>>[1] = PlaceCart
  OBVIOUS
<1> HIDE DEF S
<1>4. adds \in Seq(S) /\ Len(adds) = Len(w) /\ \A k \in 1..Len(w) : adds[k] = Add(w[k])
  <2>1. [k \in 1..Len(w) |-> Add(w[k])] \in Seq(S)
    BY <1>1, <1>2, IsASeq
  <2>2. QED
    BY <1>1, <1>2, <2>1
<1> HIDE DEF adds
<1>5. /\ sync \in Seq(S) /\ Len(sync) = 1 + Len(w)
      /\ \A k \in 1..1 + Len(w) : sync[k] = IF k <= 1 THEN <<Clear>>[k] ELSE adds[k - 1]
  BY <1>3, <1>4, ConcatProperties
<1> HIDE DEF sync
<1>6. /\ s \in Seq(S) /\ Len(s) = Len(w) + 2
      /\ \A k \in 1..Len(w) + 2 : s[k] = IF k <= Len(w) + 1 THEN sync[k]
                                          ELSE <<PlaceCart>>[k - (Len(w) + 1)]
  <2>1. /\ s \in Seq(S) /\ Len(s) = Len(sync) + 1
        /\ \A k \in 1..Len(sync) + 1 : s[k] = IF k <= Len(sync) THEN sync[k]
                                            ELSE <<PlaceCart>>[k - Len(sync)]
    BY <1>3, <1>5, ConcatProperties
  <2>2. QED
    BY <1>1, <1>5, <2>1
<1> HIDE DEF s
<1>7. IsList(s)
  BY <1>6, ListOf
<1>8. s[1] = Clear
  <2>1. s[1] = sync[1]
    BY <1>1, <1>6
  <2>2. sync[1] = <<Clear>>[1]
    BY <1>1, <1>5
  <2>3. QED
    BY <1>3, <2>1, <2>2
<1>9. s[Len(w) + 2] = PlaceCart
  BY <1>1, <1>3, <1>6
<1>10. ASSUME NEW k \in 2..Len(w) + 1
       PROVE  s[k] = Add(w[k - 1]) /\ w[k - 1] \in Line
  <2>1. k - 1 \in 1..Len(w)
    BY <1>1
  <2>2. s[k] = sync[k]
    BY <1>1, <1>6
  <2>3. sync[k] = adds[k - 1]
    BY <1>1, <1>5
  <2>4. QED
    BY <1>1, <1>4, <2>1, <2>2, <2>3
<1>11. SyncServerCart(w) \o <<PlaceCart>> = s
  BY DEF SyncServerCart, s, sync, adds
<1>12. QED
  BY <1>1, <1>6, <1>7, <1>8, <1>9, <1>10, <1>11

LEMMA PlaceOrderKept ==
  ASSUME IInv, NEW a \in Tab, NEW w \in Wishes, PlaceOrder(a, w)
  PROVE  IInv'
<1> DEFINE todo == SyncServerCart(w) \o <<PlaceCart>>
           on == {NoCart} \cup Items(w)
           q == [op |-> "order", wish |-> w, on |-> on, todo |-> todo]
<1>1. w \in Seq(Line) /\ a \in Actor
  BY CheckoutAssumption DEF Actor
<1>2. /\ IsList(todo) /\ Len(todo) = Len(w) + 2 /\ Len(w) \in Nat
      /\ todo[1] = Clear /\ todo[Len(w) + 2] = PlaceCart
      /\ \A k \in 2..Len(w) + 1 : todo[k] = Add(w[k - 1]) /\ w[k - 1] \in Line
  BY <1>1, BasketTodo
<1>3. Begin(a, "order", w, on, todo)
  BY DEF PlaceOrder
<1> HIDE DEF todo, on
<1>4. NoCart \in on
  BY DEF on
<1>5. \A k \in 1..Len(todo) : k = 1 \/ k = Len(w) + 2 \/ k \in 2..Len(w) + 1
  BY <1>2
<1>6. /\ TaskInv("order", on, Clear) /\ TaskInv("order", on, PlaceCart)
      /\ \A l \in Line : TaskInv("order", on, Add(l)) /\ Add(l).do = "add"
      /\ Clear.do = "clear" /\ PlaceCart.do = "checkout"
  BY <1>4 DEF TaskInv, Clear, Add, PlaceCart
<1>7. \A k \in 1..Len(todo) : TaskInv("order", on, todo[k]) /\ todo[k].do # "item"
  <2>1. ASSUME NEW k \in 2..Len(w) + 1
        PROVE  TaskInv("order", on, todo[k]) /\ todo[k].do = "add"
    BY <1>6, <1>2
  <2>2. QED
    BY <1>6, <1>2, <1>5, <2>1
<1>8. Stage(todo)
  <2>1. \A k \in 2..Len(todo) : todo[k].do \in {"add", "checkout"}
    <3>1. ASSUME NEW k \in 2..Len(w) + 1
          PROVE  todo[k].do = "add"
      BY <1>6, <1>2
    <3>2. \A k \in 2..Len(todo) : k = Len(w) + 2 \/ k \in 2..Len(w) + 1
      BY <1>2
    <3>3. QED
      BY <1>6, <1>2, <3>1, <3>2
  <2>2. todo[1].do \in Shop /\ Len(todo) > 1
    BY <1>2 DEF Clear, Shop
  <2>3. QED
    BY <2>1, <2>2 DEF Stage
<1>9. Tasks(q, todo)
  BY <1>2, <1>7, <1>8 DEF Tasks
<1>10. \A i : Saves(todo, i) = {}
  BY <1>7 DEF Saves
<1>11. todo[1].do = "clear"
  BY <1>2 DEF Clear
<1>12. QED
  BY <1>1, <1>3, <1>9, <1>10, <1>11, BeginKept

LEMMA OneTask ==
  ASSUME NEW q, NEW x, TaskInv(q.op, q.on, x),
         x.do \in {"menu", "item", "line", "replace"}
  PROVE  Tasks(q, <<x>>) /\ <<x>>[1] = x /\ Len(<<x>>) = 1
<1>1. Len(<<x>>) = 1 /\ <<x>>[1] = x /\ IsList(<<x>>)
  <2>1. <<x>> \in Seq({x})
    OBVIOUS
  <2>2. IsList(<<x>>)
    BY <2>1, ListOf
  <2>3. QED
    BY <2>2
<1>2. \A k \in 1..1 : k = 1
  OBVIOUS
<1>3. \A k \in 2..1 : FALSE
  OBVIOUS
<1>4. Stage(<<x>>)
  BY <1>1, <1>2, <1>3 DEF Stage, Shop, Sell
<1>5. QED
  BY <1>1, <1>2, <1>4 DEF Tasks

LEMMA PlaceGuestOrderKept ==
  ASSUME IInv, NEW a \in GuestTab, NEW w \in Wishes, PlaceGuestOrder(a, w)
  PROVE  IInv'
<1> DEFINE x == ReadMenu(w, 0)
           q == [op |-> "order", wish |-> w, on |-> Items(w), todo |-> <<x>>]
<1>1. w \in Seq(Line) /\ a \in Actor
  BY CheckoutAssumption DEF Actor
<1>2. x.do = "menu" /\ TaskInv("order", Items(w), x)
  BY <1>1 DEF TaskInv, ReadMenu
<1>3. Begin(a, "order", w, Items(w), <<x>>)
  BY DEF PlaceGuestOrder
<1> HIDE DEF x
<1>4. Tasks(q, <<x>>) /\ <<x>>[1] = x /\ Len(<<x>>) = 1
  BY <1>2, OneTask
<1>5. \A i : Saves(<<x>>, i) = {}
  BY <1>2, <1>4 DEF Saves
<1>6. QED
  BY <1>1, <1>2, <1>3, <1>4, <1>5, BeginKept

LEMMA UpdateItemKept ==
  ASSUME IInv, NEW a \in Tab, NEW i \in Item, NEW n \in 0..LineLimit, UpdateItem(a, i, n)
  PROVE  IInv'
<1> DEFINE lines == cart.lines
           x == IF n = 0 THEN Replace(cart.id, cart.v, Without(lines, i))
                ELSE SetLine(cart.id, cart.v, First({k \in DOMAIN lines : lines[k].item = i}), n)
           q == [op |-> "cart", wish |-> <<>>, on |-> {NoCart}, todo |-> <<x>>]
<1>1. a \in Actor /\ <<>> \in Seq(Line)
  BY DEF Actor
<1>2. cart # NoCart /\ Begin(a, "cart", <<>>, {NoCart}, <<x>>)
  BY DEF UpdateItem
<1>3. lines \in Seq(Line)
  BY <1>2 DEF IInv, DataInv, CartDocs
<1>4. /\ Without(lines, i) \in Seq(Line)
      /\ Distinct(lines) => Distinct(Without(lines, i))
  <2> HIDE DEF lines
  <2>1. QED
    BY <1>3, WithoutIs
<1>5. LineLimit \in Nat
  BY CheckoutAssumption
<1>6. x.do \in {"line", "replace"} /\ TaskInv("cart", {NoCart}, x)
  BY <1>4, <1>5 DEF TaskInv, Replace, SetLine
<1>7. x.do = "replace" => x.lines = Without(lines, i)
  BY DEF Replace, SetLine
<1>8. cart.id \notin hist.mixed => Distinct(lines)
  BY <1>2 DEF IInv, OneLinePerItem, Distinct
<1> HIDE DEF x, lines
<1>9. Tasks(q, <<x>>) /\ <<x>>[1] = x
  BY <1>6, OneTask
<1>10. QED
  BY <1>1, <1>2, <1>4, <1>6, <1>7, <1>8, <1>9, BeginKept

\* An edit saves the fields in which the copy and what the staff want differ.
LEMMA EditKept ==
  ASSUME IInv, NEW a \in Staff, NEW i \in Item, NEW set, ItemPatch(set),
         Begin(a, "edit", <<>>, {i}, <<SaveItem(i, set)>>)
  PROVE  IInv'
<1> DEFINE x == SaveItem(i, set)
           q == [op |-> "edit", wish |-> <<>>, on |-> {i}, todo |-> <<x>>]
<1>1. a \in Actor /\ <<>> \in Seq(Line)
  BY DEF Actor
<1>2. x.do = "item" /\ TaskInv("edit", {i}, x)
  BY DEF TaskInv, SaveItem
<1> HIDE DEF x
<1>3. Tasks(q, <<x>>) /\ <<x>>[1] = x
  BY <1>2, OneTask
<1>4. Begin(a, "edit", <<>>, {i}, <<x>>)
  BY DEF x
<1>5. QED
  BY <1>1, <1>2, <1>3, <1>4, BeginKept

LEMMA ChangesPatch ==
  ASSUME NEW from \in ItemDocs, NEW to \in ItemDocs
  PROVE  ItemPatch(Changes(from, to))
<1>1. DOMAIN from = {"exists", "active", "inStock", "qty"}
  BY DEF ItemDocs
<1>2. \A f \in DOMAIN Changes(from, to) :
         f \in {"exists", "active", "inStock", "qty"} /\ Changes(from, to)[f] = to[f]
  BY <1>1 DEF Changes
<1>3. /\ to.exists \in BOOLEAN /\ to.active \in BOOLEAN /\ to.inStock \in BOOLEAN
      /\ to.qty \in Nat \cup {NoCount}
  BY DEF ItemDocs
<1>4. QED
  BY <1>2, <1>3 DEF ItemPatch

LEMMA StaffKept ==
  ASSUME IInv, NEW a \in Staff, NEW i \in Item, StaffRequests(a, i)
  PROVE  IInv'
<1>1. menu[i] \in ItemDocs
  BY DEF IInv, DataInv
<1>2. \A n \in Levels : n \in Nat \cup {NoCount}
  BY CheckoutAssumption
<1>3. ASSUME NEW to \in ItemDocs, Edit(a, i, to)
      PROVE  IInv'
  BY <1>1, <1>3, ChangesPatch, EditKept DEF Edit
<1>4. ASSUME NEW flag \in BOOLEAN, SetStock(a, i, flag)
      PROVE  IInv'
  <2>1. [menu[i] EXCEPT !.inStock = flag] \in ItemDocs
    BY <1>1 DEF ItemDocs
  <2>2. QED
    BY <1>3, <1>4, <2>1 DEF SetStock
<1>5. ASSUME NEW n \in Levels, SetQuantity(a, i, n)
      PROVE  IInv'
  <2>1. [menu[i] EXCEPT !.qty = n] \in ItemDocs
    BY <1>1, <1>2 DEF ItemDocs
  <2>2. QED
    BY <1>3, <1>5, <2>1 DEF SetQuantity
<1>6. ASSUME NEW n \in Levels, NEW flag \in {{}, {TRUE}, {FALSE}}, BulkUpdateStock(a, i, n, flag)
      PROVE  IInv'
  <2>1. \A b \in BOOLEAN : [menu[i] EXCEPT !.qty = n, !.inStock = b] \in ItemDocs
    BY <1>1, <1>2 DEF ItemDocs
  <2>2. PICK b \in BOOLEAN : Edit(a, i, [menu[i] EXCEPT !.qty = n, !.inStock = b])
    <3> DEFINE b == n # 0 /\ IF flag # {} THEN TRUE \in flag ELSE Counted(n) \/ menu[i].inStock
    <3>1. b \in BOOLEAN
      OBVIOUS
    <3>2. Edit(a, i, [menu[i] EXCEPT !.qty = n, !.inStock = b])
      BY <1>6 DEF BulkUpdateStock
    <3> HIDE DEF b
    <3>3. QED
      BY <3>1, <3>2
  <2>3. QED
    BY <1>3, <2>1, <2>2
<1>7. CASE SetActive(a, i)
  <2>1. [menu[i] EXCEPT !.active = ~@] \in ItemDocs
    BY <1>1 DEF ItemDocs
  <2>2. QED
    BY <1>3, <1>7, <2>1 DEF SetActive
<1>8. CASE DeleteMenuItem(a, i)
  <2>1. ItemPatch([exists |-> FALSE])
    BY DEF ItemPatch
  <2>2. QED
    BY <1>8, <2>1, EditKept DEF DeleteMenuItem
<1>9. QED
  BY <1>4, <1>5, <1>6, <1>7, <1>8 DEF StaffRequests

-----------------------------------------------------------------------------
(* Steps of a tab that fills its cart, or changes it.                       *)

LEMMA NoSaves ==
  ASSUME NEW s, IsList(s), Len(s) > 0, Stage(s), s[1].do \in Shop \cup {"menu"}
  PROVE  \A i : Saves(s, i) = {}
<1>1. Len(s) \in Nat
  BY DEF IsList
<1>2. \A k \in 1..Len(s) : k = 1 \/ k \in 2..Len(s)
  BY <1>1
<1>3. \A k \in 1..Len(s) : s[k].do # "item"
  BY <1>1, <1>2 DEF Stage, Shop, Sell
<1>4. QED
  BY <1>3 DEF Saves

LEMMA LaterSaves ==
  ASSUME RequestsInv', NEW a \in Actor, req'[a] # Idle, Todo(a)'.do \in Shop \cup {"menu"}
  PROVE  \A i : Saves(req'[a].todo, i) = {}
<1> DEFINE s == req'[a].todo
<1>1. RequestInv(req'[a])
  BY DEF RequestsInv
<1>2. IsList(s) /\ Len(s) > 0 /\ Stage(s)
  BY <1>1 DEF RequestInv
<1>3. Todo(a)' = s[1]
  <2>1. Head(s) = s[1]
    <3> HIDE DEF s
    <3>1. QED
      BY <1>2, RestOf
  <2>2. QED
    BY <2>1 DEF Todo
<1> HIDE DEF s
<1>4. s[1].do \in Shop \cup {"menu"}
  BY <1>3
<1>5. \A i : Saves(s, i) = {}
  BY <1>2, <1>4, NoSaves
<1>6. QED
  BY <1>5 DEF s

LEMMA ShopStep ==
  ASSUME IInv, NEW a \in Actor, Busy(a), Todo(a).do \in Shop, RequestsInv', Others(a),
         req'[a] = Idle \/ (Todo(a)'.do \in Shop /\ req'[a].on = req[a].on),
         menu' = menu, hist'.crossed = hist.crossed, hist'.raced = hist.raced,
         hist.mixed \subseteq hist'.mixed, hist'.shelf = hist.shelf
  PROVE  /\ Rivalry' /\ StockInv'
         /\ \A c \in Actor : SellClaim(c)' /\ BuyClaim(c)'
         /\ \A c \in Actor \ {a} : CartClaim(c)'
<1>1. RequestsInv
  BY DEF IInv
<1>2. TaskInv(req[a].op, req[a].on, Todo(a))
  BY <1>1, RequestOf
<1>3. NoCart \in req[a].on
  BY <1>2 DEF TaskInv, Shop
<1>4. req'[a].on \subseteq req[a].on
  BY DEF Idle
<1>5. \A i : ~Selling(a, i)
  BY <1>1, NoSales
<1>6. req'[a] # Idle => \A i : Saves(req'[a].todo, i) = {}
  BY LaterSaves
<1>7. \A i : ~Selling(a, i)'
  BY <1>6 DEF Selling, Busy, Saves
<1>8. \A i \in Item \ hist'.raced :
         /\ Selling(a, i)' <=> Selling(a, i)
         /\ Selling(a, i) => \A n : Leaves(req[a].todo, i, n) => Leaves(req'[a].todo, i, n)
  BY <1>5, <1>7
<1>9. /\ Rivalry' /\ StockInv'
      /\ \A c \in Actor \ {a} : SellClaim(c)' /\ BuyClaim(c)' /\ CartClaim(c)'
  BY <1>3, <1>4, <1>8, CalmStep
<1>10. SellClaim(a)'
  BY <1>6 DEF SellClaim, Alone, Busy, Saves
<1>11. BuyClaim(a)'
  BY DEF BuyClaim, Busy, Shop
<1>12. QED
  BY <1>9, <1>10, <1>11

\* What follows a step that filled the cart.
LEMMA ShopDone ==
  ASSUME RequestsInv, NEW a \in Actor, Busy(a), Todo(a).do \in Shop,
         Resumes(a, Tail(req[a].todo))
  PROVE  /\ RequestsInv' /\ Others(a)
         /\ req'[a] = Idle \/ (Todo(a)'.do \in {"add", "checkout"} /\ req'[a].on = req[a].on)
<1> DEFINE s == req[a].todo
<1>1. /\ RequestsInv' /\ Others(a)
      /\ Len(s) = 1 => req'[a] = Idle
      /\ Len(s) > 1 => GoesOn(a, Tail(s)) /\ Todo(a)' = s[2]
  BY DoneIs
<1>2. Stage(s) /\ Len(s) \in Nat /\ Len(s) > 0 /\ s[1].do \in Shop
  BY RequestOf DEF Tasks
<1> HIDE DEF s
<1>3. CASE Len(s) = 1
  BY <1>1, <1>3
<1>4. CASE Len(s) > 1
  <2>1. 2 \in 2..Len(s) /\ 1 \in 1..Len(s)
    BY <1>2, <1>4
  <2>2. s[2].do \in {"add", "checkout"}
    BY <1>2, <2>1 DEF Stage, Shop, Sell
  <2>3. QED
    BY <1>1, <1>4, <2>2 DEF GoesOn
<1>5. \A n \in Nat : n > 0 => n = 1 \/ n > 1
  OBVIOUS
<1>6. RequestsInv' /\ Others(a)
  BY <1>1
<1>7. Len(s) = 1 \/ Len(s) > 1
  BY <1>2, <1>5, Zenon
<1>8. QED
  BY <1>3, <1>4, <1>6, <1>7

LEMMA StepBusy ==
  ASSUME NEW a, NEW kind, Step(a, kind)
  PROVE  Busy(a) /\ Todo(a).do = kind
BY DEF Step, Busy, Todo

LEMMA MarkIs ==
  ASSUME DataInv, NEW a, NEW id, MarkCart(a, id)
  PROVE  /\ hist' = [crossed |-> hist'.crossed, uncleared |-> hist'.uncleared,
                     raced |-> hist'.raced, mixed |-> hist'.mixed, shelf |-> hist'.shelf]
         /\ hist'.crossed = hist.crossed /\ hist'.uncleared = hist.uncleared
         /\ hist'.raced = hist.raced /\ hist'.shelf = hist.shelf
         /\ hist.mixed \subseteq hist'.mixed
         /\ a \in hist.crossed => id \in hist'.mixed
BY DEF DataInv, MarkCart, Crossed

\* The cart was saved, and the handler goes on, or was refused.
LEMMA CartSaved ==
  ASSUME IInv, NEW a \in Actor, Busy(a),
         Todo(a).do \in {"clear", "new", "push", "line", "replace"},
         Done(a) \/ (Refuse(a) /\ cart' = cart),
         menu' = menu, orders' = orders, carts' \in Nat,
         cart' # NoCart => cart' \in CartDocs /\ cart'.id \in 1..carts',
         hist' = [crossed |-> hist'.crossed, uncleared |-> hist'.uncleared,
                  raced |-> hist'.raced, mixed |-> hist'.mixed, shelf |-> hist'.shelf],
         hist'.crossed = hist.crossed, hist'.raced = hist.raced, hist'.shelf = hist.shelf,
         hist.mixed \subseteq hist'.mixed,
         (cart' # NoCart /\ cart'.id \notin hist'.mixed) => Distinct(cart'.lines)
  PROVE  IInv'
<1>1. DataInv /\ RequestsInv
  BY DEF IInv
<1>2. Todo(a).do \in Shop
  BY DEF Shop
<1>3. /\ RequestsInv' /\ Others(a)
      /\ req'[a] = Idle \/ (Todo(a)'.do \in {"add", "checkout"} /\ req'[a].on = req[a].on)
  BY <1>1, <1>2, DoneResumes, ShopDone, RefuseIs
<1>4. DataInv'
  BY <1>1 DEF DataInv
<1>5. /\ Rivalry' /\ StockInv'
      /\ \A c \in Actor : SellClaim(c)' /\ BuyClaim(c)'
      /\ \A c \in Actor \ {a} : CartClaim(c)'
  <2>1. req'[a] = Idle \/ (Todo(a)'.do \in Shop /\ req'[a].on = req[a].on)
    BY <1>3 DEF Shop
  <2>2. QED
    BY <1>2, <1>3, <2>1, ShopStep
<1>6. CartClaim(a)'
  BY <1>3 DEF CartClaim, Alone, Busy
<1>7. OneLinePerItem'
  BY DEF OneLinePerItem, Distinct
<1>8. QED
  BY <1>3, <1>4, <1>5, <1>6, <1>7 DEF IInv

LEMMA DoClearKept ==
  ASSUME IInv, NEW a \in Actor, DoClear(a)
  PROVE  IInv'
<1>1. Busy(a) /\ Todo(a).do = "clear"
  BY StepBusy DEF DoClear
<1>2. cart' = NoCart /\ Done(a) /\ UNCHANGED <<menu, carts, orders, hist>>
  BY DEF DoClear
<1>3. DataInv
  BY DEF IInv
<1>4. QED
  BY <1>1, <1>2, <1>3, CartSaved DEF DataInv

LEMMA DoNewCartKept ==
  ASSUME IInv, NEW a \in Actor, DoNewCart(a)
  PROVE  IInv'
<1>1. Busy(a) /\ Todo(a).do = "new"
  BY StepBusy DEF DoNewCart
<1>2. DataInv /\ RequestsInv /\ OneLinePerItem
  BY DEF IInv
<1>3. menu' = menu /\ orders' = orders
  BY DEF DoNewCart
<1>4. CASE cart = NoCart
  <2>1. /\ cart' = [id |-> carts + 1, v |-> 0, lines |-> <<Todo(a).line>>]
        /\ carts' = carts + 1 /\ MarkCart(a, carts + 1) /\ Done(a)
    BY <1>4 DEF DoNewCart
  <2>2. Todo(a).line \in Line
    BY <1>1, <1>2, RequestOf DEF TaskInv
  <2>3. cart' \in CartDocs /\ cart'.id \in 1..carts' /\ carts' \in Nat
    BY <1>2, <2>1, <2>2 DEF CartDocs, DataInv
  <2>4. Distinct(cart'.lines)
    BY <2>1 DEF Distinct
  <2>5. QED
    BY <1>1, <1>2, <1>3, <2>1, <2>3, <2>4, MarkIs, CartSaved
<1>5. CASE cart # NoCart
  <2>1. Refuse(a) /\ UNCHANGED <<cart, carts, hist>>
    BY <1>5 DEF DoNewCart
  <2>2. QED
    BY <1>1, <1>2, <1>3, <2>1, CartSaved DEF DataInv, OneLinePerItem, Distinct
<1>6. QED
  BY <1>4, <1>5

LEMMA DoPushKept ==
  ASSUME IInv, NEW a \in Actor, DoPush(a)
  PROVE  IInv'
<1>1. Busy(a) /\ Todo(a).do = "push"
  BY StepBusy DEF DoPush
<1>2. DataInv /\ RequestsInv /\ OneLinePerItem /\ CartClaim(a)
  BY DEF IInv
<1>3. menu' = menu /\ orders' = orders /\ carts' = carts
  BY DEF DoPush
<1>4. CASE Loaded(Todo(a).cart)
  <2> DEFINE line == Todo(a).line
             lines == cart.lines
  <2>1. /\ cart' = [cart EXCEPT !.lines = Append(@, line), !.v = @ + 1]
        /\ MarkCart(a, cart.id) /\ Done(a) /\ cart # NoCart /\ Todo(a).cart = cart.id
    BY <1>4 DEF DoPush, Loaded
  <2>2. line \in Line
    BY <1>1, <1>2, RequestOf DEF TaskInv
  <2>3. cart \in CartDocs /\ cart.id \in 1..carts /\ lines \in Seq(Line)
    BY <1>2, <2>1 DEF CartDocs, DataInv
  <2> HIDE DEF line
  <2>4. cart' = [id |-> cart.id, v |-> cart.v + 1, lines |-> Append(lines, line)]
    BY <2>1, <2>3 DEF CartDocs
  <2> HIDE DEF lines
  <2>5. Append(lines, line) \in Seq(Line)
    BY <2>2, <2>3
  <2>6. cart' \in CartDocs /\ cart'.id \in 1..carts' /\ carts' \in Nat
    BY <1>2, <1>3, <2>3, <2>4, <2>5 DEF CartDocs, DataInv
  <2>7. ASSUME cart.id \notin hist'.mixed
        PROVE  Distinct(Append(lines, line))
    <3>1. cart.id \notin hist.mixed /\ a \notin hist.crossed
      BY <1>2, <2>1, <2>7, MarkIs
    <3>2. Distinct(lines)
      BY <1>2, <2>1, <3>1 DEF OneLinePerItem, Distinct, lines
    <3>3. line.item \notin Items(lines)
      BY <1>1, <1>2, <2>1, <3>1 DEF CartClaim, Alone, line, lines
    <3>4. /\ DOMAIN Append(lines, line) = 1..Len(lines) + 1 /\ Len(lines) \in Nat
          /\ DOMAIN lines = 1..Len(lines)
          /\ \A k \in 1..Len(lines) : Append(lines, line)[k] = lines[k]
          /\ Append(lines, line)[Len(lines) + 1] = line
      BY <2>2, <2>3
    <3>5. \A k \in DOMAIN Append(lines, line) : k \in DOMAIN lines \/ k = Len(lines) + 1
      BY <3>4
    <3>6. QED
      BY <3>2, <3>3, <3>4, <3>5 DEF Distinct, Items
  <2>8. (cart' # NoCart /\ cart'.id \notin hist'.mixed) => Distinct(cart'.lines)
    BY <2>4, <2>7
  <2>9. QED
    BY <1>1, <1>2, <1>3, <2>1, <2>6, <2>8, MarkIs, CartSaved
<1>5. CASE ~Loaded(Todo(a).cart)
  <2>1. Refuse(a) /\ UNCHANGED <<cart, hist>>
    BY <1>5 DEF DoPush
  <2>2. QED
    BY <1>1, <1>2, <1>3, <2>1, CartSaved DEF DataInv, OneLinePerItem, Distinct
<1>6. QED
  BY <1>4, <1>5

LEMMA DoLineKept ==
  ASSUME IInv, NEW a \in Actor, DoLine(a)
  PROVE  IInv'
<1>1. Busy(a) /\ Todo(a).do = "line"
  BY StepBusy DEF DoLine
<1>2. DataInv /\ RequestsInv /\ OneLinePerItem
  BY DEF IInv
<1>3. menu' = menu /\ orders' = orders /\ carts' = carts
  BY DEF DoLine
<1>4. CASE Loaded(Todo(a).cart) /\ cart.v = Todo(a).v
  <2> DEFINE lines == cart.lines
             j == Todo(a).k
             q == Todo(a).qty
             to == [k \in DOMAIN lines |-> IF k = j THEN [lines[k] EXCEPT !.qty = q] ELSE lines[k]]
  <2>1. /\ cart' = [cart EXCEPT !.lines[j].qty = q]
        /\ MarkCart(a, cart.id) /\ Done(a) /\ cart # NoCart
    BY <1>4 DEF DoLine, Loaded
  <2>2. q \in 1..LineLimit
    BY <1>1, <1>2, RequestOf DEF TaskInv
  <2>3. cart \in CartDocs /\ cart.id \in 1..carts /\ lines \in Seq(Line)
    BY <1>2, <2>1 DEF CartDocs, DataInv
  <2> HIDE DEF j, q
  <2>4. cart' = [id |-> cart.id, v |-> cart.v, lines |-> to]
    BY <2>1, <2>3 DEF CartDocs
  <2>5. \A k \in DOMAIN lines : to[k] \in Line /\ to[k].item = lines[k].item
    <3>1. ASSUME NEW k \in DOMAIN lines
          PROVE  to[k] \in Line /\ to[k].item = lines[k].item
      <4>1. lines[k] \in Line
        BY <2>3
      <4>2. /\ [lines[k] EXCEPT !.qty = q] \in Line
            /\ [lines[k] EXCEPT !.qty = q].item = lines[k].item
        BY <2>2, <4>1 DEF Line
      <4>3. QED
        BY <4>1, <4>2
    <3>2. QED
      BY <3>1
  <2>6. DOMAIN to = DOMAIN lines /\ DOMAIN lines = 1..Len(lines) /\ Len(lines) \in Nat
    BY <2>3
  <2>7. to \in Seq(Line)
    <3>1. to = [k \in 1..Len(lines) |-> to[k]]
      BY <2>6
    <3> HIDE DEF to, lines
    <3>2. [k \in 1..Len(lines) |-> to[k]] \in Seq(Line)
      BY <2>5, <2>6, IsASeq
    <3>3. QED
      BY <3>1, <3>2
  <2> HIDE DEF to
  <2>8. cart' \in CartDocs /\ cart'.id \in 1..carts' /\ carts' \in Nat
    BY <1>2, <1>3, <2>3, <2>4, <2>7 DEF CartDocs, DataInv
  <2>9. cart.id \notin hist.mixed => Distinct(to)
    BY <1>2, <2>1, <2>5, <2>6 DEF OneLinePerItem, Distinct
  <2>10. (cart' # NoCart /\ cart'.id \notin hist'.mixed) => Distinct(cart'.lines)
    BY <1>2, <2>1, <2>4, <2>9, MarkIs
  <2>11. QED
    BY <1>1, <1>2, <1>3, <2>1, <2>8, <2>10, MarkIs, CartSaved
<1>5. CASE ~(Loaded(Todo(a).cart) /\ cart.v = Todo(a).v)
  <2>1. Refuse(a) /\ UNCHANGED <<cart, hist>>
    BY <1>5 DEF DoLine
  <2>2. QED
    BY <1>1, <1>2, <1>3, <2>1, CartSaved DEF DataInv, OneLinePerItem, Distinct
<1>6. QED
  BY <1>4, <1>5

LEMMA DoReplaceKept ==
  ASSUME IInv, NEW a \in Actor, DoReplace(a)
  PROVE  IInv'
<1>1. Busy(a) /\ Todo(a).do = "replace"
  BY StepBusy DEF DoReplace
<1>2. DataInv /\ RequestsInv /\ OneLinePerItem /\ CartClaim(a)
  BY DEF IInv
<1>3. menu' = menu /\ orders' = orders /\ carts' = carts
  BY DEF DoReplace
<1>4. CASE Loaded(Todo(a).cart) /\ cart.v = Todo(a).v
  <2> DEFINE lines == Todo(a).lines
  <2>1. /\ cart' = [cart EXCEPT !.lines = lines, !.v = @ + 1]
        /\ MarkCart(a, cart.id) /\ Done(a) /\ cart # NoCart
    BY <1>4 DEF DoReplace, Loaded
  <2>2. lines \in Seq(Line)
    BY <1>1, <1>2, RequestOf DEF TaskInv
  <2>3. cart \in CartDocs /\ cart.id \in 1..carts
    BY <1>2, <2>1 DEF DataInv
  <2>4. cart' = [id |-> cart.id, v |-> cart.v + 1, lines |-> lines]
    BY <2>1, <2>3 DEF CartDocs
  <2>5. cart' \in CartDocs /\ cart'.id \in 1..carts' /\ carts' \in Nat
    BY <1>2, <1>3, <2>2, <2>3, <2>4 DEF CartDocs, DataInv
  <2>6. cart.id \notin hist'.mixed => Distinct(lines)
    BY <1>1, <1>2, <2>1, MarkIs DEF CartClaim, Alone
  <2>7. (cart' # NoCart /\ cart'.id \notin hist'.mixed) => Distinct(cart'.lines)
    BY <2>4, <2>6
  <2>8. QED
    BY <1>1, <1>2, <1>3, <2>1, <2>5, <2>7, MarkIs, CartSaved
<1>5. CASE ~(Loaded(Todo(a).cart) /\ cart.v = Todo(a).v)
  <2>1. Refuse(a) /\ UNCHANGED <<cart, hist>>
    BY <1>5 DEF DoReplace
  <2>2. QED
    BY <1>1, <1>2, <1>3, <2>1, CartSaved DEF DataInv, OneLinePerItem, Distinct
<1>6. QED
  BY <1>4, <1>5

LEMMA SmallerLine ==
  ASSUME NEW line \in Line, NEW old \in Line
  PROVE  Merged(old, line) \in 1..LineLimit
BY CheckoutAssumption DEF Merged, Least, Line

LEMMA DoAddKept ==
  ASSUME IInv, NEW a \in Actor, DoAdd(a)
  PROVE  IInv'
<1> DEFINE line == Todo(a).line
           same == SameLine(line)
           op == req[a].op
           on == req[a].on
<1>1. Busy(a) /\ Todo(a).do = "add"
  BY StepBusy DEF DoAdd
<1>2. DataInv /\ RequestsInv /\ OneLinePerItem
  BY DEF IInv
<1>3. UNCHANGED <<menu, cart, carts, orders, hist>>
  BY DEF DoAdd
<1>4. TaskInv(op, on, Todo(a)) /\ op \in {"order", "cart", "edit"}
  BY <1>1, <1>2, RequestOf
<1>5. line \in Line /\ NoCart \in on /\ op = "order"
  BY <1>1, <1>4 DEF TaskInv
<1>6. Todo(a).do \in Shop
  BY <1>1 DEF Shop
<1> HIDE DEF line, same, op, on
<1>7. DataInv' /\ OneLinePerItem'
  BY <1>2, <1>3 DEF DataInv, OneLinePerItem
<1>8. ASSUME NEW x, Instead(a, <<x>>), x.do \in {"new", "push", "line"}, TaskInv(op, on, x),
             x.do = "push" => x.cart = cart.id /\ x.line.item \notin Items(cart.lines)
      PROVE  IInv'
  <2>1. RequestsInv' /\ Others(a) /\ GoesOn(a, <<x>> \o Tail(req[a].todo)) /\ Todo(a)' = x
    BY <1>1, <1>2, <1>8, InsteadIs DEF op, on
  <2>2. Todo(a)'.do \in Shop /\ req'[a].on = req[a].on
    BY <1>8, <2>1 DEF Shop, GoesOn
  <2>3. /\ Rivalry' /\ StockInv'
        /\ \A c \in Actor : SellClaim(c)' /\ BuyClaim(c)'
        /\ \A c \in Actor \ {a} : CartClaim(c)'
    BY <1>1, <1>3, <1>6, <2>1, <2>2, ShopStep
  <2>4. CartClaim(a)'
    BY <1>3, <1>8, <2>1 DEF CartClaim, Items
  <2>5. QED
    BY <1>7, <2>1, <2>3, <2>4 DEF IInv
<1>9. CASE Refuse(a)
  <2>1. RequestsInv' /\ Others(a) /\ req'[a] = Idle
    BY <1>1, <1>2, <1>9, RefuseIs
  <2>2. /\ Rivalry' /\ StockInv'
        /\ \A c \in Actor : SellClaim(c)' /\ BuyClaim(c)'
        /\ \A c \in Actor \ {a} : CartClaim(c)'
    BY <1>1, <1>3, <1>6, <2>1, ShopStep
  <2>3. CartClaim(a)'
    BY <2>1 DEF CartClaim, Alone, Busy
  <2>4. QED
    BY <1>7, <2>1, <2>2, <2>3 DEF IInv
<1>10. CASE cart = NoCart /\ Instead(a, <<NewCart(line)>>)
  <2>1. NewCart(line).do = "new" /\ TaskInv(op, on, NewCart(line))
    BY <1>5 DEF NewCart, TaskInv
  <2>2. QED
    BY <1>8, <1>10, <2>1
<1>11. CASE cart # NoCart /\ same = {} /\ Instead(a, <<Push(cart.id, line)>>)
  <2>1. /\ Push(cart.id, line).do = "push" /\ TaskInv(op, on, Push(cart.id, line))
        /\ Push(cart.id, line).cart = cart.id /\ Push(cart.id, line).line = line
    BY <1>5 DEF Push, TaskInv
  <2>2. line.item \notin Items(cart.lines)
    BY <1>11 DEF same, SameLine, Items
  <2>3. QED
    BY <1>8, <1>11, <2>1, <2>2
<1>12. CASE cart # NoCart /\ same # {} /\
            Instead(a, <<SetLine(cart.id, cart.v, First(same),
                                 Merged(cart.lines[First(same)], line))>>)
  <2> DEFINE n == Merged(cart.lines[First(same)], line)
             x == SetLine(cart.id, cart.v, First(same), n)
  <2>1. cart.lines \in Seq(Line)
    BY <1>2, <1>12 DEF DataInv, CartDocs
  <2>2. same \subseteq DOMAIN cart.lines /\ same \subseteq Nat
    BY <2>1 DEF same, SameLine
  <2>3. First(same) \in same
    BY <1>12, <2>2, LeastOf
  <2>4. cart.lines[First(same)] \in Line
    BY <2>1, <2>2, <2>3
  <2>5. n \in 1..LineLimit
    BY <1>5, <2>4, SmallerLine
  <2> HIDE DEF n
  <2>6. x.do = "line" /\ TaskInv(op, on, x)
    BY <1>5, <2>5 DEF SetLine, TaskInv
  <2>7. Instead(a, <<x>>)
    BY <1>12 DEF n
  <2> HIDE DEF x
  <2>8. QED
    BY <1>8, <2>6, <2>7
<1>13. QED
  BY <1>9, <1>10, <1>11, <1>12 DEF DoAdd, line, same

LEMMA ClearLostKept ==
  ASSUME IInv, NEW a \in Actor, ClearLost(a)
  PROVE  IInv'
<1>1. Busy(a) /\ Todo(a).do = "clear"
  BY StepBusy DEF ClearLost
<1>2. DataInv /\ RequestsInv /\ OneLinePerItem
  BY DEF IInv
<1>3. /\ UNCHANGED <<menu, cart, carts, orders>>
      /\ hist' = [hist EXCEPT !.uncleared = @ \cup {a}]
      /\ req' = [req EXCEPT ![a].todo = Tail(@)]
  BY DEF ClearLost
<1>4. /\ hist' = [crossed |-> hist'.crossed, uncleared |-> hist'.uncleared,
                  raced |-> hist'.raced, mixed |-> hist'.mixed, shelf |-> hist'.shelf]
      /\ hist'.crossed = hist.crossed /\ hist'.raced = hist.raced
      /\ hist'.mixed = hist.mixed /\ hist'.shelf = hist.shelf
  BY <1>2, <1>3 DEF DataInv
<1>5. /\ Todo(a) = req[a].todo[1] /\ Tasks(req[a], req[a].todo)
  BY <1>1, <1>2, RequestOf
<1>6. Len(req[a].todo) > 1
  BY <1>1, <1>5 DEF Tasks, Stage, Sell
<1>7. Tail(req[a].todo) # <<>>
  BY <1>5, <1>6, RestOf DEF Tasks
<1>8. Resumes(a, Tail(req[a].todo))
  BY <1>2, <1>3, <1>7 DEF Resumes, RequestsInv
<1>9. Todo(a).do \in Shop
  BY <1>1 DEF Shop
<1>10. /\ RequestsInv' /\ Others(a)
       /\ req'[a] = Idle \/ (Todo(a)'.do \in {"add", "checkout"} /\ req'[a].on = req[a].on)
  BY <1>1, <1>2, <1>8, <1>9, ShopDone
<1>11. req'[a] = Idle \/ (Todo(a)'.do \in Shop /\ req'[a].on = req[a].on)
  BY <1>10 DEF Shop
<1>12. /\ Rivalry' /\ StockInv'
       /\ \A c \in Actor : SellClaim(c)' /\ BuyClaim(c)'
       /\ \A c \in Actor \ {a} : CartClaim(c)'
  BY <1>1, <1>3, <1>4, <1>9, <1>10, <1>11, ShopStep
<1>13. CartClaim(a)'
  BY <1>10 DEF CartClaim, Alone, Busy
<1>14. DataInv' /\ OneLinePerItem'
  BY <1>2, <1>3, <1>4 DEF DataInv, OneLinePerItem
<1>15. QED
  BY <1>10, <1>12, <1>13, <1>14 DEF IInv

-----------------------------------------------------------------------------
(* Requests that end early.                                                 *)

LEMMA EndKept ==
  ASSUME IInv, NEW a \in Actor, Busy(a), RequestsInv', Others(a), req'[a] = Idle,
         UNCHANGED <<menu, cart, carts, orders>>,
         hist' = [crossed |-> hist'.crossed, uncleared |-> hist'.uncleared,
                  raced |-> hist'.raced, mixed |-> hist'.mixed, shelf |-> hist'.shelf],
         hist'.crossed = hist.crossed, hist'.mixed = hist.mixed, hist'.shelf = hist.shelf,
         hist.raced \subseteq hist'.raced,
         \A i \in Item \ hist'.raced : ~Selling(a, i)
  PROVE  IInv'
<1>1. DataInv /\ OneLinePerItem
  BY DEF IInv
<1>2. DataInv' /\ OneLinePerItem'
  BY <1>1 DEF DataInv, OneLinePerItem
<1>3. \A i : ~Selling(a, i)'
  BY DEF Selling, Busy
<1>4. req'[a].on \subseteq req[a].on
  BY DEF Idle
<1>5. /\ Rivalry' /\ StockInv'
      /\ \A c \in Actor \ {a} : SellClaim(c)' /\ BuyClaim(c)' /\ CartClaim(c)'
  BY <1>3, <1>4, CalmStep
<1>6. SellClaim(a)' /\ BuyClaim(a)' /\ CartClaim(a)'
  BY DEF SellClaim, BuyClaim, CartClaim, Alone, Busy
<1>7. \A c \in Actor : SellClaim(c)' /\ BuyClaim(c)' /\ CartClaim(c)'
  BY <1>5, <1>6
<1>8. QED
  BY <1>2, <1>5, <1>7 DEF IInv

LEMMA SellingOn ==
  ASSUME RequestsInv, NEW a \in Actor, NEW i, Selling(a, i)
  PROVE  i \in req[a].on
BY SavesOnItems DEF Selling

LEMMA RefusedKept ==
  ASSUME IInv, NEW a \in Actor, Refused(a)
  PROVE  IInv'
<1>1. Busy(a) /\ Todo(a).do \in {"menu", "create"}
  BY StepBusy DEF Refused
<1>2. DataInv /\ RequestsInv
  BY DEF IInv
<1>3. Refuse(a) /\ UNCHANGED <<menu, cart, carts, orders, hist>>
  BY DEF Refused
<1>4. RequestsInv' /\ Others(a) /\ req'[a] = Idle
  BY <1>1, <1>2, <1>3, RefuseIs
<1>5. \A i : ~Selling(a, i)
  <2>1. CASE Todo(a).do = "menu"
    BY <1>1, <1>2, <2>1, NoSales
  <2>2. CASE Todo(a).do = "create"
    BY <2>2 DEF Selling
  <2>3. QED
    BY <1>1, <2>1, <2>2
<1>6. QED
  BY <1>1, <1>2, <1>3, <1>4, <1>5, EndKept DEF DataInv

LEMMA DiesKept ==
  ASSUME IInv, NEW a \in Actor, Dies(a)
  PROVE  IInv'
<1>1. /\ Busy(a) /\ UNCHANGED <<menu, cart, carts, orders>>
      /\ req' = [req EXCEPT ![a] = Idle]
      /\ hist' = [hist EXCEPT !.raced = @ \cup req[a].on]
  BY DEF Dies, Busy
<1>2. DataInv /\ RequestsInv
  BY DEF IInv
<1>3. /\ hist' = [crossed |-> hist'.crossed, uncleared |-> hist'.uncleared,
                  raced |-> hist'.raced, mixed |-> hist'.mixed, shelf |-> hist'.shelf]
      /\ hist'.crossed = hist.crossed /\ hist'.mixed = hist.mixed /\ hist'.shelf = hist.shelf
      /\ hist'.raced = hist.raced \cup req[a].on
  BY <1>1, <1>2 DEF DataInv
<1>4. Others(a) /\ req'[a] = Idle /\ RequestsInv'
  BY <1>1, <1>2 DEF Others, RequestsInv, RequestInv
<1>5. \A i \in Item \ hist'.raced : ~Selling(a, i)
  BY <1>2, <1>3, SellingOn
<1>6. QED
  BY <1>1, <1>3, <1>4, <1>5, EndKept

-----------------------------------------------------------------------------
(* The sale.                                                                *)

\* What follows the order and each step of its sale.
LEMMA SellDone ==
  ASSUME RequestsInv, NEW a \in Actor, Busy(a), Todo(a).do \in Sell \cup {"create"},
         Resumes(a, Tail(req[a].todo))
  PROVE  /\ RequestsInv' /\ Others(a) /\ req'[a].on \subseteq req[a].on
         /\ req'[a] = Idle =>
              /\ \A i : Saves(Tail(req[a].todo), i) = {}
         /\ req'[a] # Idle => Todo(a)'.do \in Sell /\ req'[a].op = "order" /\ req[a].op = "order"
                              /\ req'[a].todo = Tail(req[a].todo)
<1> DEFINE s == req[a].todo
           t == Tail(s)
<1>1. /\ RequestsInv' /\ Others(a)
      /\ Len(s) = 1 => req'[a] = Idle
      /\ Len(s) > 1 => GoesOn(a, t) /\ req[a].op = "order" /\ Todo(a)' = s[2]
      /\ Len(t) = Len(s) - 1
  BY DoneIs
<1>2. Stage(s) /\ Len(s) \in Nat /\ Len(s) > 0 /\ s[1].do \in Sell \cup {"create"}
  BY RequestOf DEF Tasks
<1> HIDE DEF t
<1> HIDE DEF s
<1>3. Len(s) = 1 \/ Len(s) > 1
  <2>1. \A n \in Nat : n > 0 => n = 1 \/ n > 1
    OBVIOUS
  <2>2. QED
    BY <1>2, <2>1, Zenon
<1>4. ASSUME Len(s) = 1
      PROVE  \A i : Saves(t, i) = {}
  <2>1. Len(t) = 0
    BY <1>1, <1>4
  <2>2. QED
    BY <2>1 DEF Saves
<1>5. ASSUME Len(s) > 1
      PROVE  s[2].do \in Sell
  <2>1. 2 \in 2..Len(s) /\ 2 \in 1..Len(s)
    BY <1>2, <1>5
  <2>2. QED
    BY <1>2, <1>5, <2>1 DEF Stage, Shop, Sell
<1>6. CASE Len(s) = 1
  BY <1>1, <1>4, <1>6 DEF Idle, s, t
<1>7. CASE Len(s) > 1
  <2>1. /\ req'[a] # Idle /\ req'[a].op = "order" /\ req[a].op = "order"
        /\ req'[a].todo = t /\ req'[a].on = req[a].on
    BY <1>1, <1>7 DEF GoesOn
  <2>2. Todo(a)'.do \in Sell
    BY <1>1, <1>5, <1>7
  <2>3. QED
    BY <1>1, <2>1, <2>2 DEF s, t
<1>8. QED
  BY <1>3, <1>6, <1>7

\* A step of the sale leaves the sales of the items it does not save.
LEMMA SellingLeft ==
  ASSUME RequestsInv, NEW a \in Actor, Busy(a), Todo(a).do \in Sell,
         Resumes(a, Tail(req[a].todo)), NEW i, Todo(a).do # "item" \/ Todo(a).item # i
  PROVE  /\ Selling(a, i)' <=> Selling(a, i)
         /\ Selling(a, i) => \A n : Leaves(req[a].todo, i, n) => Leaves(req'[a].todo, i, n)
<1>1. /\ req'[a] = Idle => \A j : Saves(Tail(req[a].todo), j) = {}
      /\ req'[a] # Idle => Todo(a)'.do \in Sell /\ req'[a].op = "order" /\ req[a].op = "order"
                           /\ req'[a].todo = Tail(req[a].todo)
  BY SellDone
<1>2. /\ Saves(Tail(req[a].todo), i) = {} <=> Saves(req[a].todo, i) = {}
      /\ \A n : Leaves(req[a].todo, i, n) => Leaves(Tail(req[a].todo), i, n)
  <2>1. /\ IsList(req[a].todo) /\ Len(req[a].todo) > 0
        /\ req[a].todo[1].do # "item" \/ req[a].todo[1].item # i
    BY RequestOf DEF Tasks
  <2>2. QED
    BY <2>1, SavesLeft
<1>3. Selling(a, i)' <=> Selling(a, i)
  <2>1. CASE req'[a] = Idle
    BY <1>1, <1>2, <2>1 DEF Selling, Busy
  <2>2. CASE req'[a] # Idle
    <3>1. Selling(a, i)' <=> Saves(Tail(req[a].todo), i) # {}
      BY <1>1, <2>2 DEF Selling, Busy, Sell, Saves
    <3>2. Selling(a, i) <=> Saves(req[a].todo, i) # {}
      BY <1>1, <2>2 DEF Selling, Sell
    <3>3. QED
      BY <1>2, <3>1, <3>2
  <2>3. QED
    BY <2>1, <2>2
<1>4. Selling(a, i) => \A n : Leaves(req[a].todo, i, n) => Leaves(req'[a].todo, i, n)
  <2>1. Selling(a, i) => req'[a] # Idle
    BY <1>3 DEF Selling, Busy
  <2>2. QED
    BY <1>1, <1>2, <2>1
<1>5. QED
  BY <1>3, <1>4

\* A sale saves only what is counted, as long as it is.
LEMMA SellClaimLeft ==
  ASSUME RequestsInv, NEW a \in Actor, Busy(a), Todo(a).do \in Sell \cup {"create"},
         Resumes(a, Tail(req[a].todo)), SellClaim(a), hist'.crossed = hist.crossed,
         a \notin hist.crossed /\ req[a].op = "order" =>
             \A i \in Item : Counted(menu[i].qty) => Counted(menu'[i].qty)
  PROVE  SellClaim(a)'
<1>1. req'[a] # Idle => req'[a].op = "order" /\ req[a].op = "order"
                        /\ req'[a].todo = Tail(req[a].todo)
  BY SellDone
<1>2. \A i : Saves(req[a].todo, i) = {} => Saves(Tail(req[a].todo), i) = {}
  <2>1. IsList(req[a].todo) /\ Len(req[a].todo) > 0
    BY RequestOf DEF Tasks
  <2>2. QED
    BY <2>1, SavesLeft
<1>3. SUFFICES ASSUME req'[a] # Idle, a \notin hist.crossed, NEW i \in Item,
                      Saves(req'[a].todo, i) # {}
               PROVE  Counted(menu'[i].qty)
  BY DEF SellClaim, Alone, Busy, Saves, Counted
<1>4. Counted(menu[i].qty)
  BY <1>1, <1>2, <1>3 DEF SellClaim, Alone
<1>5. QED
  BY <1>1, <1>3, <1>4

\* A step of the sale that saves nothing.
LEMMA SaleStep ==
  ASSUME IInv, NEW a \in Actor, Busy(a), Todo(a).do \in {"drop", "skip"}, Done(a),
         UNCHANGED <<menu, carts, orders, hist>>,
         cart' = cart \/ (cart' = NoCart /\ NoCart \in req[a].on)
  PROVE  IInv'
<1>1. DataInv /\ RequestsInv /\ OneLinePerItem /\ SellClaim(a)
  BY DEF IInv
<1>2. Todo(a).do \in Sell \cup {"create"} /\ Todo(a).do \in Sell
  BY DEF Sell
<1>3. Resumes(a, Tail(req[a].todo))
  BY DoneResumes
<1>4. /\ RequestsInv' /\ Others(a) /\ req'[a].on \subseteq req[a].on
      /\ req'[a] # Idle => Todo(a)'.do \in Sell
  BY <1>3, <1>1, <1>2, SellDone
<1>5. \A i : /\ Selling(a, i)' <=> Selling(a, i)
             /\ Selling(a, i) => \A n : Leaves(req[a].todo, i, n) => Leaves(req'[a].todo, i, n)
  BY <1>3, <1>1, <1>2, SellingLeft
<1>6. /\ Rivalry' /\ StockInv'
      /\ \A c \in Actor \ {a} : SellClaim(c)' /\ BuyClaim(c)' /\ CartClaim(c)'
  BY <1>4, <1>5, CalmStep
<1>7. SellClaim(a)'
  BY <1>3, <1>1, <1>2, SellClaimLeft
<1>8. BuyClaim(a)' /\ CartClaim(a)'
  BY <1>4 DEF BuyClaim, CartClaim, Alone, Busy, Sell
<1>9. DataInv' /\ OneLinePerItem'
  BY <1>1 DEF DataInv, OneLinePerItem
<1>10. \A c \in Actor : SellClaim(c)' /\ BuyClaim(c)' /\ CartClaim(c)'
  BY <1>6, <1>7, <1>8
<1>11. QED
  BY <1>4, <1>6, <1>9, <1>10 DEF IInv

LEMMA DoDropKept ==
  ASSUME IInv, NEW a \in Actor, DoDrop(a)
  PROVE  IInv'
<1>1. Busy(a) /\ Todo(a).do = "drop"
  BY StepBusy DEF DoDrop
<1>2. RequestsInv
  BY DEF IInv
<1>3. NoCart \in req[a].on
  BY <1>1, <1>2, RequestOf DEF TaskInv
<1>4. Done(a) /\ UNCHANGED <<menu, carts, orders, hist>> /\ (cart' = cart \/ cart' = NoCart)
  BY DEF DoDrop
<1>5. QED
  BY <1>1, <1>3, <1>4, SaleStep

LEMMA DoSkipKept ==
  ASSUME IInv, NEW a \in Actor, DoSkip(a)
  PROVE  IInv'
<1>1. Busy(a) /\ Todo(a).do = "skip"
  BY StepBusy DEF DoSkip
<1>2. QED
  BY <1>1, SaleStep DEF DoSkip

\* The cart is loaded: the request is now about its items too.
LEMMA DoCheckoutKept ==
  ASSUME IInv, NEW a \in Actor, DoCheckout(a)
  PROVE  IInv'
<1> DEFINE lines == cart.lines
           x == ReadMenu(lines, cart.id)
           on == req[a].on \cup Items(lines)
           rivals == Rivals(a, Items(lines))
           q == [op |-> req[a].op, wish |-> req[a].wish, on |-> on, todo |-> <<x>>]
<1>1. Busy(a) /\ Todo(a).do = "checkout" /\ Todo(a).do \in Shop
  BY StepBusy DEF DoCheckout, Shop
<1>2. DataInv /\ RequestsInv /\ Rivalry /\ StockInv /\ OneLinePerItem
  BY DEF IInv
<1>3. UNCHANGED <<menu, cart, carts, orders>>
  BY DEF DoCheckout
<1>4. CASE cart = NoCart \/ lines = <<>>
  <2>1. Refuse(a) /\ UNCHANGED hist
    BY <1>4 DEF DoCheckout
  <2>2. RequestsInv' /\ Others(a) /\ req'[a] = Idle
    BY <1>1, <1>2, <2>1, RefuseIs
  <2>3. \A i : ~Selling(a, i)
    BY <1>1, <1>2, NoSales
  <2>4. QED
    BY <1>1, <1>2, <1>3, <2>1, <2>2, <2>3, EndKept DEF DataInv
<1>5. CASE cart # NoCart /\ lines # <<>>
  <2>1. /\ req' = [req EXCEPT ![a].todo = <<x>>, ![a].on = @ \cup Items(lines)]
        /\ hist' = [hist EXCEPT !.crossed = IF rivals = {} THEN @ ELSE Joined(@, a, rivals)]
    BY <1>5 DEF DoCheckout
  <2>2. /\ req[a] = [op |-> req[a].op, wish |-> req[a].wish, on |-> req[a].on,
                     todo |-> req[a].todo]
        /\ TaskInv(req[a].op, req[a].on, Todo(a))
        /\ req[a].op \in {"order", "cart", "edit"} /\ req[a].wish \in Seq(Line)
    BY <1>1, <1>2, RequestOf
  <2>3. req[a].op = "order" /\ NoCart \in req[a].on
    BY <1>1, <2>2 DEF TaskInv
  <2>4. lines \in Seq(Line)
    BY <1>2, <1>5 DEF DataInv, CartDocs
  <2> HIDE DEF lines
  <2>5. x.do = "menu" /\ TaskInv("order", on, x)
    BY <2>3, <2>4 DEF TaskInv, ReadMenu
  <2> HIDE DEF x, rivals
  <2>6. Tasks(q, <<x>>) /\ <<x>>[1] = x
    BY <2>3, <2>5, OneTask
  <2>7. /\ req' = [c \in Actor |-> req'[c]] /\ Others(a) /\ req'[a] = q
    BY <1>2, <2>1, <2>2 DEF RequestsInv, Others
  <2>8. q # Idle /\ RequestInv(q)
    BY <2>2, <2>6 DEF RequestInv, Tasks, Idle
  <2>9. RequestsInv'
    BY <1>2, <2>7, <2>8 DEF RequestsInv, Others
  <2>10. /\ hist' = [crossed |-> hist'.crossed, uncleared |-> hist'.uncleared,
                     raced |-> hist'.raced, mixed |-> hist'.mixed, shelf |-> hist'.shelf]
         /\ hist'.crossed = IF rivals = {} THEN hist.crossed ELSE Joined(hist.crossed, a, rivals)
         /\ hist'.raced = hist.raced /\ hist'.mixed = hist.mixed /\ hist'.shelf = hist.shelf
    BY <1>2, <2>1 DEF DataInv
  <2>11. /\ hist.crossed \subseteq hist'.crossed
         /\ \A c \in Actor \ {a} : req[c].on \cap Items(lines) # {} =>
              c \in hist'.crossed /\ a \in hist'.crossed
    BY <2>10 DEF Joined, Rivals, rivals
  <2>12. DataInv'
    BY <1>2, <1>3, <2>10 DEF DataInv
  <2>13. OneLinePerItem'
    BY <1>2, <1>3, <2>10 DEF OneLinePerItem
  <2>14. Todo(a)' = x
    <3>1. Head(<<x>>) = x
      OBVIOUS
    <3>2. req'[a].todo = <<x>>
      BY <2>7
    <3>3. QED
      BY <3>1, <3>2 DEF Todo
  <2>15. req'[a].on = on /\ req'[a] # Idle
    BY <2>7, <2>8
  <2> HIDE DEF q
  <2>16. Rivalry'
    <3>1. SUFFICES ASSUME NEW b \in Actor, NEW c \in Actor, b # c, Busy(b)', Busy(c)',
                          req'[b].on \cap req'[c].on # {}
                   PROVE  b \in hist'.crossed
      BY DEF Rivalry
    <3>2. CASE b # a /\ c # a
      BY <1>2, <2>7, <2>11, <3>1, <3>2 DEF Rivalry, Busy, Others
    <3>3. CASE b = a
      <4>1. req'[c] = req[c] /\ Busy(c)
        BY <2>7, <3>1, <3>3 DEF Others, Busy
      <4>2. req[a].on \cap req[c].on # {} => a \in hist.crossed
        BY <1>1, <1>2, <3>1, <3>3, <4>1 DEF Rivalry
      <4>3. QED
        BY <2>11, <2>15, <3>1, <3>3, <4>1, <4>2
    <3>4. CASE c = a
      <4>1. req'[b] = req[b] /\ Busy(b)
        BY <2>7, <3>1, <3>4 DEF Others, Busy
      <4>2. req[b].on \cap req[a].on # {} => b \in hist.crossed
        BY <1>1, <1>2, <3>1, <3>4, <4>1 DEF Rivalry
      <4>3. QED
        BY <2>11, <2>15, <3>1, <3>4, <4>1, <4>2
    <3>5. QED
      BY <3>2, <3>3, <3>4
  <2>17. \A i : Saves(req'[a].todo, i) = {} /\ ~Selling(a, i) /\ ~Selling(a, i)'
    <3>1. \A i : ~Selling(a, i)
      BY <1>1, <1>2, NoSales
    <3>2. \A i : Saves(req'[a].todo, i) = {}
      BY <2>5, <2>9, <2>14, <2>15, LaterSaves
    <3>3. QED
      BY <3>1, <3>2 DEF Selling, Saves
  <2>18. StockInv'
    <3>1. ASSUME NEW i \in Item \ hist'.raced
          PROVE  StockOf(i)'
      <4>1. StockOf(i)
        BY <1>2, <2>10 DEF StockInv
      <4>2. \A c \in Actor : Selling(c, i)' <=> Selling(c, i)
        BY <2>7, <2>17, SameSelling DEF Others
      <4>3. ASSUME NEW c \in Actor, Selling(c, i)
            PROVE  /\ c \in hist.crossed => c \in hist'.crossed
                   /\ \A n : Leaves(req[c].todo, i, n) => Leaves(req'[c].todo, i, n)
        BY <2>7, <2>11, <2>17, <4>3 DEF Others
      <4>4. QED
        BY <1>3, <2>10, <4>1, <4>2, <4>3, StockOfKept
    <3>2. QED
      BY <3>1 DEF StockInv
  <2>19. ASSUME NEW c \in Actor \ {a}
         PROVE  SellClaim(c)' /\ BuyClaim(c)' /\ CartClaim(c)'
    <3>1. SellClaim(c) /\ BuyClaim(c) /\ CartClaim(c)
      BY DEF IInv
    <3>2. req'[c] = req[c] /\ (c \in hist.crossed => c \in hist'.crossed)
      BY <2>7, <2>11 DEF Others
    <3>3. QED
      BY <1>2, <1>3, <2>10, <3>1, <3>2, OthersKept
  <2>20. SellClaim(a)' /\ BuyClaim(a)' /\ CartClaim(a)'
    <3>1. SellClaim(a)'
      BY <2>17 DEF SellClaim, Saves
    <3>2. BuyClaim(a)' /\ CartClaim(a)'
      BY <2>5, <2>14 DEF BuyClaim, CartClaim
    <3>3. QED
      BY <3>1, <3>2
  <2>21. \A c \in Actor : SellClaim(c)' /\ BuyClaim(c)' /\ CartClaim(c)'
    BY <2>19, <2>20
  <2>22. QED
    BY <2>9, <2>12, <2>13, <2>16, <2>18, <2>21 DEF IInv
<1>6. QED
  BY <1>4, <1>5

\* What the sale of a line saves.
LEMMA SaleOf ==
  ASSUME DataInv, NEW lines \in Seq(Line), NEW k \in DOMAIN lines
  PROVE  LET i == lines[k].item
             x == Sale(lines)[k]
         IN  /\ i \in Item
             /\ ~Counted(menu[i].qty) => x = Skip
             /\ Counted(menu[i].qty) =>
                  /\ x.do = "item" /\ x.item = i /\ ItemPatch(x.set)
                  /\ "qty" \in DOMAIN x.set => Counted(x.set.qty)
                  /\ i \notin Doubled(lines) /\ menu[i].qty >= lines[k].qty =>
                       /\ "qty" \in DOMAIN x.set
                       /\ x.set.qty = menu[i].qty - Count(lines, i)
<1> DEFINE i == lines[k].item
           x == Sale(lines)[k]
           c == Count(SubSeq(lines, 1, k), i)
           b == Count(SubSeq(lines, 1, k - 1), i)
           n == menu[i].qty - c
<1>1. lines[k] \in Line
  OBVIOUS
<1>2. i \in Item /\ lines[k].qty \in 1..LineLimit
  BY <1>1 DEF Line
<1>3. ~Counted(menu[i].qty) => x = Skip
  BY DEF Sale
<1>4. Counted(menu[i].qty) => x = StockAfter(lines, k)
  BY DEF Sale
<1>5. ASSUME Counted(menu[i].qty)
      PROVE  /\ x.do = "item" /\ x.item = i /\ ItemPatch(x.set)
             /\ "qty" \in DOMAIN x.set => Counted(x.set.qty)
             /\ i \notin Doubled(lines) /\ menu[i].qty >= lines[k].qty =>
                  "qty" \in DOMAIN x.set /\ x.set.qty = menu[i].qty - Count(lines, i)
  <2> DEFINE set == IF n > 0 THEN [qty |-> n]
                    ELSE IF menu[i].qty > b THEN [qty |-> 0, inStock |-> FALSE] ELSE <<>>
  <2>1. x = SaveItem(i, set)
    BY <1>4, <1>5 DEF StockAfter
  <2>2. x.do = "item" /\ x.item = i /\ x.set = set
    BY <2>1 DEF SaveItem
  <2>3. menu[i].qty \in Nat
    BY <1>2, <1>5 DEF DataInv, ItemDocs, Counted
  <2>4. c \in Nat /\ b \in Nat
    <3>1. k \in 1..Len(lines) /\ Len(lines) \in Nat
      OBVIOUS
    <3>2. SubSeq(lines, 1, k) \in Seq(Line) /\ SubSeq(lines, 1, k - 1) \in Seq(Line)
      BY <3>1, SubSeqProperties
    <3>3. QED
      BY <3>2, CountNat
  <2>5. i \notin Doubled(lines) => c = lines[k].qty /\ b = 0 /\ c = Count(lines, i)
    BY CountUpTo, CountOne
  <2> HIDE DEF x, c, b
  <2>6. Counted(0) /\ \A m \in Nat : Counted(m)
    BY CheckoutAssumption DEF Counted
  <2>7. ItemPatch(set) /\ ("qty" \in DOMAIN set => Counted(set.qty))
    <3>1. CASE n > 0
      <4>1. n \in Nat /\ set = [qty |-> n]
        BY <2>3, <2>4, <3>1
      <4> HIDE DEF n, set
      <4>2. QED
        BY <2>6, <4>1 DEF ItemPatch
    <3>2. CASE ~(n > 0) /\ menu[i].qty > b
      BY <2>6, <3>2 DEF ItemPatch
    <3>3. CASE ~(n > 0) /\ ~(menu[i].qty > b)
      <4>1. DOMAIN set = {}
        BY <3>3
      <4>2. QED
        BY <4>1 DEF ItemPatch
    <3>4. QED
      BY <3>1, <3>2, <3>3
  <2>8. ASSUME i \notin Doubled(lines), menu[i].qty >= lines[k].qty
        PROVE  "qty" \in DOMAIN set /\ set.qty = menu[i].qty - Count(lines, i)
    <3>1. c = lines[k].qty /\ b = 0 /\ c = Count(lines, i)
      BY <2>5, <2>8
    <3>2. lines[k].qty \in Nat /\ lines[k].qty >= 1
      BY <1>2, CheckoutAssumption
    <3>3. n >= 0 /\ menu[i].qty > 0 /\ n \in Int
      BY <2>3, <2>8, <3>1, <3>2
    <3>4. CASE n > 0
      BY <3>1, <3>4
    <3>5. CASE ~(n > 0)
      <4>1. n = 0 /\ menu[i].qty > b
        BY <3>1, <3>3, <3>5
      <4>2. set = [qty |-> 0, inStock |-> FALSE]
        BY <3>5, <4>1
      <4>3. QED
        BY <3>1, <4>1, <4>2
    <3>6. QED
      BY <3>4, <3>5
  <2> HIDE DEF set
  <2>9. QED
    BY <2>2, <2>7, <2>8
<1>6. QED
  BY <1>2, <1>3, <1>5

\* What is decided once the lines are validated.
Decided(lines, id) ==
    <<Create(lines)>> \o (IF id = 0 THEN <<>> ELSE <<DropCart(id)>>) \o Sale(lines)

LEMMA SaleTodo ==
  ASSUME DataInv, NEW lines \in Seq(Line), NEW id, NEW on,
         Items(lines) \subseteq on, id # 0 => NoCart \in on
  PROVE  /\ IsList(Decided(lines, id)) /\ Len(Decided(lines, id)) > 0
         /\ Decided(lines, id)[1] = Create(lines)
         /\ \A j \in 1..Len(lines) : \E k \in 1..Len(Decided(lines, id)) :
               Decided(lines, id)[k] = Sale(lines)[j]
         /\ \A k \in 1..Len(Decided(lines, id)) : Decided(lines, id)[k].do = "item" =>
               \E j \in 1..Len(lines) : Decided(lines, id)[k] = Sale(lines)[j]
         /\ \A k \in 1..Len(Decided(lines, id)) :
               TaskInv("order", on, Decided(lines, id)[k])
         /\ Stage(Decided(lines, id))
<1> DEFINE drop == IF id = 0 THEN <<>> ELSE <<DropCart(id)>>
           sale == Sale(lines)
           head == <<Create(lines)>> \o drop
           s == head \o sale
           d == IF id = 0 THEN 1 ELSE 2
           S == {Create(lines), DropCart(id)} \cup {sale[k] : k \in 1..Len(lines)}
<1>1. DOMAIN lines = 1..Len(lines) /\ Len(lines) \in Nat
  OBVIOUS
<1>2. sale \in Seq(S) /\ Len(sale) = Len(lines)
  <2>1. sale = [k \in 1..Len(lines) |-> sale[k]]
    BY <1>1 DEF Sale
  <2>2. \A k \in 1..Len(lines) : sale[k] \in S
    OBVIOUS
  <2> HIDE DEF sale, S
  <2>3. [k \in 1..Len(lines) |-> sale[k]] \in Seq(S)
    BY <1>1, <2>2, IsASeq
  <2>4. sale \in Seq(S)
    BY <2>1, <2>3
  <2>5. DOMAIN sale = 1..Len(lines)
    BY <2>1
  <2>6. QED
    BY <1>1, <2>4, <2>5
<1>3. /\ <<Create(lines)>> \in Seq(S) /\ Len(<<Create(lines)>>) = 1
      /\ <<Create(lines)>>[1] = Create(lines)
      /\ <<>> \in Seq(S) /\ Len(<<>>) = 0
      /\ <<DropCart(id)>> \in Seq(S) /\ Len(<<DropCart(id)>>) = 1
      /\ <<DropCart(id)>>[1] = DropCart(id)
  OBVIOUS
<1> HIDE DEF S, sale
<1>4. /\ drop \in Seq(S) /\ Len(drop) = d - 1 /\ d \in 1..2
      /\ d = 2 => drop[1] = DropCart(id)
  BY <1>3
<1>5. /\ head \in Seq(S) /\ Len(head) = d /\ head[1] = Create(lines)
      /\ d = 2 => head[2] = DropCart(id)
  <2> HIDE DEF drop, d
  <2>1. /\ head \in Seq(S) /\ Len(head) = 1 + Len(drop)
        /\ \A k \in 1..1 + Len(drop) :
              head[k] = IF k <= 1 THEN <<Create(lines)>>[k] ELSE drop[k - 1]
    BY <1>3, <1>4, ConcatProperties
  <2> HIDE DEF head
  <2>2. Len(head) = d
    BY <1>4, <2>1
  <2>3. head[1] = <<Create(lines)>>[1]
    BY <1>4, <2>1
  <2>4. d = 2 => head[2] = drop[1]
    BY <1>4, <2>1
  <2>5. QED
    BY <1>3, <1>4, <2>1, <2>2, <2>3, <2>4
<1> HIDE DEF head
<1>6. /\ s \in Seq(S) /\ Len(s) = d + Len(lines)
      /\ \A k \in 1..d + Len(lines) : s[k] = IF k <= d THEN head[k] ELSE sale[k - d]
  <2> HIDE DEF d
  <2>1. head \in Seq(S) /\ sale \in Seq(S)
    BY <1>2, <1>5
  <2>2. /\ s \in Seq(S) /\ Len(s) = Len(head) + Len(sale)
        /\ \A k \in 1..Len(head) + Len(sale) :
              s[k] = IF k <= Len(head) THEN head[k] ELSE sale[k - Len(head)]
    BY <2>1, ConcatProperties, Zenon
  <2> HIDE DEF s
  <2>3. QED
    BY <1>2, <1>5, <2>2
<1>7. s = Decided(lines, id)
  BY DEF Decided, head, sale
<1> HIDE DEF s, d, drop
<1>8. s[1] = Create(lines) /\ (d = 2 => s[2] = DropCart(id))
  BY <1>1, <1>4, <1>5, <1>6
<1>9. ASSUME NEW k \in 1..Len(lines)
      PROVE  s[d + k] = sale[k]
  <2>1. d + k \in 1..d + Len(lines) /\ ~(d + k <= d) /\ (d + k) - d = k
    BY <1>1, <1>4
  <2>2. QED
    BY <1>6, <2>1
<1>10. \A k \in 1..Len(s) : k = 1 \/ (d = 2 /\ k = 2) \/ \E j \in 1..Len(lines) : k = d + j
  <2>1. ASSUME NEW k \in 1..Len(s), k > d
        PROVE  k - d \in 1..Len(lines) /\ k = d + (k - d)
    BY <1>1, <1>4, <1>6, <2>1
  <2>2. \A k \in 1..Len(s) : k > d \/ k = 1 \/ (d = 2 /\ k = 2)
    BY <1>4
  <2>3. QED
    BY <2>1, <2>2
<1>11. ASSUME NEW j \in 1..Len(lines)
       PROVE  TaskInv("order", on, sale[j]) /\ sale[j].do \in {"item", "skip"}
  <2>1. j \in DOMAIN lines /\ lines[j] \in Line
    BY <1>1
  <2>2. lines[j].item \in on /\ lines[j].item \in Item
    BY <2>1 DEF Items, Line
  <2>3. \/ sale[j] = Skip
        \/ /\ sale[j].do = "item" /\ sale[j].item = lines[j].item
           /\ ItemPatch(sale[j].set)
           /\ "qty" \in DOMAIN sale[j].set => Counted(sale[j].set.qty)
    BY <2>1, SaleOf DEF sale
  <2>4. CASE sale[j] = Skip
    BY <2>4 DEF Skip, TaskInv
  <2>5. CASE /\ sale[j].do = "item" /\ sale[j].item = lines[j].item
             /\ ItemPatch(sale[j].set)
             /\ "qty" \in DOMAIN sale[j].set => Counted(sale[j].set.qty)
    BY <2>2, <2>5 DEF TaskInv
  <2>6. QED
    BY <2>3, <2>4, <2>5
<1>12. /\ TaskInv("order", on, Create(lines)) /\ Create(lines).do = "create"
       /\ d = 2 => TaskInv("order", on, DropCart(id)) /\ DropCart(id).do = "drop"
  BY DEF TaskInv, Create, DropCart, d
<1>13. \A k \in 1..Len(s) : TaskInv("order", on, s[k])
  BY <1>8, <1>9, <1>10, <1>11, <1>12
<1>14. Stage(s)
  <2>1. \A k \in 2..Len(s) : s[k].do \in Sell
    <3>1. \A k \in 2..Len(s) : k \in 1..Len(s) /\ k # 1
      BY <1>1, <1>4, <1>6
    <3>2. QED
      BY <1>8, <1>9, <1>10, <1>11, <1>12, <3>1 DEF Sell
  <2>2. QED
    BY <1>8, <1>12, <2>1 DEF Stage
<1>15. IsList(s)
  BY <1>6, ListOf
<1>16. Len(s) > 0 /\ \A k \in 1..Len(lines) : d + k \in 1..Len(s)
  BY <1>1, <1>4, <1>6
<1>17. ASSUME NEW k \in 1..Len(s), s[k].do = "item"
       PROVE  \E j \in 1..Len(lines) : s[k] = sale[j]
  <2>1. ~(k = 1) /\ ~(d = 2 /\ k = 2)
    BY <1>8, <1>12, <1>17
  <2>2. PICK j \in 1..Len(lines) : k = d + j
    BY <1>10, <2>1
  <2>3. QED
    BY <1>9, <2>2
<1>18. QED
  BY <1>7, <1>1, <1>6, <1>8, <1>9, <1>13, <1>14, <1>15, <1>16, <1>17 DEF sale

\* The menu is read and the lines validated: the sale is decided.
LEMMA DoMenuKept ==
  ASSUME IInv, NEW a \in Actor, DoMenu(a)
  PROVE  IInv'
<1> DEFINE lines == Todo(a).lines
           id == Todo(a).cart
           more == Decided(lines, id)
<1>1. Busy(a) /\ Todo(a).do = "menu"
  BY StepBusy DEF DoMenu
<1>2. DataInv /\ RequestsInv /\ OneLinePerItem
  BY DEF IInv
<1>3. UNCHANGED <<menu, cart, carts, orders, hist>>
  BY DEF DoMenu
<1>4. \A i : ~Selling(a, i)
  BY <1>1, <1>2, NoSales
<1>5. CASE Refuse(a)
  <2>1. RequestsInv' /\ Others(a) /\ req'[a] = Idle
    BY <1>1, <1>2, <1>5, RefuseIs
  <2>2. QED
    BY <1>1, <1>2, <1>3, <1>4, <2>1, EndKept DEF DataInv
<1>6. CASE /\ \A k \in DOMAIN lines : Available(lines[k])
           /\ Continue(a, more)
  <2>1. TaskInv(req[a].op, req[a].on, Todo(a)) /\ req[a].op \in {"order", "cart", "edit"}
    BY <1>1, <1>2, RequestOf
  <2>2. /\ lines \in Seq(Line) /\ Items(lines) \subseteq req[a].on /\ req[a].op = "order"
        /\ id # 0 => NoCart \in req[a].on
    BY <1>1, <2>1 DEF TaskInv
  <2> HIDE DEF lines, id
  <2>3. /\ IsList(more) /\ Len(more) > 0
        /\ more[1] = Create(lines)
        /\ \A j \in 1..Len(lines) : \E k \in 1..Len(more) : more[k] = Sale(lines)[j]
        /\ \A k \in 1..Len(more) : more[k].do = "item" =>
              \E j \in 1..Len(lines) : more[k] = Sale(lines)[j]
        /\ \A k \in 1..Len(more) : TaskInv("order", req[a].on, more[k])
        /\ Stage(more)
    BY <1>2, <2>2, SaleTodo
  <2>4. Continue(a, more)
    BY <1>6
  <2>5. DOMAIN lines = 1..Len(lines) /\ \A k \in DOMAIN lines : lines[k] \in Line
    BY <2>2
  <2> HIDE DEF more
  <2>6. Tasks(req[a], more) /\ more # <<>>
    BY <2>2, <2>3 DEF Tasks
  <2>7. Resumes(a, more)
    BY <2>4 DEF Continue, Resumes
  <2>8. RequestsInv' /\ Others(a) /\ GoesOn(a, more)
    BY <1>1, <1>2, <2>6, <2>7, Continued
  <2>9. /\ req'[a] # Idle /\ req'[a].todo = more /\ req'[a].on = req[a].on
        /\ req'[a].op = "order"
    BY <2>2, <2>8 DEF GoesOn
  <2>10. Todo(a)' = Create(lines)
    <3>1. Head(more) = more[1]
      BY <2>3, RestOf
    <3>2. QED
      BY <2>3, <2>9, <3>1 DEF Todo
  <2>11. Todo(a)'.do = "create" /\ Todo(a)'.lines = lines
    BY <2>10 DEF Create
  <2>12. \A i : ~Selling(a, i)'
    BY <2>11 DEF Selling
  <2>13. /\ Rivalry' /\ StockInv'
         /\ \A c \in Actor \ {a} : SellClaim(c)' /\ BuyClaim(c)' /\ CartClaim(c)'
    BY <1>1, <1>3, <1>4, <2>8, <2>9, <2>12, CalmStep
  <2>14. ASSUME NEW i, NEW k \in Saves(more, i)
         PROVE  \E j \in DOMAIN lines :
                   lines[j].item = i /\ Counted(menu[i].qty) /\ more[k] = Sale(lines)[j]
    <3>1. k \in 1..Len(more) /\ more[k].do = "item" /\ more[k].item = i
      BY DEF Saves
    <3>2. PICK j \in 1..Len(lines) : more[k] = Sale(lines)[j]
      BY <2>3, <3>1
    <3>3. j \in DOMAIN lines
      BY <2>5
    <3>4. Counted(menu[lines[j].item].qty)
      BY <1>2, <2>2, <3>1, <3>2, <3>3, SaleOf DEF Skip
    <3>5. Sale(lines)[j].item = lines[j].item
      BY <1>2, <2>2, <3>3, <3>4, SaleOf
    <3>6. QED
      BY <3>1, <3>2, <3>3, <3>4, <3>5
  <2>15. SellClaim(a)'
    BY <1>3, <2>9, <2>14 DEF SellClaim, Saves, Counted
  <2>16. BuyClaim(a)'
    <3>1. ASSUME NEW i \in Item, Saves(more, i) # {}
          PROVE  i \in Items(lines)
      BY <2>14, <3>1 DEF Items
    <3>2. ASSUME NEW i \in Items(lines) \ Doubled(lines), menu[i].exists, Counted(menu[i].qty)
          PROVE  Saves(more, i) # {} /\ Leaves(more, i, menu[i].qty - Count(lines, i))
      <4>1. \A j \in DOMAIN lines : lines[j].item = i =>
               /\ Sale(lines)[j].do = "item" /\ Sale(lines)[j].item = i
               /\ "qty" \in DOMAIN Sale(lines)[j].set
               /\ Sale(lines)[j].set.qty = menu[i].qty - Count(lines, i)
        <5>1. ASSUME NEW j \in DOMAIN lines, lines[j].item = i
              PROVE  menu[i].qty >= lines[j].qty
          BY <1>6, <3>2, <5>1 DEF Available
        <5>2. QED
          BY <1>2, <2>2, <3>2, <5>1, SaleOf
      <4>2. PICK j \in DOMAIN lines : lines[j].item = i
        BY DEF Items
      <4>3. Saves(more, i) # {}
        BY <2>3, <2>5, <4>1, <4>2 DEF Saves
      <4>4. Leaves(more, i, menu[i].qty - Count(lines, i))
        BY <2>14, <4>1 DEF Leaves
      <4>5. QED
        BY <4>3, <4>4
    <3>3. QED
      BY <1>3, <2>9, <2>11, <3>1, <3>2 DEF BuyClaim, Saves, Leaves, Counted
  <2>17. CartClaim(a)'
    BY <2>11 DEF CartClaim
  <2>18. DataInv' /\ OneLinePerItem'
    BY <1>2, <1>3 DEF DataInv, OneLinePerItem
  <2>19. \A c \in Actor : SellClaim(c)' /\ BuyClaim(c)' /\ CartClaim(c)'
    BY <2>13, <2>15, <2>16, <2>17
  <2>20. QED
    BY <2>8, <2>13, <2>18, <2>19 DEF IInv
<1>7. QED
  BY <1>5, <1>6 DEF DoMenu, Decided

\* The order is placed: the account has what it will leave.
LEMMA DoCreateKept ==
  ASSUME IInv, NEW a \in Actor, DoCreate(a)
  PROVE  IInv'
<1> DEFINE lines == Todo(a).lines
           todo == req[a].todo
           rest == Tail(todo)
<1>1. Busy(a) /\ Todo(a).do = "create" /\ Todo(a).do \in Sell \cup {"create"}
  BY StepBusy DEF DoCreate
<1>2. /\ DataInv /\ RequestsInv /\ Rivalry /\ StockInv /\ OneLinePerItem
      /\ SellClaim(a) /\ BuyClaim(a)
  BY DEF IInv
<1>3. UNCHANGED <<menu, cart, carts>> /\ Done(a)
  BY DEF DoCreate
<1>4. /\ lines \in Seq(Line) /\ Items(lines) \subseteq req[a].on
      /\ req[a].op = "order" /\ req[a].wish \in Seq(Line)
      /\ IsList(todo) /\ Len(todo) > 0 /\ todo[1] = Todo(a)
  <2>1. /\ TaskInv(req[a].op, req[a].on, Todo(a)) /\ req[a].op \in {"order", "cart", "edit"}
        /\ req[a].wish \in Seq(Line) /\ Tasks(req[a], todo) /\ Todo(a) = todo[1]
    BY <1>1, <1>2, RequestOf
  <2>2. QED
    BY <1>1, <2>1 DEF TaskInv, Tasks
<1>5. Resumes(a, rest)
  BY <1>3, DoneResumes
<1>6. /\ RequestsInv' /\ Others(a) /\ req'[a].on \subseteq req[a].on
      /\ req'[a] = Idle => \A i : Saves(rest, i) = {}
      /\ req'[a] # Idle => Todo(a)'.do \in Sell /\ req'[a].op = "order" /\ req'[a].todo = rest
  BY <1>1, <1>2, <1>5, SellDone
<1>7. \A i : /\ Saves(rest, i) = {} <=> Saves(todo, i) = {}
             /\ \A n : Leaves(todo, i, n) => Leaves(rest, i, n)
  <2>1. todo[1].do # "item"
    BY <1>1, <1>4
  <2>2. QED
    BY <1>4, <2>1, SavesLeft
<1>8. hist' = [hist EXCEPT
         !.shelf = [i \in Item |-> IF Counted(@[i]) THEN @[i] - Count(lines, i) ELSE NoCount],
         !.raced = @ \cup Doubled(lines)]
  BY DEF DoCreate
<1> HIDE DEF lines
<1>9. /\ hist' = [crossed |-> hist'.crossed, uncleared |-> hist'.uncleared,
                  raced |-> hist'.raced, mixed |-> hist'.mixed, shelf |-> hist'.shelf]
      /\ hist'.crossed = hist.crossed /\ hist'.mixed = hist.mixed
      /\ hist'.raced = hist.raced \cup Doubled(lines)
      /\ hist'.shelf = [i \in Item |-> IF Counted(hist.shelf[i])
                                       THEN hist.shelf[i] - Count(lines, i) ELSE NoCount]
  BY <1>2, <1>8 DEF DataInv
<1> HIDE DEF todo, rest
<1>10. \A i : Count(lines, i) \in Nat
  BY <1>4, CountNat
<1>11. DataInv'
  <2>1. PICK o \in Order : orders' = [orders EXCEPT ![o] =
                     [lines |-> lines, wish |-> req[a].wish,
                      clean |-> ~Crossed(a) /\ a \notin hist.uncleared]]
    BY DEF DoCreate, lines
  <2>2. [lines |-> lines, wish |-> req[a].wish,
         clean |-> ~Crossed(a) /\ a \notin hist.uncleared] \in OrderDocs
    BY <1>4 DEF OrderDocs
  <2>3. /\ orders' = [p \in Order |-> orders'[p]]
        /\ \A p \in Order : orders'[p] # Free => orders'[p] \in OrderDocs
    BY <1>2, <2>1, <2>2 DEF DataInv
  <2>4. hist'.shelf \in [Item -> Int \cup {NoCount}]
    <3>1. \A i \in Item : hist.shelf[i] \in Int \cup {NoCount}
      BY <1>2 DEF DataInv
    <3>2. \A i \in Item : Counted(hist.shelf[i]) => hist.shelf[i] - Count(lines, i) \in Int
      BY <1>10, <3>1 DEF Counted
    <3>3. QED
      BY <1>9, <3>2
  <2>5. QED
    BY <1>2, <1>3, <1>9, <2>3, <2>4 DEF DataInv
<1>12. Rivalry'
  BY <1>1, <1>2, <1>6, <1>9, RivalryKept
<1>13. ASSUME NEW c \in Actor \ {a}
       PROVE  SellClaim(c)' /\ BuyClaim(c)' /\ CartClaim(c)'
  <2>1. SellClaim(c) /\ BuyClaim(c) /\ CartClaim(c)
    BY DEF IInv
  <2>2. req'[c] = req[c]
    BY <1>6 DEF Others
  <2>3. QED
    BY <1>2, <1>3, <1>9, <2>1, <2>2, OthersKept
<1>14. SellClaim(a)'
  <2>1. Resumes(a, Tail(req[a].todo))
    BY <1>5 DEF rest, todo
  <2>2. QED
    BY <1>1, <1>2, <1>3, <1>9, <2>1, SellClaimLeft
<1>15. BuyClaim(a)' /\ CartClaim(a)'
  BY <1>6 DEF BuyClaim, CartClaim, Alone, Busy, Sell
<1>16. OneLinePerItem'
  BY <1>2, <1>3, <1>9 DEF OneLinePerItem
<1>17. \A i : Selling(a, i)' <=> Saves(todo, i) # {}
  <2>1. CASE req'[a] = Idle
    BY <1>6, <1>7, <2>1 DEF Selling, Busy
  <2>2. CASE req'[a] # Idle
    <3>1. \A i : Selling(a, i)' <=> Saves(rest, i) # {}
      BY <1>6, <2>2 DEF Selling, Busy, Sell, Saves
    <3>2. QED
      BY <1>7, <3>1
  <2>3. QED
    BY <2>1, <2>2
<1>18. \A i : ~Selling(a, i)
  BY <1>1 DEF Selling
<1>19. \A c \in Actor \ {a}, i \in Item : Selling(c, i)' <=> Selling(c, i)
  BY <1>6, SameSelling DEF Others
<1>20. ASSUME NEW i \in Item \ hist'.raced
       PROVE  StockOf(i)'
  <2>1. i \notin hist.raced /\ i \notin Doubled(lines) /\ StockOf(i)
    BY <1>2, <1>9 DEF StockInv
  <2>2. SUFFICES ASSUME menu[i].exists, Counted(menu[i].qty)
                 PROVE  StockOf(i)'
    BY <1>3 DEF StockOf, Counted
  <2>3. menu[i].qty \in Nat
    BY <1>2, <2>2 DEF DataInv, ItemDocs, Counted
  <2>4. CASE i \notin Items(lines)
    <3>1. Count(lines, i) = 0
      BY <1>4, <2>4, CountNone
    <3>2. hist'.shelf[i] = hist.shelf[i]
      BY <1>2, <1>9, <3>1 DEF DataInv, Counted
    <3>3. ~Selling(a, i)'
      BY <1>1, <1>2, <1>17, <2>4 DEF BuyClaim, lines, todo
    <3>4. \A c \in Actor : Selling(c, i)' <=> Selling(c, i)
      BY <1>18, <1>19, <3>3
    <3>5. ASSUME NEW c \in Actor, Selling(c, i)
          PROVE  /\ c \in hist.crossed => c \in hist'.crossed
                 /\ \A n : Leaves(req[c].todo, i, n) => Leaves(req'[c].todo, i, n)
      BY <1>6, <1>9, <1>18, <3>5 DEF Others
    <3>6. QED
      BY <1>3, <2>1, <3>2, <3>4, <3>5, StockOfKept
  <2>5. CASE i \in Items(lines)
    <3>1. /\ Saves(todo, i) # {}
          /\ a \notin hist.crossed => Leaves(todo, i, menu[i].qty - Count(lines, i))
      BY <1>1, <1>2, <2>1, <2>2, <2>5 DEF BuyClaim, lines, todo
    <3>2. Selling(a, i)' /\ req'[a] # Idle /\ req'[a].todo = rest
      BY <1>6, <1>17, <3>1 DEF Selling, Busy
    <3>3. CASE a \in hist.crossed
      <4>1. \E c \in Actor \cap hist'.crossed : Selling(c, i)'
        BY <1>9, <3>2, <3>3
      <4>2. QED
        BY <4>1 DEF StockOf
    <3>4. CASE a \notin hist.crossed
      <4>1. ASSUME NEW c \in Actor, c # a
            PROVE  ~Selling(c, i)
        <5>1. i \in req[a].on
          BY <1>4, <2>5
        <5>2. Selling(c, i) => Busy(c) /\ i \in req[c].on
          BY <1>2, SellingOn DEF Selling
        <5>3. QED
          BY <1>1, <1>2, <3>4, <4>1, <5>1, <5>2 DEF Rivalry
      <4>2. \A c \in Actor : ~Selling(c, i)
        BY <1>18, <4>1
      <4>3. menu[i].qty = hist.shelf[i]
        BY <2>1, <2>2, <4>2 DEF StockOf
      <4>4. hist'.shelf[i] = menu[i].qty - Count(lines, i)
        BY <1>9, <2>2, <4>3
      <4>5. Leaves(rest, i, hist'.shelf[i])
        BY <1>7, <3>1, <3>4, <4>4
      <4>6. \E c \in Actor \ hist'.crossed :
                Selling(c, i)' /\ Leaves(req'[c].todo, i, hist'.shelf[i])
        BY <1>9, <3>2, <3>4, <4>5
      <4>7. QED
        BY <4>6 DEF StockOf, Leaves, Saves
    <3>5. QED
      BY <3>3, <3>4
  <2>6. QED
    BY <2>4, <2>5
<1>21. StockInv'
  BY <1>20 DEF StockInv
<1>22. \A c \in Actor : SellClaim(c)' /\ BuyClaim(c)' /\ CartClaim(c)'
  BY <1>13, <1>14, <1>15
<1>23. QED
  BY <1>6, <1>11, <1>12, <1>16, <1>21, <1>22 DEF IInv

\* A menu item is saved, for a sale or by the staff.
LEMMA DoItemKept ==
  ASSUME IInv, NEW a \in Actor, DoItem(a)
  PROVE  IInv'
<1>1. PICK i : i = Todo(a).item
  OBVIOUS
<1> DEFINE set == Todo(a).set
           to == [f \in DOMAIN menu[i] |-> IF f \in DOMAIN set THEN set[f] ELSE menu[i][f]]
           restock == req[a].op = "edit" /\ "qty" \in DOMAIN set
           todo == req[a].todo
           rest == Tail(todo)
<1>2. Busy(a) /\ Todo(a).do = "item" /\ Todo(a).do \in Sell
  BY StepBusy DEF DoItem, Sell
<1>3. /\ DataInv /\ RequestsInv /\ Rivalry /\ StockInv /\ OneLinePerItem /\ SellClaim(a)
  BY DEF IInv
<1>4. UNCHANGED <<cart, carts, orders>>
  BY DEF DoItem
<1>5. /\ TaskInv(req[a].op, req[a].on, Todo(a)) /\ req[a].op \in {"order", "cart", "edit"}
      /\ IsList(todo) /\ Len(todo) > 0 /\ todo[1] = Todo(a) /\ Len(todo) \in Nat
      /\ req[a].op # "order" => Len(todo) = 1
  BY <1>2, <1>3, RequestOf DEF Tasks
<1>6. /\ i \in Item /\ i \in req[a].on /\ ItemPatch(set) /\ req[a].op \in {"order", "edit"}
      /\ req[a].op = "order" /\ "qty" \in DOMAIN set => Counted(set.qty)
  BY <1>1, <1>2, <1>5 DEF TaskInv
<1>7. CASE ~menu[i].exists
  <2>1. hist' = [hist EXCEPT !.raced = @ \cup req[a].on] /\ Refuse(a) /\ UNCHANGED menu
    BY <1>1, <1>7 DEF DoItem
  <2>2. /\ hist' = [crossed |-> hist'.crossed, uncleared |-> hist'.uncleared,
                    raced |-> hist'.raced, mixed |-> hist'.mixed, shelf |-> hist'.shelf]
        /\ hist'.crossed = hist.crossed /\ hist'.mixed = hist.mixed /\ hist'.shelf = hist.shelf
        /\ hist'.raced = hist.raced \cup req[a].on
    BY <1>3, <2>1 DEF DataInv
  <2>3. RequestsInv' /\ Others(a) /\ req'[a] = Idle
    BY <1>2, <1>3, <2>1, RefuseIs
  <2>4. \A j \in Item \ hist'.raced : ~Selling(a, j)
    BY <1>3, <2>2, SellingOn
  <2>5. QED
    BY <1>2, <1>4, <2>1, <2>2, <2>3, <2>4, EndKept
<1>8. CASE menu[i].exists
  <2>1. /\ menu' = [menu EXCEPT ![i] = to] /\ Done(a)
        /\ hist' = [hist EXCEPT
             !.raced = IF Crossed(a) THEN @ \cup {i} ELSE IF restock THEN @ \ {i} ELSE @,
             !.shelf[i] = IF restock THEN to.qty ELSE @]
    BY <1>1, <1>8 DEF DoItem
  <2>2. /\ menu[i] \in ItemDocs /\ DOMAIN menu[i] = {"exists", "active", "inStock", "qty"}
        /\ menu[i].qty \in Nat \cup {NoCount}
    BY <1>3, <1>6 DEF DataInv, ItemDocs
  <2>3. /\ to \in ItemDocs
        /\ "qty" \in DOMAIN set => to.qty = set.qty
        /\ "qty" \notin DOMAIN set => to.qty = menu[i].qty
    <3>1. to = [f \in {"exists", "active", "inStock", "qty"} |->
                   IF f \in DOMAIN set THEN set[f] ELSE menu[i][f]]
      BY <2>2
    <3>2. /\ to.exists = IF "exists" \in DOMAIN set THEN set.exists ELSE menu[i].exists
          /\ to.active = IF "active" \in DOMAIN set THEN set.active ELSE menu[i].active
          /\ to.inStock = IF "inStock" \in DOMAIN set THEN set.inStock ELSE menu[i].inStock
          /\ to.qty = IF "qty" \in DOMAIN set THEN set.qty ELSE menu[i].qty
      BY <3>1
    <3>3. to = [exists |-> to.exists, active |-> to.active, inStock |-> to.inStock, qty |-> to.qty]
      BY <3>1
    <3> HIDE DEF to
    <3>4. /\ to.exists \in BOOLEAN /\ to.active \in BOOLEAN /\ to.inStock \in BOOLEAN
          /\ to.qty \in Nat \cup {NoCount}
      BY <1>6, <2>2, <3>2 DEF ItemPatch, ItemDocs
    <3>5. to \in ItemDocs
      BY <3>3, <3>4 DEF ItemDocs
    <3>6. QED
      BY <3>2, <3>5
  <2> HIDE DEF to, restock
  <2>4. menu'[i] = to /\ \A j \in Item \ {i} : menu'[j] = menu[j]
    BY <1>3, <1>6, <2>1 DEF DataInv
  <2>5. /\ hist' = [crossed |-> hist'.crossed, uncleared |-> hist'.uncleared,
                    raced |-> hist'.raced, mixed |-> hist'.mixed, shelf |-> hist'.shelf]
        /\ hist'.crossed = hist.crossed /\ hist'.mixed = hist.mixed
        /\ hist'.raced = IF a \in hist.crossed THEN hist.raced \cup {i}
                         ELSE IF restock THEN hist.raced \ {i} ELSE hist.raced
        /\ hist'.shelf = [hist.shelf EXCEPT ![i] = IF restock THEN to.qty ELSE @]
    BY <1>3, <2>1 DEF DataInv, Crossed
  <2>6. /\ hist'.shelf[i] = IF restock THEN to.qty ELSE hist.shelf[i]
        /\ \A j \in Item \ {i} : hist'.shelf[j] = hist.shelf[j]
        /\ hist'.shelf \in [Item -> Int \cup {NoCount}]
    <3>1. hist.shelf \in [Item -> Int \cup {NoCount}]
      BY <1>3 DEF DataInv
    <3>2. to.qty \in Int \cup {NoCount}
      BY <2>3 DEF ItemDocs
    <3>3. QED
      BY <1>6, <2>5, <3>1, <3>2
  <2>7. Resumes(a, rest)
    BY <2>1, DoneResumes
  <2>8. /\ RequestsInv' /\ Others(a) /\ req'[a].on \subseteq req[a].on
        /\ req'[a] = Idle => \A j : Saves(rest, j) = {}
        /\ req'[a] # Idle => Todo(a)'.do \in Sell /\ req'[a].op = "order" /\ req[a].op = "order"
                             /\ req'[a].todo = rest
    BY <1>2, <1>3, <2>7, SellDone
  <2>9. DataInv'
    <3>1. menu' \in [Item -> ItemDocs]
      BY <1>3, <2>1, <2>3 DEF DataInv
    <3>2. QED
      BY <1>3, <1>4, <2>5, <2>6, <3>1 DEF DataInv
  <2>10. Rivalry'
    BY <1>2, <1>3, <2>5, <2>8, RivalryKept
  <2>11. ASSUME NEW c \in Actor \ {a}, i \in req[c].on
         PROVE  a \in hist.crossed /\ c \in hist.crossed
    <3>1. Busy(c)
      BY <2>11 DEF Busy, Idle
    <3>2. QED
      BY <1>2, <1>3, <1>6, <2>11, <3>1 DEF Rivalry
  <2>12. ASSUME NEW c \in Actor \ {a}
         PROVE  SellClaim(c)' /\ BuyClaim(c)' /\ CartClaim(c)'
    <3>1. SellClaim(c) /\ BuyClaim(c) /\ CartClaim(c)
      BY DEF IInv
    <3>2. req'[c] = req[c]
      BY <2>8 DEF Others
    <3>3. ASSUME NEW j \in Item \cap req[c].on
          PROVE  /\ menu'[j] = menu[j] \/ (j \in hist'.raced /\ c \in hist'.crossed)
                 /\ j \in hist.raced => j \in hist'.raced
      <4>1. CASE j = i
        BY <2>5, <2>11, <4>1
      <4>2. CASE j # i
        BY <2>4, <2>5, <4>2
      <4>3. QED
        BY <4>1, <4>2
    <3>4. QED
      BY <1>3, <1>4, <2>5, <3>1, <3>2, <3>3, OthersKept
  <2>13. ASSUME a \notin hist.crossed, req[a].op = "order", NEW j \in Item, Counted(menu[j].qty)
         PROVE  Counted(menu'[j].qty)
    <3>1. CASE j # i
      BY <2>4, <2>13, <3>1
    <3>2. CASE j = i
      BY <1>6, <2>3, <2>4, <2>13, <3>2
    <3>3. QED
      BY <3>1, <3>2
  <2>14. SellClaim(a)'
    <3>1. Todo(a).do \in Sell \cup {"create"}
      BY <1>2
    <3>2. QED
      BY <1>2, <1>3, <2>5, <2>7, <2>13, <3>1, SellClaimLeft
  <2>15. BuyClaim(a)' /\ CartClaim(a)'
    BY <2>8 DEF BuyClaim, CartClaim, Alone, Busy, Sell
  <2>16. OneLinePerItem'
    BY <1>3, <1>4, <2>5 DEF OneLinePerItem
  <2>17. ASSUME NEW j \in Item \ hist'.raced, j # i
         PROVE  StockOf(j)'
    <3>1. StockOf(j)
      BY <1>3, <2>5, <2>17 DEF StockInv
    <3>2. /\ Selling(a, j)' <=> Selling(a, j)
          /\ Selling(a, j) => \A n : Leaves(req[a].todo, j, n) => Leaves(req'[a].todo, j, n)
      BY <1>1, <1>2, <1>3, <2>7, <2>17, SellingLeft
    <3>3. \A c \in Actor : Selling(c, j)' <=> Selling(c, j)
      BY <2>8, <3>2, SameSelling DEF Others
    <3>4. ASSUME NEW c \in Actor, Selling(c, j)
          PROVE  /\ c \in hist.crossed => c \in hist'.crossed
                 /\ \A n : Leaves(req[c].todo, j, n) => Leaves(req'[c].todo, j, n)
      BY <2>5, <2>8, <3>2, <3>4 DEF Others
    <3>5. menu'[j] = menu[j] /\ hist'.shelf[j] = hist.shelf[j]
      BY <2>4, <2>6, <2>17
    <3>6. QED
      BY <3>1, <3>3, <3>4, <3>5, StockOfKept
  <2>18. ASSUME i \notin hist'.raced
         PROVE  StockOf(i)'
    <3>1. a \notin hist.crossed
      BY <2>5, <2>18
    <3>2. ASSUME NEW c \in Actor \ {a}
          PROVE  ~Selling(c, i) /\ ~Selling(c, i)'
      <4>1. i \notin req[c].on
        BY <2>11, <3>1
      <4>2. ~Selling(c, i)
        BY <1>3, <4>1, SellingOn
      <4>3. QED
        BY <2>8, <4>2, SameSelling DEF Others
    <3>3. CASE menu'[i].qty = hist'.shelf[i] /\ ~Selling(a, i)'
      <4>1. \A c \in Actor : ~Selling(c, i)'
        BY <3>2, <3>3
      <4>2. QED
        BY <3>3, <4>1 DEF StockOf
    <3>4. CASE req[a].op = "edit"
      <4>1. ~Selling(a, i) /\ ~Selling(a, i)'
        BY <2>8, <3>4 DEF Selling, Busy
      <4>2. CASE restock
        BY <2>4, <2>6, <3>3, <4>1, <4>2
      <4>3. CASE ~restock
        <5>1. "qty" \notin DOMAIN set /\ i \notin hist.raced
          BY <2>5, <2>18, <3>1, <3>4, <4>3 DEF restock
        <5>2. menu'[i].qty = menu[i].qty /\ hist'.shelf[i] = hist.shelf[i]
          BY <2>3, <2>4, <2>6, <4>3, <5>1
        <5>3. Counted(menu[i].qty) => menu[i].qty = hist.shelf[i]
          <6>1. StockOf(i)
            BY <1>3, <1>6, <5>1 DEF StockInv
          <6>2. \A c \in Actor : ~Selling(c, i)
            BY <3>2, <4>1
          <6>3. QED
            BY <1>8, <6>1, <6>2 DEF StockOf
        <5>4. CASE Counted(menu[i].qty)
          BY <3>3, <4>1, <5>2, <5>3, <5>4
        <5>5. CASE ~Counted(menu[i].qty)
          BY <5>2, <5>5 DEF StockOf, Counted
        <5>6. QED
          BY <5>4, <5>5
      <4>4. QED
        BY <4>2, <4>3
    <3>5. CASE req[a].op = "order"
      <4>1. ~restock /\ i \notin hist.raced /\ hist'.shelf[i] = hist.shelf[i]
        BY <2>5, <2>6, <2>18, <3>1, <3>5 DEF restock
      <4>2. 1 \in Saves(todo, i)
        BY <1>1, <1>2, <1>5 DEF Saves
      <4>3. Selling(a, i)
        BY <1>2, <3>5, <4>2 DEF Selling
      <4>4. Counted(menu[i].qty)
        BY <1>2, <1>3, <1>6, <3>1, <3>5, <4>2 DEF SellClaim, Alone
      <4>5. Leaves(todo, i, hist.shelf[i])
        <5>1. StockOf(i)
          BY <1>3, <1>6, <4>1 DEF StockInv
        <5>2. \E c \in Actor \ hist.crossed :
                 Selling(c, i) /\ Leaves(req[c].todo, i, hist.shelf[i])
          BY <1>8, <3>1, <3>2, <4>3, <4>4, <5>1 DEF StockOf
        <5>3. QED
          BY <3>2, <5>2
      <4>6. menu'[i].qty = hist'.shelf[i]
        <5>1. "qty" \in DOMAIN set /\ set.qty = hist.shelf[i]
          BY <1>5, <4>2, <4>5 DEF Leaves
        <5>2. QED
          BY <2>3, <2>4, <4>1, <5>1
      <4>7. CASE ~Selling(a, i)'
        BY <3>3, <4>6, <4>7
      <4>8. CASE Selling(a, i)'
        <5>1. req'[a].todo = rest
          BY <2>8, <4>8 DEF Selling, Busy
        <5>2. Leaves(rest, i, hist.shelf[i])
          BY <1>5, <4>5, SavesLeft
        <5>3. \E c \in Actor \ hist'.crossed :
                 Selling(c, i)' /\ Leaves(req'[c].todo, i, hist'.shelf[i])
          BY <2>5, <3>1, <4>1, <4>8, <5>1, <5>2
        <5>4. QED
          BY <5>3 DEF StockOf, Leaves, Saves
      <4>9. QED
        BY <4>7, <4>8
    <3>6. QED
      BY <1>6, <3>4, <3>5
  <2>19. StockInv'
    BY <2>17, <2>18 DEF StockInv
  <2>20. \A c \in Actor : SellClaim(c)' /\ BuyClaim(c)' /\ CartClaim(c)'
    BY <2>12, <2>14, <2>15
  <2>21. QED
    BY <2>8, <2>9, <2>10, <2>16, <2>19, <2>20 DEF IInv
<1>9. menu[i].exists \in BOOLEAN
  BY <1>3, <1>6 DEF DataInv, ItemDocs
<1>10. QED
  BY <1>7, <1>8

-----------------------------------------------------------------------------
(* The invariant and what follows from it.                                  *)

LEMMA InitInv == Init => IInv
<1> SUFFICES ASSUME Init
             PROVE  IInv
  OBVIOUS
<1>1. \A a \in Actor : req[a] = Idle
  BY DEF Init
<1>2. \A i \in Item : Stock[i] \in Nat \cup {NoCount}
  BY CheckoutAssumption
<1>3. DataInv
  <2>1. menu \in [Item -> ItemDocs]
    BY <1>2 DEF Init, ItemDocs
  <2>2. \A i \in Item : menu[i].qty \in Int \cup {NoCount}
    BY <1>2 DEF Init
  <2>3. QED
    BY <2>1, <2>2 DEF Init, NoHistory, DataInv
<1>4. RequestsInv
  BY <1>1 DEF Init, RequestsInv, RequestInv
<1>5. Rivalry
  BY <1>1 DEF Rivalry, Busy
<1>6. StockInv
  BY <1>1 DEF Init, NoHistory, StockInv, StockOf, Selling, Busy
<1>7. OneLinePerItem
  BY DEF Init, OneLinePerItem
<1>8. \A a \in Actor : SellClaim(a) /\ BuyClaim(a) /\ CartClaim(a)
  BY <1>1 DEF SellClaim, BuyClaim, CartClaim, Alone, Busy
<1>9. QED
  BY <1>3, <1>4, <1>5, <1>6, <1>7, <1>8 DEF IInv

LEMMA IdleKept ==
  ASSUME IInv, UNCHANGED vars
  PROVE  IInv'
<1>1. UNCHANGED <<menu, cart, carts, orders, req, hist>>
  BY DEF vars
<1>2. \A c : Todo(c)' = Todo(c) /\ (Busy(c)' <=> Busy(c)) /\ (Alone(c)' <=> Alone(c))
  BY <1>1 DEF Todo, Busy, Alone
<1>3. \A c, i : Selling(c, i)' <=> Selling(c, i)
  BY <1>1 DEF Selling, Busy, Todo, Saves
<1>4. DataInv' /\ RequestsInv' /\ Rivalry' /\ OneLinePerItem'
  BY <1>1, <1>2 DEF IInv, DataInv, RequestsInv, Rivalry, OneLinePerItem
<1>5. StockInv'
  BY <1>1, <1>3 DEF IInv, StockInv, StockOf, Counted, Leaves, Saves
<1>6. \A c \in Actor : SellClaim(c)' /\ BuyClaim(c)' /\ CartClaim(c)'
  BY <1>1, <1>2 DEF IInv, SellClaim, BuyClaim, CartClaim, Saves, Leaves, Counted, Items, Distinct
<1>7. QED
  BY <1>4, <1>5, <1>6 DEF IInv

LEMMA StepKept ==
  ASSUME IInv, [Next]_vars
  PROVE  IInv'
<1>1. ASSUME NEW a \in Tab, NEW w \in Wishes, PlaceOrder(a, w)
      PROVE  IInv'
  BY <1>1, PlaceOrderKept
<1>2. ASSUME NEW a \in Tab, NEW i \in Item, NEW n \in 0..LineLimit, UpdateItem(a, i, n)
      PROVE  IInv'
  BY <1>2, UpdateItemKept
<1>3. ASSUME NEW a \in GuestTab, NEW w \in Wishes, PlaceGuestOrder(a, w)
      PROVE  IInv'
  BY <1>3, PlaceGuestOrderKept
<1>4. ASSUME NEW a \in Staff, NEW i \in Item, StaffRequests(a, i)
      PROVE  IInv'
  BY <1>4, StaffKept
<1>5. ASSUME NEW a \in Actor, Steps(a)
      PROVE  IInv'
  BY <1>5, DoClearKept, ClearLostKept, DoAddKept, DoNewCartKept, DoPushKept, DoLineKept,
     DoReplaceKept, DoCheckoutKept, DoMenuKept, RefusedKept, DoCreateKept, DoDropKept,
     DoItemKept, DoSkipKept, DiesKept DEF Steps
<1>6. CASE UNCHANGED vars
  BY <1>6, IdleKept
<1>7. QED
  BY <1>1, <1>2, <1>3, <1>4, <1>5, <1>6 DEF Next

\* The invariant of the basket, the cart, the menu and the requests.
THEOREM CheckoutInvariant == Spec => []IInv
BY InitInv, StepKept, PTL DEF Spec

\* Carts have the shape of their schema and one line per item, unless requests
\* that overlapped saved them: addItem of cart.service.ts looks for the line of
\* the item, and the versions and the push of Mongoose keep what it found true.
THEOREM CartsInOrder == Spec => []CartInv
<1>1. IInv => CartInv
  <2>1. SUFFICES ASSUME IInv
                 PROVE  TypeOK /\ OneLinePerItem
    BY DEF CartInv
  <2>2. DataInv /\ OneLinePerItem
    BY <2>1 DEF IInv
  <2>3. menu \in [Item -> [exists : BOOLEAN, active : BOOLEAN, inStock : BOOLEAN,
                           qty : Nat \cup {NoCount}]]
    BY <2>2 DEF DataInv, ItemDocs
  <2>4. cart # NoCart => /\ cart.id \in 1..carts
                         /\ \A k \in DOMAIN cart.lines : cart.lines[k] \in Line
    BY <2>2 DEF DataInv, CartDocs
  <2>5. ASSUME NEW o \in Order, orders[o] # Free
        PROVE  \A k \in DOMAIN orders[o].lines : orders[o].lines[k] \in Line
    <3>1. orders[o].lines \in Seq(Line)
      BY <2>2, <2>5 DEF DataInv, OrderDocs
    <3>2. QED
      BY <3>1
  <2>6. QED
    BY <2>2, <2>3, <2>4, <2>5 DEF TypeOK
<1>2. QED
  BY <1>1, CheckoutInvariant, PTL

\* Nothing is oversold: once no request is about a counted item, its quantity
\* is what the staff put there less what the orders took, unless requests that
\* overlapped, died or failed raced it (checkout of order.service.ts).
THEOREM StockIsAccounted == Spec => []StockAccounted
<1>1. IInv => StockAccounted
  <2>1. SUFFICES ASSUME IInv, NEW i \in Item \ hist.raced, menu[i].exists,
                        Counted(menu[i].qty), \A a \in Actor : i \notin req[a].on
                 PROVE  menu[i].qty = hist.shelf[i]
    BY DEF StockAccounted
  <2>2. \A a \in Actor : ~Selling(a, i)
    BY <2>1, SellingOn DEF IInv
  <2>3. QED
    BY <2>1, <2>2 DEF IInv, StockInv, StockOf
<1>2. QED
  BY <1>1, CheckoutInvariant, PTL

-----------------------------------------------------------------------------
(* A basket that fills the cart.                                            *)

LEMMA FillFirst ==
  ASSUME NEW w \in Seq(Line), NEW doc
  PROVE  Filling(w, SyncServerCart(w) \o <<PlaceCart>>, doc)
<1> DEFINE s == SyncServerCart(w) \o <<PlaceCart>>
<1>1. /\ IsList(s) /\ Len(s) = Len(w) + 2 /\ Len(w) \in Nat
      /\ s[1] = Clear /\ s[Len(w) + 2] = PlaceCart
      /\ \A k \in 2..Len(w) + 1 : s[k] = Add(w[k - 1]) /\ w[k - 1] \in Line
  BY BasketTodo
<1> HIDE DEF s
<1>2. s[1].do = "clear"
  BY <1>1 DEF Clear
<1>3. \A p \in 2..Len(s) - 1 : s[p] = Add(w[p + Len(w) + 1 - Len(s)])
  <2>1. ASSUME NEW p \in 2..Len(s) - 1
        PROVE  p \in 2..Len(w) + 1 /\ p + Len(w) + 1 - Len(s) = p - 1
    BY <1>1
  <2>2. QED
    BY <1>1, <2>1
<1>4. Filling(w, s, doc)
  BY <1>1, <1>2, <1>3 DEF Filling
<1>5. QED
  BY <1>4 DEF s

LEMMA FillNext ==
  ASSUME NEW w \in Seq(Line), NEW s, IsList(s), Len(s) > 1, NEW doc, NEW new,
         Filling(w, s, doc), CartHas(Len(w) + 2 - Len(s), w, new)
  PROVE  Filling(w, Tail(s), new)
<1> DEFINE t == Tail(s)
<1> SUFFICES Filling(w, t, new)
  OBVIOUS
<1>1. /\ IsList(t) /\ Len(t) = Len(s) - 1 /\ \A k \in 1..Len(s) - 1 : t[k] = s[k + 1]
      /\ Len(s) \in Nat /\ Len(w) \in Nat
  BY RestOf DEF IsList
<1> HIDE DEF t
<1>2. /\ Len(s) <= Len(w) + 2 /\ s[Len(s)] = PlaceCart
      /\ \A p \in 2..Len(s) - 1 : s[p] = Add(w[p + Len(w) + 1 - Len(s)])
  BY DEF Filling
<1>3. Len(t) <= Len(w) + 1 /\ Len(t) # Len(w) + 2 /\ Len(t) <= Len(w) + 2 /\ Len(t) \in Nat
  BY <1>1, <1>2
<1>4. ASSUME NEW p \in 2..Len(t) - 1
      PROVE  t[p] = Add(w[p + Len(w) + 1 - Len(t)])
  <2>1. /\ p + 1 \in 2..Len(s) - 1 /\ p \in 1..Len(s) - 1
        /\ p + 1 + Len(w) + 1 - Len(s) = p + Len(w) + 1 - Len(t)
    BY <1>1
  <2>2. QED
    BY <1>1, <1>2, <2>1
<1>5. CartHas(Len(w) + 1 - Len(t), w, new)
  <2>1. Len(w) + 1 - Len(t) = Len(w) + 2 - Len(s)
    BY <1>1
  <2>2. QED
    BY <2>1
<1>6. t[1] = s[2]
  BY <1>1
<1>7. PlaceCart.do = "checkout"
  BY DEF PlaceCart
<1>8. CASE Len(s) = 2
  <2>1. Len(t) = 1 /\ t[1] = PlaceCart
    BY <1>1, <1>2, <1>6, <1>8
  <2>2. QED
    BY <1>3, <1>4, <1>5, <1>7, <2>1 DEF Filling
<1>9. CASE Len(s) > 2
  <2>1. /\ Len(t) > 1 /\ t[Len(t)] = s[Len(s)] /\ 2 \in 2..Len(s) - 1
        /\ 2 + Len(w) + 1 - Len(s) = Len(w) + 2 - Len(t)
    BY <1>1, <1>9
  <2>2. t[1] = Add(w[Len(w) + 2 - Len(t)])
    BY <1>2, <1>6, <2>1
  <2>3. t[1].do = "add" /\ t[1].line = w[Len(w) + 2 - Len(t)]
    BY <2>2 DEF Add
  <2>4. QED
    BY <1>2, <1>3, <1>4, <1>5, <2>1, <2>3 DEF Filling
<1>10. Len(s) = 2 \/ Len(s) > 2
  BY <1>1
<1>11. QED
  BY <1>8, <1>9, <1>10

LEMMA FillSame ==
  ASSUME NEW w \in Seq(Line), NEW s, IsList(s), Len(s) > 0, NEW doc, NEW x,
         Filling(w, s, doc), s[1].do = "add", x.do \in {"new", "push"}, x.line = s[1].line,
         x.do = "push" => doc # NoCart /\ x.cart = doc.id
  PROVE  Filling(w, <<x>> \o Tail(s), doc)
<1> DEFINE t == <<x>> \o Tail(s)
<1>1. /\ IsList(t) /\ Len(t) = Len(s) /\ Len(s) \in Nat /\ Len(w) \in Nat
      /\ \A k \in 1..Len(s) : t[k] = IF k = 1 THEN x ELSE s[k]
  BY Instead1 DEF IsList
<1> HIDE DEF t
<1>2. t[1] = x /\ \A k \in 2..Len(s) : t[k] = s[k]
  BY <1>1
<1>3. \A p \in 2..Len(t) - 1 : t[p] = Add(w[p + Len(w) + 1 - Len(t)])
  <2>1. \A p \in 2..Len(t) - 1 : p \in 2..Len(s) /\ p \in 2..Len(s) - 1
    BY <1>1
  <2>2. QED
    BY <1>1, <1>2, <2>1 DEF Filling
<1>4. Len(t) > 1 => t[Len(t)] = PlaceCart
  <2>1. Len(s) > 1 => Len(s) \in 2..Len(s)
    BY <1>1
  <2>2. QED
    BY <1>1, <1>2, <2>1 DEF Filling
<1>5. Filling(w, t, doc)
  BY <1>1, <1>2, <1>3, <1>4 DEF Filling
<1>6. QED
  BY <1>5 DEF t

\* How much of the basket the cart has.
LEMMA FillCart ==
  ASSUME NEW w \in Seq(Line), NEW s, IsList(s), Len(s) > 0, NEW doc,
         Filling(w, s, doc), s[1].do \in {"add", "new", "push"}
  PROVE  LET n == Len(w) + 1 - Len(s)
         IN  /\ n \in 0..Len(w) - 1 /\ Len(s) > 1 /\ Len(w) \in Nat
             /\ CartHas(n, w, doc) /\ s[1].line = w[n + 1]
             /\ n + 1 = Len(w) + 2 - Len(s)
<1> DEFINE n == Len(w) + 1 - Len(s)
<1>1. Len(s) \in Nat /\ Len(w) \in Nat
  BY DEF IsList
<1>2. Len(s) # 1 /\ Len(s) # Len(w) + 2 /\ Len(s) <= Len(w) + 2
  BY DEF Filling
<1>3. Len(s) > 1 /\ Len(s) <= Len(w) + 1
  <2>1. \A m, k \in Nat : m > 0 /\ m # 1 /\ m # k + 2 /\ m <= k + 2 => m > 1 /\ m <= k + 1
    OBVIOUS
  <2>2. QED
    BY <1>1, <1>2, <2>1
<1>4. CartHas(n, w, doc) /\ s[1].line = w[Len(w) + 2 - Len(s)]
  BY <1>3 DEF Filling
<1>5. n \in 0..Len(w) - 1 /\ n + 1 = Len(w) + 2 - Len(s)
  BY <1>1, <1>3
<1>6. QED
  BY <1>1, <1>3, <1>4, <1>5

LEMMA SubSeqMore ==
  ASSUME NEW w \in Seq(Line), NEW n \in 0..Len(w) - 1
  PROVE  /\ n = 0 => SubSeq(w, 1, 1) = <<w[1]>>
         /\ Append(SubSeq(w, 1, n), w[n + 1]) = SubSeq(w, 1, n + 1)
<1>1. Len(w) \in Nat /\ n + 1 \in 1..Len(w) /\ n \in Nat
  OBVIOUS
<1>2. w[n + 1] \in Line
  BY <1>1
<1>3. /\ SubSeq(w, 1, n) \in Seq(Line) /\ Len(SubSeq(w, 1, n)) = n
      /\ \A k \in 1..n : SubSeq(w, 1, n)[k] = w[k]
  BY <1>1, SubSeqProperties
<1>4. /\ SubSeq(w, 1, n + 1) \in Seq(Line) /\ Len(SubSeq(w, 1, n + 1)) = n + 1
      /\ \A k \in 1..n + 1 : SubSeq(w, 1, n + 1)[k] = w[k]
  BY <1>1, SubSeqProperties
<1> DEFINE u == SubSeq(w, 1, n)
           v == SubSeq(w, 1, n + 1)
           x == w[n + 1]
<1> HIDE DEF u, v, x
<1>5. /\ Append(u, x) \in Seq(Line) /\ Len(Append(u, x)) = n + 1
      /\ \A k \in 1..n + 1 : Append(u, x)[k] = w[k]
  <2>1. u \in Seq(Line) /\ x \in Line /\ Len(u) = n /\ x = w[n + 1]
        /\ \A k \in 1..n : u[k] = w[k]
    BY <1>2, <1>3 DEF u, x
  <2>2. /\ Append(u, x) \in Seq(Line) /\ Len(Append(u, x)) = n + 1
        /\ \A k \in 1..n : Append(u, x)[k] = u[k]
        /\ Append(u, x)[n + 1] = x
    BY <2>1
  <2>3. \A k \in 1..n + 1 : k \in 1..n \/ k = n + 1
    BY <1>1
  <2>4. QED
    BY <2>1, <2>2, <2>3
<1>6. Append(u, x) = v
  <2>1. v \in Seq(Line) /\ Len(v) = n + 1 /\ \A k \in 1..n + 1 : v[k] = w[k]
    BY <1>4 DEF v
  <2>2. QED
    BY <1>5, <2>1, SeqEqual
<1>7. n = 0 => v = <<x>>
  <2>1. ASSUME n = 0
        PROVE  v = <<x>>
    <3>1. v \in Seq(Line) /\ Len(v) = 1 /\ v[1] = x
      BY <1>4, <2>1 DEF v, x
    <3>2. QED
      BY <3>1
  <2>2. QED
    BY <2>1
<1>8. QED
  BY <1>6, <1>7 DEF u, v, x

LEMMA WholeSeq ==
  ASSUME NEW w \in Seq(Line)
  PROVE  SubSeq(w, 1, Len(w)) = w
<1>1. Len(w) \in Nat
  OBVIOUS
<1>2. /\ SubSeq(w, 1, Len(w)) \in Seq(Line) /\ Len(SubSeq(w, 1, Len(w))) = Len(w)
      /\ \A k \in 1..Len(w) : SubSeq(w, 1, Len(w))[k] = w[k]
  BY <1>1, SubSeqProperties
<1>3. QED
  BY <1>2, SeqEqual

-----------------------------------------------------------------------------
(* What a step leaves of the wishes.                                        *)

LEMMA OthersWish ==
  ASSUME IInv, \A c \in Actor : WishClaim(c), NEW a \in Actor, Others(a),
         \A c \in Actor \ {a} : /\ c \in hist.crossed => c \in hist'.crossed
                                /\ c \in hist.uncleared => c \in hist'.uncleared,
         cart' = cart \/ NoCart \in req[a].on
  PROVE  \A c \in Actor \ {a} : WishClaim(c)'
<1>1. ASSUME NEW c \in Actor \ {a}
      PROVE  WishClaim(c)'
  <2>1. req'[c] = req[c] /\ (Busy(c)' <=> Busy(c)) /\ Todo(c)' = Todo(c)
    BY DEF Others, Busy, Todo
  <2>2. SUFFICES ASSUME Busy(c), c \notin hist'.crossed, c \notin hist'.uncleared,
                        req[c].op = "order", Todo(c).do \in Shop \cup {"menu", "create"}
                 PROVE  WishClaim(c)'
    BY <2>1 DEF WishClaim, Alone
  <2>3. Alone(c) /\ c \notin hist.uncleared
    BY <2>2 DEF Alone
  <2>4. CASE Todo(c).do \in {"menu", "create"}
    BY <2>1, <2>2, <2>3, <2>4 DEF WishClaim, Shop
  <2>5. CASE Todo(c).do \in Shop
    <3>1. TaskInv(req[c].op, req[c].on, Todo(c))
      BY <2>2, RequestOf DEF IInv
    <3>2. NoCart \in req[c].on
      BY <2>5, <3>1 DEF TaskInv, Shop
    <3>3. cart' = cart
      BY <2>2, <2>3, <3>2 DEF IInv, Rivalry, Alone, Busy, Idle
    <3>4. QED
      BY <2>1, <2>2, <2>3, <2>5, <3>3 DEF WishClaim, Shop
  <2>6. QED
    BY <2>2, <2>4, <2>5
<1>2. QED
  BY <1>1

\* What the claim says while the cart is filled.
LEMMA WishAt ==
  ASSUME IInv, NEW a \in Actor, WishClaim(a), Alone(a), a \notin hist.uncleared,
         req[a].op = "order", Todo(a).do \in Shop
  PROVE  /\ req[a].wish \in Seq(Line) /\ Distinct(req[a].wish)
         /\ IsList(req[a].todo) /\ Len(req[a].todo) > 0 /\ req[a].todo[1] = Todo(a)
         /\ Filling(req[a].wish, req[a].todo, cart)
BY RequestOf DEF WishClaim, IInv, Tasks, Alone

\* The tab goes on with its basket: the cart has one line more, or none.
LEMMA WishDone ==
  ASSUME IInv, NEW a \in Actor, WishClaim(a), Busy(a), Todo(a).do \in Shop, Done(a),
         hist'.crossed = hist.crossed, hist'.uncleared = hist.uncleared,
         Alone(a) /\ a \notin hist.uncleared /\ req[a].op = "order" =>
             CartHas(Len(req[a].wish) + 2 - Len(req[a].todo), req[a].wish, cart')
  PROVE  WishClaim(a)'
<1>1. /\ Len(req[a].todo) = 1 => req'[a] = Idle
      /\ Len(req[a].todo) > 1 =>
           GoesOn(a, Tail(req[a].todo)) /\ Todo(a)' = req[a].todo[2]
  BY DoneIs, DoneResumes DEF IInv
<1>2. Len(req[a].todo) = 1 \/ Len(req[a].todo) > 1
  <2>1. Len(req[a].todo) \in Nat /\ Len(req[a].todo) > 0
    BY RequestOf DEF IInv, Tasks
  <2>2. \A n \in Nat : n > 0 => n = 1 \/ n > 1
    OBVIOUS
  <2>3. QED
    BY <2>1, <2>2, Zenon
<1>3. CASE Len(req[a].todo) = 1
  BY <1>1, <1>3 DEF WishClaim, Alone, Busy
<1>4. CASE Len(req[a].todo) > 1
  <2>1. GoesOn(a, Tail(req[a].todo))
    BY <1>1, <1>4
  <2>2. /\ req'[a].todo = Tail(req[a].todo) /\ req'[a].wish = req[a].wish
        /\ req'[a].op = req[a].op
    BY <2>1 DEF GoesOn
  <2>3. Todo(a)'.do \in {"add", "checkout"}
    <3>1. /\ req'[a] = Idle \/ Todo(a)'.do \in {"add", "checkout"}
      BY ShopDone, DoneResumes DEF IInv
    <3>2. QED
      BY <2>1, <3>1 DEF GoesOn
  <2>4. SUFFICES ASSUME Alone(a), a \notin hist.uncleared, req[a].op = "order"
                 PROVE  Distinct(req[a].wish) /\ Filling(req[a].wish, Tail(req[a].todo), cart')
    BY <2>2, <2>3 DEF WishClaim, Alone, Busy
  <2>5. /\ req[a].wish \in Seq(Line) /\ Distinct(req[a].wish) /\ IsList(req[a].todo)
        /\ Filling(req[a].wish, req[a].todo, cart)
    BY <2>4, WishAt
  <2>6. Filling(req[a].wish, Tail(req[a].todo), cart')
    BY <1>4, <2>4, <2>5, FillNext
  <2>7. QED
    BY <2>5, <2>6
<1>5. QED
  BY <1>2, <1>3, <1>4

LEMMA IdleWish ==
  ASSUME NEW a, req'[a] = Idle
  PROVE  WishClaim(a)'
BY DEF WishClaim, Alone, Busy

LEMMA BeginWish ==
  ASSUME IInv, \A c \in Actor : WishClaim(c), NEW a \in Actor, NEW op, NEW wish, NEW on, NEW todo,
         Begin(a, op, wish, on, todo), IsList(todo), Len(todo) > 0,
         op = "order" =>
             \/ todo[1].do = "menu" /\ todo[1].lines = wish
             \/ Distinct(wish) /\ Filling(wish, todo, cart) /\ todo[1].do = "clear"
  PROVE  \A c \in Actor : WishClaim(c)'
<1>1. /\ req' = [req EXCEPT ![a] = [op |-> op, wish |-> wish, on |-> on, todo |-> todo]]
      /\ hist' = [hist EXCEPT !.crossed = Joined(@, a, Rivals(a, on)), !.uncleared = @ \ {a}]
      /\ cart' = cart
  BY DEF Begin
<1>2. DataInv /\ RequestsInv
  BY DEF IInv
<1>3. hist'.crossed = Joined(hist.crossed, a, Rivals(a, on)) /\ hist'.uncleared = hist.uncleared \ {a}
  BY <1>1, <1>2 DEF DataInv
<1>4. Others(a) /\ req'[a] = [op |-> op, wish |-> wish, on |-> on, todo |-> todo]
  BY <1>1, <1>2 DEF Others, RequestsInv
<1>5. \A c \in Actor \ {a} : WishClaim(c)'
  <2>1. \A c \in Actor \ {a} : /\ c \in hist.crossed => c \in hist'.crossed
                               /\ c \in hist.uncleared => c \in hist'.uncleared
    BY <1>3 DEF Joined
  <2>2. QED
    BY <1>1, <1>4, <2>1, OthersWish
<1>6. WishClaim(a)'
  <2>1. Head(todo) = todo[1]
    BY RestOf
  <2>2. Todo(a)' = todo[1] /\ req'[a].op = op /\ req'[a].wish = wish /\ req'[a].todo = todo
    BY <1>4, <2>1 DEF Todo
  <2>3. QED
    BY <1>1, <2>2 DEF WishClaim, Shop
<1>7. QED
  BY <1>5, <1>6

LEMMA PlaceOrderWish ==
  ASSUME IInv, \A c \in Actor : WishClaim(c), BasketsMerged,
         NEW a \in Tab, NEW w \in Wishes, PlaceOrder(a, w)
  PROVE  \A c \in Actor : WishClaim(c)'
<1> DEFINE todo == SyncServerCart(w) \o <<PlaceCart>>
<1>1. w \in Seq(Line) /\ a \in Actor /\ Distinct(w)
  BY CheckoutAssumption DEF Actor, BasketsMerged
<1>2. IsList(todo) /\ Len(todo) = Len(w) + 2 /\ Len(w) \in Nat /\ todo[1] = Clear
  BY <1>1, BasketTodo
<1>3. Filling(w, todo, cart)
  BY <1>1, FillFirst
<1>4. Begin(a, "order", w, {NoCart} \cup Items(w), todo)
  BY DEF PlaceOrder
<1> HIDE DEF todo
<1>5. todo[1].do = "clear" /\ Len(todo) > 0
  BY <1>2 DEF Clear
<1>6. QED
  BY <1>1, <1>2, <1>3, <1>4, <1>5, BeginWish

LEMMA OneList ==
  ASSUME NEW x
  PROVE  IsList(<<x>>) /\ Len(<<x>>) = 1 /\ Len(<<x>>) > 0 /\ <<x>>[1] = x
<1>1. <<x>> \in Seq({x}) /\ Len(<<x>>) = 1
  OBVIOUS
<1>2. IsList(<<x>>)
  BY <1>1, ListOf
<1>3. QED
  BY <1>1, <1>2

LEMMA PlaceGuestOrderWish ==
  ASSUME IInv, \A c \in Actor : WishClaim(c),
         NEW a \in GuestTab, NEW w \in Wishes, PlaceGuestOrder(a, w)
  PROVE  \A c \in Actor : WishClaim(c)'
<1> DEFINE x == ReadMenu(w, 0)
<1>1. a \in Actor
  BY DEF Actor
<1>2. Begin(a, "order", w, Items(w), <<x>>)
  BY DEF PlaceGuestOrder
<1>3. x.do = "menu" /\ x.lines = w
  BY DEF ReadMenu
<1> HIDE DEF x
<1>4. QED
  BY <1>1, <1>2, <1>3, OneList, BeginWish

LEMMA UpdateItemWish ==
  ASSUME IInv, \A c \in Actor : WishClaim(c),
         NEW a \in Tab, NEW i \in Item, NEW n \in 0..LineLimit, UpdateItem(a, i, n)
  PROVE  \A c \in Actor : WishClaim(c)'
<1>1. a \in Actor
  BY DEF Actor
<1>2. PICK x : Begin(a, "cart", <<>>, {NoCart}, <<x>>)
  BY DEF UpdateItem
<1>3. QED
  BY <1>1, <1>2, OneList, BeginWish

LEMMA StaffWish ==
  ASSUME IInv, \A c \in Actor : WishClaim(c), NEW a \in Staff, NEW i \in Item, StaffRequests(a, i)
  PROVE  \A c \in Actor : WishClaim(c)'
<1>1. a \in Actor
  BY DEF Actor
<1>2. PICK x : Begin(a, "edit", <<>>, {i}, <<x>>)
  BY DEF StaffRequests, SetStock, SetQuantity, BulkUpdateStock, SetActive, Edit, DeleteMenuItem
<1>3. QED
  BY <1>1, <1>2, OneList, BeginWish

\* The request ended.
LEMMA EndWish ==
  ASSUME IInv, \A c \in Actor : WishClaim(c), NEW a \in Actor, Others(a), req'[a] = Idle,
         hist'.crossed = hist.crossed, hist'.uncleared = hist.uncleared, cart' = cart
  PROVE  \A c \in Actor : WishClaim(c)'
<1>1. \A c \in Actor \ {a} : WishClaim(c)'
  BY OthersWish
<1>2. QED
  BY <1>1, IdleWish

LEMMA RefuseWish ==
  ASSUME IInv, \A c \in Actor : WishClaim(c), NEW a \in Actor, Busy(a), Refuse(a),
         hist'.crossed = hist.crossed, hist'.uncleared = hist.uncleared, cart' = cart
  PROVE  \A c \in Actor : WishClaim(c)'
BY RefuseIs, EndWish DEF IInv

LEMMA DiesWish ==
  ASSUME IInv, \A c \in Actor : WishClaim(c), NEW a \in Actor, Dies(a)
  PROVE  \A c \in Actor : WishClaim(c)'
<1>1. /\ req' = [req EXCEPT ![a] = Idle] /\ cart' = cart
      /\ hist' = [hist EXCEPT !.raced = @ \cup req[a].on]
  BY DEF Dies
<1>2. Others(a) /\ req'[a] = Idle
  BY <1>1 DEF IInv, RequestsInv, Others
<1>3. hist'.crossed = hist.crossed /\ hist'.uncleared = hist.uncleared
  BY <1>1 DEF IInv, DataInv
<1>4. QED
  BY <1>1, <1>2, <1>3, EndWish

\* The sale goes on: the wish is an order already.
LEMMA SaleWish ==
  ASSUME IInv, \A c \in Actor : WishClaim(c), NEW a \in Actor, Busy(a),
         Todo(a).do \in Sell \cup {"create"}, Done(a),
         hist'.crossed = hist.crossed, hist'.uncleared = hist.uncleared,
         cart' = cart \/ NoCart \in req[a].on
  PROVE  \A c \in Actor : WishClaim(c)'
<1>1. Others(a) /\ (req'[a] # Idle => Todo(a)'.do \in Sell)
  BY SellDone, DoneResumes DEF IInv
<1>2. \A c \in Actor \ {a} : WishClaim(c)'
  BY <1>1, OthersWish
<1>3. WishClaim(a)'
  BY <1>1 DEF WishClaim, Alone, Busy, Sell, Shop
<1>4. QED
  BY <1>2, <1>3

LEMMA DoItemWish ==
  ASSUME IInv, \A c \in Actor : WishClaim(c), NEW a \in Actor, DoItem(a)
  PROVE  \A c \in Actor : WishClaim(c)'
<1>1. Busy(a) /\ Todo(a).do \in Sell \cup {"create"}
  BY StepBusy DEF DoItem, Sell
<1>2. (Done(a) \/ Refuse(a)) /\ cart' = cart
  BY DEF DoItem
<1>3. hist'.crossed = hist.crossed /\ hist'.uncleared = hist.uncleared
  BY DEF DoItem, IInv, DataInv
<1>4. QED
  BY <1>1, <1>2, <1>3, SaleWish, RefuseWish

LEMMA DoDropWish ==
  ASSUME IInv, \A c \in Actor : WishClaim(c), NEW a \in Actor, DoDrop(a)
  PROVE  \A c \in Actor : WishClaim(c)'
<1>1. Busy(a) /\ Todo(a).do = "drop" /\ Todo(a).do \in Sell \cup {"create"}
  BY StepBusy DEF DoDrop, Sell
<1>2. NoCart \in req[a].on
  BY <1>1, RequestOf DEF TaskInv, IInv
<1>3. Done(a) /\ hist' = hist
  BY DEF DoDrop
<1>4. QED
  BY <1>1, <1>2, <1>3, SaleWish

LEMMA DoSkipWish ==
  ASSUME IInv, \A c \in Actor : WishClaim(c), NEW a \in Actor, DoSkip(a)
  PROVE  \A c \in Actor : WishClaim(c)'
<1>1. Busy(a) /\ Todo(a).do \in Sell \cup {"create"}
  BY StepBusy DEF DoSkip, Sell
<1>2. QED
  BY <1>1, SaleWish DEF DoSkip

LEMMA DoCreateWish ==
  ASSUME IInv, \A c \in Actor : WishClaim(c), NEW a \in Actor, DoCreate(a)
  PROVE  \A c \in Actor : WishClaim(c)'
<1>1. Busy(a) /\ Todo(a).do \in Sell \cup {"create"}
  BY StepBusy DEF DoCreate
<1>2. Done(a) /\ cart' = cart
  BY DEF DoCreate
<1>3. hist'.crossed = hist.crossed /\ hist'.uncleared = hist.uncleared
  BY DEF DoCreate, IInv, DataInv
<1>4. QED
  BY <1>1, <1>2, <1>3, SaleWish

LEMMA RefusedWish ==
  ASSUME IInv, \A c \in Actor : WishClaim(c), NEW a \in Actor, Refused(a)
  PROVE  \A c \in Actor : WishClaim(c)'
<1>1. Busy(a)
  BY StepBusy DEF Refused
<1>2. QED
  BY <1>1, RefuseWish DEF Refused

LEMMA DoMenuWish ==
  ASSUME IInv, \A c \in Actor : WishClaim(c), NEW a \in Actor, DoMenu(a)
  PROVE  \A c \in Actor : WishClaim(c)'
<1> DEFINE lines == Todo(a).lines
           id == Todo(a).cart
<1>1. Busy(a) /\ Todo(a).do = "menu"
  BY StepBusy DEF DoMenu
<1>2. UNCHANGED <<cart, hist>>
  BY DEF DoMenu
<1>3. CASE Refuse(a)
  BY <1>1, <1>2, <1>3, RefuseWish
<1>4. CASE Continue(a, Decided(lines, id))
  <2>1. TaskInv(req[a].op, req[a].on, Todo(a)) /\ req[a].op \in {"order", "cart", "edit"}
    BY <1>1, RequestOf DEF IInv
  <2>2. /\ lines \in Seq(Line) /\ Items(lines) \subseteq req[a].on /\ req[a].op = "order"
        /\ id # 0 => NoCart \in req[a].on
    BY <1>1, <2>1 DEF TaskInv
  <2> DEFINE more == Decided(lines, id)
  <2> HIDE DEF lines, id
  <2>3. /\ IsList(more) /\ Len(more) > 0 /\ more[1] = Create(lines)
        /\ \A k \in 1..Len(more) : TaskInv("order", req[a].on, more[k])
        /\ Stage(more)
    BY <2>2, SaleTodo DEF IInv
  <2>4. Continue(a, more)
    BY <1>4
  <2> HIDE DEF more
  <2>5. Tasks(req[a], more) /\ more # <<>>
    BY <2>2, <2>3 DEF Tasks
  <2>6. Resumes(a, more)
    BY <2>4 DEF Continue, Resumes
  <2>7. Others(a) /\ GoesOn(a, more)
    BY <1>1, <2>5, <2>6, Continued DEF IInv
  <2>8. /\ req'[a].todo = more /\ req'[a].wish = req[a].wish /\ req'[a].op = "order"
    BY <2>2, <2>7 DEF GoesOn
  <2>9. Todo(a)' = Create(lines)
    <3>1. Head(more) = more[1]
      BY <2>3, RestOf
    <3>2. QED
      BY <2>3, <2>8, <3>1 DEF Todo
  <2>10. Todo(a)'.do = "create" /\ Todo(a)'.lines = lines
    BY <2>9 DEF Create
  <2>11. WishClaim(a)'
    <3>1. SUFFICES ASSUME Alone(a), a \notin hist.uncleared
                   PROVE  lines = req[a].wish
      BY <1>1, <1>2, <2>8, <2>10 DEF WishClaim, Alone, Shop
    <3>2. QED
      BY <1>1, <2>2, <3>1 DEF WishClaim, lines
  <2>12. \A c \in Actor \ {a} : WishClaim(c)'
    BY <1>2, <2>7, OthersWish
  <2>13. QED
    BY <2>11, <2>12
<1>5. QED
  BY <1>3, <1>4 DEF DoMenu, Decided

LEMMA DoCheckoutWish ==
  ASSUME IInv, \A c \in Actor : WishClaim(c), NEW a \in Actor, DoCheckout(a)
  PROVE  \A c \in Actor : WishClaim(c)'
<1> DEFINE lines == cart.lines
           x == ReadMenu(lines, cart.id)
           rivals == Rivals(a, Items(lines))
<1>1. Busy(a) /\ Todo(a).do = "checkout" /\ Todo(a).do \in Shop
  BY StepBusy DEF DoCheckout, Shop
<1>2. UNCHANGED cart
  BY DEF DoCheckout
<1>3. CASE cart = NoCart \/ lines = <<>>
  <2>1. Refuse(a) /\ UNCHANGED hist
    BY <1>3 DEF DoCheckout
  <2>2. QED
    BY <1>1, <1>2, <2>1, RefuseWish
<1>4. CASE cart # NoCart /\ lines # <<>>
  <2>1. /\ req' = [req EXCEPT ![a].todo = <<x>>, ![a].on = @ \cup Items(lines)]
        /\ hist' = [hist EXCEPT !.crossed = IF rivals = {} THEN @ ELSE Joined(@, a, rivals)]
    BY <1>4 DEF DoCheckout
  <2>2. req[a] = [op |-> req[a].op, wish |-> req[a].wish, on |-> req[a].on,
                  todo |-> req[a].todo]
    BY <1>1, RequestOf DEF IInv
  <2>3. x.do = "menu" /\ x.lines = lines
    BY DEF ReadMenu
  <2> HIDE DEF x
  <2>4. /\ Others(a)
        /\ req'[a] = [op |-> req[a].op, wish |-> req[a].wish,
                      on |-> req[a].on \cup Items(lines), todo |-> <<x>>]
    BY <2>1, <2>2 DEF IInv, RequestsInv, Others
  <2> HIDE DEF rivals
  <2>5. /\ hist.crossed \subseteq hist'.crossed /\ hist'.uncleared = hist.uncleared
    <3>1. /\ hist'.crossed = IF rivals = {} THEN hist.crossed
                             ELSE Joined(hist.crossed, a, rivals)
          /\ hist'.uncleared = hist.uncleared
      BY <2>1 DEF IInv, DataInv
    <3>2. QED
      BY <3>1 DEF Joined
  <2>6. \A c \in Actor \ {a} : WishClaim(c)'
    BY <1>2, <2>4, <2>5, OthersWish
  <2>7. Todo(a)' = x
    <3>1. Head(<<x>>) = x
      OBVIOUS
    <3>2. QED
      BY <2>4, <3>1 DEF Todo
  <2>8. WishClaim(a)'
    <3>1. SUFFICES ASSUME Alone(a), a \notin hist.uncleared, req[a].op = "order"
                   PROVE  lines = req[a].wish
      <4>1. req'[a].op = req[a].op /\ req'[a].wish = req[a].wish
        BY <2>4
      <4>2. QED
        BY <1>1, <2>3, <2>5, <2>7, <4>1 DEF WishClaim, Alone, Shop
    <3>2. /\ req[a].wish \in Seq(Line) /\ req[a].todo[1] = Todo(a)
          /\ Filling(req[a].wish, req[a].todo, cart)
      BY <1>1, <3>1, WishAt
    <3> DEFINE w == req[a].wish
    <3>3. Len(req[a].todo) = 1 /\ Len(w) \in Nat
      BY <1>1, <3>2 DEF Filling
    <3>4. CartHas(Len(w) + 1 - 1, w, cart)
      BY <3>2, <3>3 DEF Filling
    <3>5. Len(w) + 1 - 1 = Len(w)
      BY <3>3
    <3>6. lines = SubSeq(w, 1, Len(w))
      BY <1>4, <3>4, <3>5 DEF CartHas
    <3>7. QED
      BY <3>2, <3>6, WholeSeq
  <2>9. QED
    BY <2>6, <2>8
<1>5. QED
  BY <1>3, <1>4

\* The cart is saved and the tab goes on.
LEMMA CartWish ==
  ASSUME IInv, \A c \in Actor : WishClaim(c), NEW a \in Actor, Busy(a), Todo(a).do \in Shop,
         Done(a), hist'.crossed = hist.crossed, hist'.uncleared = hist.uncleared,
         Alone(a) /\ a \notin hist.uncleared /\ req[a].op = "order" =>
             CartHas(Len(req[a].wish) + 2 - Len(req[a].todo), req[a].wish, cart')
  PROVE  \A c \in Actor : WishClaim(c)'
<1>1. NoCart \in req[a].on
  <2>1. TaskInv(req[a].op, req[a].on, Todo(a))
    BY RequestOf DEF IInv
  <2>2. QED
    BY <2>1 DEF TaskInv, Shop
<1>2. Others(a)
  BY DoneIs, DoneResumes DEF IInv
<1>3. \A c \in Actor \ {a} : WishClaim(c)'
  BY <1>1, <1>2, OthersWish
<1>4. WishClaim(a)'
  BY WishDone
<1>5. QED
  BY <1>3, <1>4

LEMMA DoClearWish ==
  ASSUME IInv, \A c \in Actor : WishClaim(c), NEW a \in Actor, DoClear(a)
  PROVE  \A c \in Actor : WishClaim(c)'
<1>1. Busy(a) /\ Todo(a).do = "clear" /\ Todo(a).do \in Shop
  BY StepBusy DEF DoClear, Shop
<1>2. Done(a) /\ cart' = NoCart /\ hist' = hist
  BY DEF DoClear
<1>3. ASSUME Alone(a), a \notin hist.uncleared, req[a].op = "order"
      PROVE  CartHas(Len(req[a].wish) + 2 - Len(req[a].todo), req[a].wish, cart')
  <2>1. /\ req[a].wish \in Seq(Line) /\ req[a].todo[1] = Todo(a)
        /\ Filling(req[a].wish, req[a].todo, cart)
    BY <1>1, <1>3, WishAt
  <2>2. Len(req[a].todo) = Len(req[a].wish) + 2 /\ Len(req[a].wish) \in Nat
    BY <1>1, <2>1 DEF Filling
  <2>3. Len(req[a].wish) + 2 - Len(req[a].todo) = 0
    BY <2>2
  <2>4. QED
    BY <1>2, <2>3 DEF CartHas
<1>4. QED
  BY <1>1, <1>2, <1>3, CartWish

LEMMA ClearLostWish ==
  ASSUME IInv, \A c \in Actor : WishClaim(c), NEW a \in Actor, ClearLost(a)
  PROVE  \A c \in Actor : WishClaim(c)'
<1>1. /\ req' = [req EXCEPT ![a].todo = Tail(@)] /\ cart' = cart
      /\ hist' = [hist EXCEPT !.uncleared = @ \cup {a}]
  BY DEF ClearLost
<1>2. Others(a)
  BY <1>1 DEF IInv, RequestsInv, Others
<1>3. hist'.crossed = hist.crossed /\ hist'.uncleared = hist.uncleared \cup {a}
  BY <1>1 DEF IInv, DataInv
<1>4. \A c \in Actor \ {a} : WishClaim(c)'
  BY <1>1, <1>2, <1>3, OthersWish
<1>5. WishClaim(a)'
  BY <1>3 DEF WishClaim
<1>6. QED
  BY <1>4, <1>5

LEMMA DoAddWish ==
  ASSUME IInv, \A c \in Actor : WishClaim(c), NEW a \in Actor, DoAdd(a)
  PROVE  \A c \in Actor : WishClaim(c)'
<1> DEFINE line == Todo(a).line
           same == SameLine(line)
           s == req[a].todo
           w == req[a].wish
<1>1. Busy(a) /\ Todo(a).do = "add" /\ Todo(a).do \in Shop
  BY StepBusy DEF DoAdd, Shop
<1>2. UNCHANGED <<cart, hist>>
  BY DEF DoAdd
<1>3. DataInv /\ RequestsInv
  BY DEF IInv
<1>4. TaskInv(req[a].op, req[a].on, Todo(a)) /\ req[a].op \in {"order", "cart", "edit"}
  BY <1>1, <1>3, RequestOf
<1>5. line \in Line /\ NoCart \in req[a].on /\ req[a].op = "order"
  BY <1>1, <1>4 DEF TaskInv
<1>6. CASE Refuse(a)
  BY <1>1, <1>2, <1>6, RefuseWish
<1>7. Alone(a) /\ a \notin hist.uncleared =>
        LET n == Len(w) + 1 - Len(s)
        IN  /\ w \in Seq(Line) /\ Distinct(w) /\ IsList(s) /\ Len(s) > 0 /\ Filling(w, s, cart)
            /\ s[1] = Todo(a) /\ n \in 0..Len(w) - 1 /\ Len(w) \in Nat
            /\ CartHas(n, w, cart) /\ line = w[n + 1]
  BY <1>1, <1>5, WishAt, FillCart
<1> HIDE DEF line, same, s, w
<1>8. ASSUME NEW x, Instead(a, <<x>>), x.do \in {"new", "push", "line"},
             TaskInv(req[a].op, req[a].on, x),
             x.do \in {"new", "push"} => x.line = line,
             x.do = "push" => cart # NoCart /\ x.cart = cart.id,
             x.do = "line" => cart # NoCart /\ line.item \in Items(cart.lines)
      PROVE  \A c \in Actor : WishClaim(c)'
  <2>1. Others(a) /\ GoesOn(a, <<x>> \o Tail(s)) /\ Todo(a)' = x
    BY <1>1, <1>3, <1>8, InsteadIs DEF s
  <2>2. req'[a].todo = <<x>> \o Tail(s) /\ req'[a].wish = w /\ req'[a].op = req[a].op
    BY <2>1 DEF GoesOn, w
  <2>3. \A c \in Actor \ {a} : WishClaim(c)'
    BY <1>2, <2>1, OthersWish
  <2>4. WishClaim(a)'
    <3>1. SUFFICES ASSUME Alone(a), a \notin hist.uncleared
                   PROVE  Distinct(w) /\ Filling(w, <<x>> \o Tail(s), cart)
      BY <1>1, <1>2, <1>8, <2>1, <2>2 DEF WishClaim, Alone
    <3> DEFINE n == Len(w) + 1 - Len(s)
    <3>2. /\ w \in Seq(Line) /\ Distinct(w) /\ IsList(s) /\ Len(s) > 0 /\ Filling(w, s, cart)
          /\ s[1] = Todo(a) /\ n \in 0..Len(w) - 1 /\ Len(w) \in Nat
          /\ CartHas(n, w, cart) /\ line = w[n + 1]
      BY <1>7, <3>1
    <3>3. CASE x.do = "line"
      <4>1. cart.lines = SubSeq(w, 1, n)
        BY <1>8, <3>2, <3>3 DEF CartHas
      <4>2. n \in Nat /\ n + 1 \in 1..Len(w) /\ DOMAIN w = 1..Len(w)
        BY <3>2
      <4> HIDE DEF n
      <4>3. /\ SubSeq(w, 1, n) \in Seq(Line) /\ Len(SubSeq(w, 1, n)) = n
            /\ \A k \in 1..n : SubSeq(w, 1, n)[k] = w[k]
        BY <3>2, <4>2, SubSeqProperties
      <4>4. DOMAIN cart.lines = 1..n
        BY <4>1, <4>3
      <4>5. PICK k \in 1..n : cart.lines[k].item = line.item
        BY <1>8, <3>3, <4>4 DEF Items
      <4>6. w[k].item = w[n + 1].item /\ k \in DOMAIN w /\ n + 1 \in DOMAIN w /\ k # n + 1
        BY <3>2, <4>1, <4>2, <4>3, <4>5
      <4>7. QED
        BY <3>2, <4>6 DEF Distinct
    <3>4. CASE x.do \in {"new", "push"}
      <4>1. s[1].do = "add" /\ s[1].line = line
        BY <1>1, <3>2 DEF line
      <4>2. x.line = s[1].line
        BY <1>8, <3>4, <4>1
      <4>3. x.do = "push" => cart # NoCart /\ x.cart = cart.id
        BY <1>8
      <4>4. Filling(w, <<x>> \o Tail(s), cart)
        BY <3>2, <3>4, <4>1, <4>2, <4>3, FillSame
      <4>5. QED
        BY <3>2, <4>4
    <3>5. QED
      BY <1>8, <3>3, <3>4
  <2>5. QED
    BY <2>3, <2>4
<1>9. CASE cart = NoCart /\ Instead(a, <<NewCart(line)>>)
  <2>1. /\ NewCart(line).do = "new" /\ NewCart(line).line = line
        /\ TaskInv(req[a].op, req[a].on, NewCart(line))
    BY <1>5 DEF NewCart, TaskInv
  <2>2. QED
    BY <1>8, <1>9, <2>1
<1>10. CASE cart # NoCart /\ same = {} /\ Instead(a, <<Push(cart.id, line)>>)
  <2>1. /\ Push(cart.id, line).do = "push" /\ TaskInv(req[a].op, req[a].on, Push(cart.id, line))
        /\ Push(cart.id, line).cart = cart.id /\ Push(cart.id, line).line = line
    BY <1>5 DEF Push, TaskInv
  <2>2. QED
    BY <1>8, <1>10, <2>1
<1>11. CASE cart # NoCart /\ same # {} /\
            Instead(a, <<SetLine(cart.id, cart.v, First(same),
                                 Merged(cart.lines[First(same)], line))>>)
  <2> DEFINE n == Merged(cart.lines[First(same)], line)
             x == SetLine(cart.id, cart.v, First(same), n)
  <2>1. cart.lines \in Seq(Line)
    BY <1>3, <1>11 DEF DataInv, CartDocs
  <2>2. same \subseteq DOMAIN cart.lines /\ same \subseteq Nat
    BY <2>1 DEF same, SameLine
  <2>3. First(same) \in same
    BY <1>11, <2>2, LeastOf
  <2>4. cart.lines[First(same)] \in Line
    BY <2>1, <2>2, <2>3
  <2>5. n \in 1..LineLimit
    BY <1>5, <2>4, SmallerLine
  <2> HIDE DEF n
  <2>6. x.do = "line" /\ TaskInv(req[a].op, req[a].on, x)
    BY <1>5, <2>5 DEF SetLine, TaskInv
  <2>7. Instead(a, <<x>>)
    BY <1>11 DEF n
  <2>8. line.item \in Items(cart.lines)
    BY <2>2, <2>3 DEF same, SameLine, Items
  <2> HIDE DEF x
  <2>9. QED
    BY <1>8, <1>11, <2>6, <2>7, <2>8
<1>12. QED
  BY <1>6, <1>9, <1>10, <1>11 DEF DoAdd, line, same

LEMMA DoNewCartWish ==
  ASSUME IInv, \A c \in Actor : WishClaim(c), NEW a \in Actor, DoNewCart(a)
  PROVE  \A c \in Actor : WishClaim(c)'
<1> DEFINE s == req[a].todo
           w == req[a].wish
<1>1. Busy(a) /\ Todo(a).do = "new" /\ Todo(a).do \in Shop
  BY StepBusy DEF DoNewCart, Shop
<1>2. CASE cart = NoCart
  <2>1. /\ cart' = [id |-> carts + 1, v |-> 0, lines |-> <<Todo(a).line>>]
        /\ MarkCart(a, carts + 1) /\ Done(a)
    BY <1>2 DEF DoNewCart
  <2>2. hist'.crossed = hist.crossed /\ hist'.uncleared = hist.uncleared
    BY <2>1, MarkIs DEF IInv
  <2>3. cart' # NoCart
    <3>1. Todo(a).line \in Line /\ carts \in Nat
      BY <1>1, RequestOf DEF TaskInv, IInv, DataInv
    <3>2. cart' \in CartDocs
      BY <2>1, <3>1 DEF CartDocs
    <3>3. QED
      BY <3>2, CheckoutAssumption
  <2>4. ASSUME Alone(a), a \notin hist.uncleared, req[a].op = "order"
        PROVE  CartHas(Len(w) + 2 - Len(s), w, cart')
    <3> DEFINE n == Len(w) + 1 - Len(s)
    <3>1. /\ w \in Seq(Line) /\ IsList(s) /\ Len(s) > 0 /\ s[1] = Todo(a) /\ Filling(w, s, cart)
      BY <1>1, <2>4, WishAt
    <3> HIDE DEF s, w
    <3>2. /\ n \in 0..Len(w) - 1 /\ CartHas(n, w, cart) /\ s[1].line = w[n + 1]
          /\ n + 1 = Len(w) + 2 - Len(s)
      BY <1>1, <3>1, FillCart
    <3>3. n = 0
      BY <1>2, <3>2 DEF CartHas
    <3>4. SubSeq(w, 1, 1) = <<w[1]>>
      BY <3>1, <3>2, <3>3, SubSeqMore
    <3>5. cart'.lines = <<w[1]>>
      BY <2>1, <3>1, <3>2, <3>3
    <3>6. Len(w) + 2 - Len(s) = 1
      BY <3>2, <3>3
    <3>7. QED
      BY <2>3, <3>4, <3>5, <3>6 DEF CartHas
  <2>5. QED
    BY <1>1, <2>1, <2>2, <2>4, CartWish
<1>3. CASE cart # NoCart
  BY <1>1, <1>3, RefuseWish DEF DoNewCart
<1>4. QED
  BY <1>2, <1>3

LEMMA DoPushWish ==
  ASSUME IInv, \A c \in Actor : WishClaim(c), NEW a \in Actor, DoPush(a)
  PROVE  \A c \in Actor : WishClaim(c)'
<1> DEFINE s == req[a].todo
           w == req[a].wish
<1>1. Busy(a) /\ Todo(a).do = "push" /\ Todo(a).do \in Shop
  BY StepBusy DEF DoPush, Shop
<1>2. CASE Loaded(Todo(a).cart)
  <2>1. /\ cart' = [cart EXCEPT !.lines = Append(@, Todo(a).line), !.v = @ + 1]
        /\ MarkCart(a, cart.id) /\ Done(a) /\ cart # NoCart
    BY <1>2 DEF DoPush, Loaded
  <2>2. hist'.crossed = hist.crossed /\ hist'.uncleared = hist.uncleared
    BY <2>1, MarkIs DEF IInv
  <2>3. cart \in CartDocs /\ Todo(a).line \in Line
    BY <1>1, <2>1, RequestOf DEF TaskInv, IInv, DataInv
  <2>4. /\ cart' = [id |-> cart.id, v |-> cart.v + 1, lines |-> Append(cart.lines, Todo(a).line)]
        /\ cart.lines \in Seq(Line) /\ cart.id \in Nat /\ cart.v \in Nat
    BY <2>1, <2>3 DEF CartDocs
  <2>5. cart' # NoCart
    <3>1. Append(cart.lines, Todo(a).line) \in Seq(Line)
      BY <2>3, <2>4
    <3>2. cart' \in CartDocs
      BY <2>4, <3>1 DEF CartDocs
    <3>3. QED
      BY <3>2, CheckoutAssumption
  <2>6. ASSUME Alone(a), a \notin hist.uncleared, req[a].op = "order"
        PROVE  CartHas(Len(w) + 2 - Len(s), w, cart')
    <3> DEFINE n == Len(w) + 1 - Len(s)
    <3>1. /\ w \in Seq(Line) /\ IsList(s) /\ Len(s) > 0 /\ s[1] = Todo(a) /\ Filling(w, s, cart)
      BY <1>1, <2>6, WishAt
    <3> HIDE DEF s, w
    <3>2. /\ n \in 0..Len(w) - 1 /\ CartHas(n, w, cart) /\ s[1].line = w[n + 1]
          /\ n + 1 = Len(w) + 2 - Len(s) /\ Len(w) \in Nat
      BY <1>1, <3>1, FillCart
    <3> HIDE DEF n
    <3>3. cart.lines = SubSeq(w, 1, n)
      BY <2>1, <3>2 DEF CartHas
    <3>4. cart'.lines = SubSeq(w, 1, n + 1)
      BY <2>4, <3>1, <3>2, <3>3, SubSeqMore
    <3>5. n + 1 # 0
      BY <3>2
    <3>6. QED
      BY <2>5, <3>2, <3>4, <3>5 DEF CartHas
  <2>7. QED
    BY <1>1, <2>1, <2>2, <2>6, CartWish
<1>3. CASE ~Loaded(Todo(a).cart)
  BY <1>1, <1>3, RefuseWish DEF DoPush
<1>4. QED
  BY <1>2, <1>3

LEMMA DoLineWish ==
  ASSUME IInv, \A c \in Actor : WishClaim(c), NEW a \in Actor, DoLine(a)
  PROVE  \A c \in Actor : WishClaim(c)'
<1>1. Busy(a) /\ Todo(a).do = "line" /\ Todo(a).do \in Shop
  BY StepBusy DEF DoLine, Shop
<1>2. CASE Loaded(Todo(a).cart) /\ cart.v = Todo(a).v
  <2>1. MarkCart(a, cart.id) /\ Done(a)
    BY <1>2 DEF DoLine
  <2>2. hist'.crossed = hist.crossed /\ hist'.uncleared = hist.uncleared
    BY <2>1, MarkIs DEF IInv
  <2>3. ~(Alone(a) /\ a \notin hist.uncleared /\ req[a].op = "order")
    BY <1>1, WishAt DEF Filling
  <2>4. QED
    BY <1>1, <2>1, <2>2, <2>3, CartWish
<1>3. CASE ~(Loaded(Todo(a).cart) /\ cart.v = Todo(a).v)
  BY <1>1, <1>3, RefuseWish DEF DoLine
<1>4. QED
  BY <1>2, <1>3

LEMMA DoReplaceWish ==
  ASSUME IInv, \A c \in Actor : WishClaim(c), NEW a \in Actor, DoReplace(a)
  PROVE  \A c \in Actor : WishClaim(c)'
<1>1. Busy(a) /\ Todo(a).do = "replace" /\ Todo(a).do \in Shop
  BY StepBusy DEF DoReplace, Shop
<1>2. CASE Loaded(Todo(a).cart) /\ cart.v = Todo(a).v
  <2>1. MarkCart(a, cart.id) /\ Done(a)
    BY <1>2 DEF DoReplace
  <2>2. hist'.crossed = hist.crossed /\ hist'.uncleared = hist.uncleared
    BY <2>1, MarkIs DEF IInv
  <2>3. req[a].op # "order"
    BY <1>1, RequestOf DEF TaskInv, IInv
  <2>4. QED
    BY <1>1, <2>1, <2>2, <2>3, CartWish
<1>3. CASE ~(Loaded(Todo(a).cart) /\ cart.v = Todo(a).v)
  BY <1>1, <1>3, RefuseWish DEF DoReplace
<1>4. QED
  BY <1>2, <1>3

-----------------------------------------------------------------------------
(* The orders and the wishes.                                               *)

\* The order of a tab that was not disturbed is what it wished for.
LEMMA OrdersKept ==
  ASSUME IInv, WishInv, [Next]_vars, NEW o \in Order, orders'[o] # Free, orders'[o].clean
  PROVE  orders'[o].lines = orders'[o].wish
<1>1. CASE orders' = orders
  BY <1>1 DEF WishInv
<1>2. ASSUME NEW a \in Actor, DoCreate(a)
      PROVE  orders'[o].lines = orders'[o].wish
  <2>1. Busy(a) /\ Todo(a).do = "create"
    BY <1>2, StepBusy DEF DoCreate
  <2> DEFINE calm == ~Crossed(a) /\ a \notin hist.uncleared
  <2>2. PICK p \in Order : orders' = [orders EXCEPT ![p] =
                     [lines |-> Todo(a).lines, wish |-> req[a].wish, clean |-> calm]]
    BY <1>2 DEF DoCreate
  <2>3. calm \in BOOLEAN
    OBVIOUS
  <2> HIDE DEF calm
  <2>4. CASE o # p
    BY <2>2, <2>4 DEF WishInv, IInv, DataInv
  <2>5. CASE o = p
    <3>1. orders'[o] = [lines |-> Todo(a).lines, wish |-> req[a].wish, clean |-> calm]
      BY <2>2, <2>5 DEF IInv, DataInv
    <3>2. orders'[o].clean = calm
      BY <3>1
    <3>3. Alone(a) /\ a \notin hist.uncleared
      <4>1. calm
        BY <3>2
      <4>2. QED
        BY <2>1, <4>1 DEF Alone, Crossed, calm
    <3>4. req[a].op = "order"
      BY <2>1, RequestOf DEF IInv, TaskInv
    <3>5. Todo(a).lines = req[a].wish
      BY <2>1, <3>3, <3>4 DEF WishInv, WishClaim
    <3>6. QED
      BY <3>1, <3>5
  <2>6. QED
    BY <2>4, <2>5
<1>3. orders' = orders \/ \E a \in Actor : DoCreate(a)
  <2>1. CASE UNCHANGED vars
    BY <2>1 DEF vars
  <2>2. ASSUME NEW a, Steps(a)
        PROVE  orders' = orders \/ DoCreate(a)
    BY <2>2 DEF Steps, DoClear, ClearLost, DoAdd, DoNewCart, DoPush, DoLine, DoReplace,
       DoCheckout, DoMenu, Refused, DoDrop, DoItem, DoSkip, Dies
  <2>3. ASSUME NEW a, \/ \E w \in Wishes : PlaceOrder(a, w) \/ PlaceGuestOrder(a, w)
                      \/ \E i \in Item, n \in 0..LineLimit : UpdateItem(a, i, n)
                      \/ \E i \in Item : StaffRequests(a, i)
        PROVE  orders' = orders
    BY <2>3 DEF PlaceOrder, PlaceGuestOrder, UpdateItem, StaffRequests, SetStock, SetQuantity,
       BulkUpdateStock, SetActive, Edit, DeleteMenuItem, Begin
  <2>4. QED
    BY <2>1, <2>2, <2>3 DEF Next
<1>4. QED
  BY <1>1, <1>2, <1>3

LEMMA WishStep ==
  ASSUME BasketsMerged, IInv, WishInv, [Next]_vars
  PROVE  WishInv'
<1>1. \A c \in Actor : WishClaim(c)
  BY DEF WishInv
<1>2. ASSUME NEW a \in Tab, NEW w \in Wishes, PlaceOrder(a, w)
      PROVE  \A c \in Actor : WishClaim(c)'
  BY <1>1, <1>2, PlaceOrderWish
<1>3. ASSUME NEW a \in Tab, NEW i \in Item, NEW n \in 0..LineLimit, UpdateItem(a, i, n)
      PROVE  \A c \in Actor : WishClaim(c)'
  BY <1>1, <1>3, UpdateItemWish
<1>4. ASSUME NEW a \in GuestTab, NEW w \in Wishes, PlaceGuestOrder(a, w)
      PROVE  \A c \in Actor : WishClaim(c)'
  BY <1>1, <1>4, PlaceGuestOrderWish
<1>5. ASSUME NEW a \in Staff, NEW i \in Item, StaffRequests(a, i)
      PROVE  \A c \in Actor : WishClaim(c)'
  BY <1>1, <1>5, StaffWish
<1>6. ASSUME NEW a \in Actor, Steps(a)
      PROVE  \A c \in Actor : WishClaim(c)'
  BY <1>1, <1>6, DoClearWish, ClearLostWish, DoAddWish, DoNewCartWish, DoPushWish, DoLineWish,
     DoReplaceWish, DoCheckoutWish, DoMenuWish, RefusedWish, DoCreateWish, DoDropWish,
     DoItemWish, DoSkipWish, DiesWish DEF Steps
<1>7. ASSUME UNCHANGED vars
      PROVE  \A c \in Actor : WishClaim(c)'
  <2>1. req' = req /\ cart' = cart /\ hist' = hist
    BY <1>7 DEF vars
  <2>2. SUFFICES ASSUME NEW c \in Actor
                 PROVE  WishClaim(c)'
    OBVIOUS
  <2>3. WishClaim(c)
    BY <1>1
  <2>4. Todo(c)' = Todo(c) /\ (Alone(c)' <=> Alone(c))
    BY <2>1 DEF Todo, Alone, Busy
  <2>5. QED
    BY <2>1, <2>3, <2>4 DEF WishClaim
<1>8. \A c \in Actor : WishClaim(c)'
  <2>1. CASE UNCHANGED vars
    BY <1>7, <2>1
  <2>2. ASSUME NEW a \in Tab, \/ \E w \in Wishes : PlaceOrder(a, w)
                             \/ \E i \in Item, n \in 0..LineLimit : UpdateItem(a, i, n)
        PROVE  \A c \in Actor : WishClaim(c)'
    BY <1>2, <1>3, <2>2
  <2>3. ASSUME NEW a \in GuestTab, NEW w \in Wishes, PlaceGuestOrder(a, w)
        PROVE  \A c \in Actor : WishClaim(c)'
    BY <1>4, <2>3
  <2>4. QED
    BY <1>5, <1>6, <2>1, <2>2, <2>3 DEF Next
<1>9. \A o \in Order : orders'[o] # Free /\ orders'[o].clean => orders'[o].lines = orders'[o].wish
  BY OrdersKept
<1>10. QED
  BY <1>8, <1>9 DEF WishInv

\* A guest gets what the basket says, and nothing of an earlier attempt: once
\* the cart is cleared, nothing but the basket comes to it before the order is
\* placed (useCheckout.ts and cart.service.ts).  The basket has one line per
\* item, as add() of stores/cart.ts keeps it.
THEOREM WishesAreOrdered ==
  ASSUME BasketsMerged
  PROVE  Spec => []OrderAsWished
<1>1. Init => WishInv
  BY DEF Init, WishInv, WishClaim, Alone, Busy
<1>2. IInv /\ WishInv /\ [Next]_vars => WishInv'
  BY WishStep
<1>3. WishInv => OrderAsWished
  BY DEF WishInv, OrderAsWished
<1>4. QED
  BY <1>1, <1>2, <1>3, CheckoutInvariant, PTL DEF Spec

=============================================================================
