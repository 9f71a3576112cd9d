------------------------------ MODULE Checkout ------------------------------
(***************************************************************************)
(* From the basket in a guest's browser to an order, and the stock it      *)
(* takes: frontend/src/hooks/useCheckout.ts, modules/cart/cart.service.ts, *)
(* checkout and guestCheckout of modules/order/order.service.ts, and the   *)
(* stock edits of modules/menu/menuItem.service.ts.                        *)
(*                                                                         *)
(* A browser tab sends its requests one after the other, and a handler     *)
(* performs its awaits one after the other: `todo' is the list of both     *)
(* that is left, and a refusal ends it.  The cart of a customer is shared  *)
(* by the tabs.  A save of a menu item writes the fields that differ from  *)
(* the copy; a save of a cart also demands the version of the copy if it   *)
(* touches a line in place.  The seating of tables is in Dining, coupons   *)
(* are in CouponUse, payment in OrderPayment.                              *)
(***************************************************************************)
EXTENDS Integers, Sequences, FiniteSets

CONSTANTS Item, Order,
          Tab,          \* browser tabs of one signed-in customer
          GuestTab,     \* tabs of guests without an account
          Staff,
          Wishes,       \* baskets a guest may fill: sequences of lines
          Stock,        \* Stock[i]: the stock to begin with; NoCount if it is not counted
          Levels,       \* stock levels the staff set
          LineLimit,    \* the most of an item on one line (99)
          NoCount, NoCart, Free,
          MaxRequests,  \* bound: check-outs and edits begun
          MaxFaults     \* bound: requests that die, clears that get lost

Actor == Tab \cup GuestTab \cup Staff

Line == [item : Item, qty : 1..LineLimit]
CartDocs == [id : Nat, v : Nat, lines : Seq(Line)]
OrderDocs == [lines : Seq(Line), wish : Seq(Line), clean : BOOLEAN]

ASSUME CheckoutAssumption ==
    /\ Tab \cap GuestTab = {} /\ Tab \cap Staff = {} /\ GuestTab \cap Staff = {}
    /\ Wishes \subseteq Seq(Line)
    /\ \A n \in Levels \cup {Stock[i] : i \in Item} : n = NoCount \/ n \in Nat
    /\ NoCount \notin Int /\ NoCart \notin CartDocs /\ Free \notin OrderDocs
    /\ LineLimit \in Nat
    /\ MaxRequests \in Nat /\ MaxFaults \in Nat

VARIABLES
    menu,    \* menu[i]: exists, active, inStock, qty
    cart,    \* the customer's cart: NoCart, or id, version and lines
    carts,   \* carts created
    orders,  \* Free, or the lines ordered, the basket wished for, and whether
             \* nothing disturbed the check-out
    req,     \* req[a]: what actor a has left to do
    started, faults,
    hist     \* history: see NoHistory
vars == <<menu, cart, carts, orders, req, started, faults, hist>>

Idle == [op |-> "idle", wish |-> <<>>, on |-> {}, todo |-> <<>>]

\* The items of a list of lines, and the portions of item i it asks for.
Items(lines) == {lines[k].item : k \in DOMAIN lines}
Portions(lines, i) ==
    {p \in (DOMAIN lines) \X (1..LineLimit) : lines[p[1]].item = i /\ p[2] <= lines[p[1]].qty}
Count(lines, i) == Cardinality(Portions(lines, i))

\* The items on more than one of the lines.
Doubled(lines) ==
    {i \in Items(lines) : \E j, k \in DOMAIN lines :
        j # k /\ lines[j].item = i /\ lines[k].item = i}

\* The lines that are not about item i.
Rising(set) == CHOOSE s \in [1..Cardinality(set) -> set] :
                   \A m, n \in DOMAIN s : m < n => s[m] < s[n]
Without(lines, i) ==
    LET kept == Rising({k \in DOMAIN lines : lines[k].item # i})
    IN  [n \in DOMAIN kept |-> lines[kept[n]]]

First(set) == CHOOSE k \in set : \A j \in set : k <= j
Least(m, n) == IF m < n THEN m ELSE n
Counted(n) == n # NoCount

-----------------------------------------------------------------------------
(* What is left to do: requests of a tab, and awaits of a handler.          *)

Clear == [do |-> "clear"]
Add(line) == [do |-> "add", line |-> line]
PlaceCart == [do |-> "checkout"]
ReadMenu(lines, id) == [do |-> "menu", lines |-> lines, cart |-> id]
Create(lines) == [do |-> "create", lines |-> lines]
DropCart(id) == [do |-> "drop", cart |-> id]
SaveItem(i, set) == [do |-> "item", item |-> i, set |-> set]
Skip == [do |-> "skip"]

\* Saves of a cart loaded at version v: a new one, a line pushed, a line
\* changed in place, the lines replaced.
NewCart(line) == [do |-> "new", line |-> line]
Push(id, line) == [do |-> "push", cart |-> id, line |-> line]
SetLine(id, v, k, n) == [do |-> "line", cart |-> id, v |-> v, k |-> k, qty |-> n]
Replace(id, v, lines) == [do |-> "replace", cart |-> id, v |-> v, lines |-> lines]

(* Histories, for the properties.  `crossed' requests overlapped one about  *)
(* the same cart or item; `uncleared' tabs lost the request that clears the *)
(* cart.  `shelf' is what the orders left of the stock set last; since then *)
(* `raced' items were saved by a crossed request, or not saved by one that  *)
(* died, or ordered on two lines at once.  `mixed' carts were saved by a    *)
(* crossed request.                                                         *)
NoHistory == [crossed |-> {}, uncleared |-> {}, raced |-> {}, mixed |-> {},
              shelf |-> [i \in Item |-> menu[i].qty]]

Rivals(a, on) == {o \in Actor \ {a} : req[o].on \cap on # {}}
Joined(set, a, others) == IF others = {} THEN set \ {a} ELSE set \cup {a} \cup others

\* Actor a begins op on some items and perhaps the cart.
Begin(a, op, wish, on, todo) ==
    /\ req[a] = Idle
    /\ started < MaxRequests
    /\ started' = started + 1
    /\ req' = [req EXCEPT ![a] = [op |-> op, wish |-> wish, on |-> on, todo |-> todo]]
    /\ hist' = [hist EXCEPT !.crossed = Joined(@, a, Rivals(a, on)),
                            !.uncleared = @ \ {a}]
    /\ UNCHANGED <<menu, cart, carts, orders, faults>>

-----------------------------------------------------------------------------
(* The guests.                                                              *)

\* Mutant: the cart the server has is kept.
SyncWithoutClear(wish) == [k \in DOMAIN wish |-> Add(wish[k])]

\* syncServerCart: start clean, then add line by line.
SyncServerCart(wish) == <<Clear>> \o [k \in DOMAIN wish |-> Add(wish[k])]

\* placeOrder of useCheckout.
PlaceOrder(a, wish) ==
    Begin(a, "order", wish, {NoCart} \cup Items(wish),
          SyncServerCart(wish) \o <<PlaceCart>>)

\* placeGuestOrder: the lines go with the request.
PlaceGuestOrder(a, wish) ==
    Begin(a, "order", wish, Items(wish), <<ReadMenu(wish, 0)>>)

\* updateItem and removeItem of the cart API: the lines of one item.
UpdateItem(a, i, n) ==
    /\ cart # NoCart
    /\ i \in Items(cart.lines)
    /\ Begin(a, "cart", <<>>, {NoCart},
             <<IF n = 0 THEN Replace(cart.id, cart.v, Without(cart.lines, i))
               ELSE SetLine(cart.id, cart.v,
                            First({k \in DOMAIN cart.lines : cart.lines[k].item = i}), n)>>)

-----------------------------------------------------------------------------
(* The staff.                                                               *)

Changes(from, to) == [f \in {g \in DOMAIN from : from[g] # to[g]} |-> to[f]]

Edit(a, i, to) ==
    /\ menu[i].exists
    /\ Begin(a, "edit", <<>>, {i}, <<SaveItem(i, Changes(menu[i], to))>>)

\* setStock and updateMenuItem: either field as given.
SetStock(a, i, flag) == Edit(a, i, [menu[i] EXCEPT !.inStock = flag])
SetActive(a, i) == Edit(a, i, [menu[i] EXCEPT !.active = ~@])

SetQuantity(a, i, n) == Edit(a, i, [menu[i] EXCEPT !.qty = n])

\* bulkUpdateStock: an empty shelf takes the item off the menu, a full one puts
\* it back unless the staff say otherwise: `flag' has what they say, if anything.
BulkUpdateStock(a, i, n, flag) ==
    Edit(a, i, [menu[i] EXCEPT !.qty = n,
                               !.inStock = /\ n # 0
                                           /\ IF flag # {} THEN TRUE \in flag
                                              ELSE Counted(n) \/ @])

DeleteMenuItem(a, i) ==
    /\ menu[i].exists
    /\ Begin(a, "edit", <<>>, {i}, <<SaveItem(i, [exists |-> FALSE])>>)

-----------------------------------------------------------------------------
(* The steps.                                                               *)

Step(a, kind) == req[a] # Idle /\ Head(req[a].todo).do = kind
Todo(a) == Head(req[a].todo)
Crossed(a) == a \in hist.crossed

Continue(a, more) ==
    /\ req' = [req EXCEPT ![a] = IF more = <<>> THEN Idle ELSE [@ EXCEPT !.todo = more]]
    /\ UNCHANGED <<started, faults>>
Done(a) == Continue(a, Tail(req[a].todo))
Instead(a, more) == Continue(a, more \o Tail(req[a].todo))
Refuse(a) == Continue(a, <<>>)

DoClear(a) ==
    /\ Step(a, "clear")
    /\ cart' = NoCart
    /\ Done(a)
    /\ UNCHANGED <<menu, carts, orders, hist>>

\* The browser swallows the error and goes on.
ClearLost(a) ==
    /\ Step(a, "clear")
    /\ faults < MaxFaults
    /\ faults' = faults + 1
    /\ req' = [req EXCEPT ![a].todo = Tail(@)]
    /\ hist' = [hist EXCEPT !.uncleared = @ \cup {a}]
    /\ UNCHANGED <<menu, cart, carts, orders, started>>

Orderable(i) == menu[i].exists /\ menu[i].active /\ menu[i].inStock

\* Mutant: a line is the same only if the quantity is too.
SameLineExactly(line) == {k \in DOMAIN cart.lines : cart.lines[k] = line}

\* The lines addItem may merge a new one with.
SameLine(line) == {k \in DOMAIN cart.lines : cart.lines[k].item = line.item}

Merged(old, line) == Least(LineLimit, old.qty + line.qty)

\* addItem: the item is read, then the cart; the save follows.
DoAdd(a) ==
    /\ Step(a, "add")
    /\ LET line == Todo(a).line
           same == SameLine(line)
       IN  IF ~Orderable(line.item) THEN Refuse(a)
           ELSE IF cart = NoCart THEN Instead(a, <<NewCart(line)>>)
           ELSE IF same = {} THEN Instead(a, <<Push(cart.id, line)>>)
           ELSE Instead(a, <<SetLine(cart.id, cart.v, First(same),
                               Merged(cart.lines[First(same)], line))>>)
    /\ UNCHANGED <<menu, cart, carts, orders, hist>>

\* A cart saved by a crossed request.
MarkCart(a, id) == hist' = [hist EXCEPT !.mixed = IF Crossed(a) THEN @ \cup {id} ELSE @]

\* One cart per customer and kitchen: the unique index refuses a second.
DoNewCart(a) ==
    /\ Step(a, "new")
    /\ IF cart = NoCart
       THEN /\ cart' = [id |-> carts + 1, v |-> 0, lines |-> <<Todo(a).line>>]
            /\ carts' = carts + 1
            /\ MarkCart(a, carts + 1)
            /\ Done(a)
       ELSE Refuse(a) /\ UNCHANGED <<cart, carts, hist>>
    /\ UNCHANGED <<menu, orders>>

Loaded(id) == cart # NoCart /\ cart.id = id

\* A push demands nothing but the document; it increments the version.
DoPush(a) ==
    /\ Step(a, "push")
    /\ IF Loaded(Todo(a).cart)
       THEN /\ cart' = [cart EXCEPT !.lines = Append(@, Todo(a).line), !.v = @ + 1]
            /\ MarkCart(a, cart.id)
            /\ Done(a)
       ELSE Refuse(a) /\ UNCHANGED <<cart, hist>>
    /\ UNCHANGED <<menu, carts, orders>>

\* A line changed in place demands the version and leaves it.
DoLine(a) ==
    /\ Step(a, "line")
    /\ IF Loaded(Todo(a).cart) /\ cart.v = Todo(a).v
       THEN /\ cart' = [cart EXCEPT !.lines[Todo(a).k].qty = Todo(a).qty]
            /\ MarkCart(a, cart.id)
            /\ Done(a)
       ELSE Refuse(a) /\ UNCHANGED <<cart, hist>>
    /\ UNCHANGED <<menu, carts, orders>>

DoReplace(a) ==
    /\ Step(a, "replace")
    /\ IF Loaded(Todo(a).cart) /\ cart.v = Todo(a).v
       THEN /\ cart' = [cart EXCEPT !.lines = Todo(a).lines, !.v = @ + 1]
            /\ MarkCart(a, cart.id)
            /\ Done(a)
       ELSE Refuse(a) /\ UNCHANGED <<cart, hist>>
    /\ UNCHANGED <<menu, carts, orders>>

\* checkout loads the cart, which may be about more than the basket was.
DoCheckout(a) ==
    /\ Step(a, "checkout")
    /\ IF cart = NoCart \/ cart.lines = <<>>
       THEN Refuse(a) /\ UNCHANGED hist
       ELSE LET rivals == Rivals(a, Items(cart.lines))
            IN  /\ req' = [req EXCEPT
                     ![a].todo = <<ReadMenu(cart.lines, cart.id)>>,
                     ![a].on = @ \cup Items(cart.lines)]
                /\ hist' = [hist EXCEPT !.crossed =
                              IF rivals = {} THEN @ ELSE Joined(@, a, rivals)]
                /\ UNCHANGED <<started, faults>>
    /\ UNCHANGED <<menu, cart, carts, orders>>

\* What checkout demands of every line, one by one.
Available(line) ==
    /\ Orderable(line.item)
    /\ Counted(menu[line.item].qty) => menu[line.item].qty >= line.qty

\* Mutant: every line is taken from the stock as it was read.
StockOfLine(lines, k) ==
    LET i == lines[k].item
        n == menu[i].qty - lines[k].qty
    IN  SaveItem(i, IF n > 0 THEN [qty |-> n] ELSE [qty |-> 1])

\* The stock written after line k, computed from the quantity read; a copy that
\* was sold out before does not change.
StockAfter(lines, k) ==
    LET i == lines[k].item
        n == menu[i].qty - Count(SubSeq(lines, 1, k), i)
    IN  SaveItem(i, IF n > 0 THEN [qty |-> n]
                    ELSE IF menu[i].qty > Count(SubSeq(lines, 1, k - 1), i)
                         THEN [qty |-> 0, inStock |-> FALSE] ELSE <<>>)

\* The saves of the sale, line by line: an item that is not counted has none.
Sale(lines) ==
    [k \in DOMAIN lines |-> IF Counted(menu[lines[k].item].qty) THEN StockAfter(lines, k)
                            ELSE Skip]

\* The menu is read and every line validated; what follows is decided.
DoMenu(a) ==
    /\ Step(a, "menu")
    /\ LET lines == Todo(a).lines
       IN  IF \A k \in DOMAIN lines : Available(lines[k])
           THEN Continue(a, <<Create(lines)>>
                            \o (IF Todo(a).cart = 0 THEN <<>> ELSE <<DropCart(Todo(a).cart)>>)
                            \o Sale(lines))
           ELSE Refuse(a)
    /\ UNCHANGED <<menu, cart, carts, orders, hist>>

DoSkip(a) == Step(a, "skip") /\ Done(a) /\ UNCHANGED <<menu, cart, carts, orders, hist>>

\* The kitchen is closed, the room inactive, the coupon refused, or no order
\* number was free in three attempts.
Refused(a) ==
    /\ Step(a, "menu") \/ Step(a, "create")
    /\ Refuse(a)
    /\ UNCHANGED <<menu, cart, carts, orders, hist>>

DoCreate(a) ==
    /\ Step(a, "create")
    /\ LET lines == Todo(a).lines
       IN  /\ \E o \in Order :
                /\ orders[o] = Free
                /\ orders' = [orders EXCEPT ![o] =
                     [lines |-> lines, wish |-> req[a].wish,
                      clean |-> ~Crossed(a) /\ a \notin hist.uncleared]]
           /\ hist' = [hist EXCEPT
                !.shelf = [i \in Item |-> IF Counted(@[i]) THEN @[i] - Count(lines, i)
                                          ELSE NoCount],
                !.raced = @ \cup Doubled(lines)]
    /\ Done(a)
    /\ UNCHANGED <<menu, cart, carts>>

\* deleteOne by the id of the cart that was loaded.
DoDrop(a) ==
    /\ Step(a, "drop")
    /\ cart' = IF Loaded(Todo(a).cart) THEN NoCart ELSE cart
    /\ Done(a)
    /\ UNCHANGED <<menu, carts, orders, hist>>

\* The stock of a sale, or an edit; an edit of the quantity by the staff alone
\* starts the account of the item anew.
DoItem(a) ==
    /\ Step(a, "item")
    /\ LET i == Todo(a).item
           set == Todo(a).set
           to == [f \in DOMAIN menu[i] |-> IF f \in DOMAIN set THEN set[f] ELSE menu[i][f]]
           restock == req[a].op = "edit" /\ "qty" \in DOMAIN set
       IN  IF menu[i].exists
           THEN /\ menu' = [menu EXCEPT ![i] = to]
                /\ hist' = [hist EXCEPT
                     !.raced = IF Crossed(a) THEN @ \cup {i}
                               ELSE IF restock THEN @ \ {i} ELSE @,
                     !.shelf[i] = IF restock THEN to.qty ELSE @]
                /\ Done(a)
           ELSE /\ hist' = [hist EXCEPT !.raced = @ \cup req[a].on]
                /\ Refuse(a)
                /\ UNCHANGED menu
    /\ UNCHANGED <<cart, carts, orders>>

\* The process stops, or MongoDB refuses a write.
Dies(a) ==
    /\ req[a] # Idle
    /\ faults < MaxFaults
    /\ faults' = faults + 1
    /\ req' = [req EXCEPT ![a] = Idle]
    /\ hist' = [hist EXCEPT !.raced = @ \cup req[a].on]
    /\ UNCHANGED <<menu, cart, carts, orders, started>>

-----------------------------------------------------------------------------
Init == /\ menu = [i \in Item |-> [exists |-> TRUE, active |-> TRUE, inStock |-> TRUE,
                                   qty |-> Stock[i]]]
        /\ cart = NoCart
        /\ carts = 0
        /\ orders = [o \in Order |-> Free]
        /\ req = [a \in Actor |-> Idle]
        /\ started = 0
        /\ faults = 0
        /\ hist = NoHistory

StaffRequests(a, i) ==
    \/ \E flag \in BOOLEAN : SetStock(a, i, flag)
    \/ \E n \in Levels : SetQuantity(a, i, n)
    \/ \E n \in Levels, flag \in {{}, {TRUE}, {FALSE}} : BulkUpdateStock(a, i, n, flag)
    \/ SetActive(a, i)
    \/ DeleteMenuItem(a, i)

Steps(a) == \/ DoClear(a) \/ ClearLost(a) \/ DoAdd(a) \/ DoNewCart(a) \/ DoPush(a)
            \/ DoLine(a) \/ DoReplace(a) \/ DoCheckout(a) \/ DoMenu(a) \/ Refused(a)
            \/ DoCreate(a) \/ DoDrop(a) \/ DoItem(a) \/ DoSkip(a)
            \/ Dies(a)

Next == \/ \E a \in Tab : \/ \E w \in Wishes : PlaceOrder(a, w)
                          \/ \E i \in Item, n \in 0..LineLimit : UpdateItem(a, i, n)
        \/ \E a \in GuestTab, w \in Wishes : PlaceGuestOrder(a, w)
        \/ \E a \in Staff, i \in Item : StaffRequests(a, i)
        \/ \E a \in Actor : Steps(a)

Spec == Init /\ [][Next]_vars

-----------------------------------------------------------------------------
(* Properties.                                                              *)

\* Every item, cart and order has the shape its schema gives it: no quantity is
\* negative, no line is empty or over the limit.
TypeOK ==
    /\ menu \in [Item -> [exists : BOOLEAN, active : BOOLEAN, inStock : BOOLEAN,
                          qty : Nat \cup {NoCount}]]
    /\ cart # NoCart => /\ cart.id \in 1..carts
                        /\ \A k \in DOMAIN cart.lines : cart.lines[k] \in Line
    /\ \A o \in Order : orders[o] # Free =>
         \A k \in DOMAIN orders[o].lines : orders[o].lines[k] \in Line

\* What is left of a counted item is what the staff put there less what was
\* ordered since, and so never oversold, unless overlapping requests saved it,
\* one died or failed in between, or a cart had it on two lines: checkout
\* compares the stock with each line, not with their sum.
StockAccounted ==
    \A i \in Item \ hist.raced :
        /\ menu[i].exists
        /\ Counted(menu[i].qty)
        /\ \A a \in Actor : i \notin req[a].on
        => menu[i].qty = hist.shelf[i]

\* An order has what its guest put in the basket and nothing of an earlier
\* attempt: the comment in useCheckout, "start clean so quantities are exact".
\* Two tabs at once, and a lost request to clear the cart, are excepted.
OrderAsWished ==
    \A o \in Order :
        (orders[o] # Free /\ orders[o].clean) =>
            \A i \in Item : Count(orders[o].lines, i) = Count(orders[o].wish, i)

\* A cart has one line per item unless overlapping requests saved it.
OneLinePerItem ==
    (cart # NoCart /\ cart.id \notin hist.mixed) =>
        \A j, k \in DOMAIN cart.lines : cart.lines[j].item = cart.lines[k].item => j = k

\* Carts have the shape of their schema and one line per item.
CartInv == TypeOK /\ OneLinePerItem
=============================================================================
