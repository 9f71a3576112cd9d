---------------------------- MODULE ScreensFood ----------------------------
(* The screens of the kitchens, the menu, the orders and the restaurant.    *)
EXTENDS Screen

-----------------------------------------------------------------------------
(* The hooks.                                                               *)

KitchenKeys == {<<"admin-kitchens">>, <<"kitchen-self">>, <<"kitchen-dashboard">>}
UseAdminKitchens == Ask(<<"admin-kitchens">>, "GET /kitchens")
UpdateKitchen == Act("PATCH /kitchens/:id", KitchenKeys)

MenuKeys == {<<"admin-categories", "kitchen">>, <<"admin-menu-items", "kitchen">>}
UseCategories == Ask(<<"admin-categories", "kitchen">>, "GET /menu/categories")
UseMenuItems == Ask(<<"admin-menu-items", "kitchen", "category">>, "GET /menu/items")
MenuPress(call) == Act(call, MenuKeys)

CouponKeys == {<<"admin-coupons">>}
UseAdminCoupons ==
    Ask(<<"admin-coupons">>, "GET /coupons")
    \cup Act("POST /coupons", CouponKeys) \cup Act("PATCH /coupons/:id", CouponKeys)
    \cup Act("DELETE /coupons/:id", CouponKeys)

UseAdminOrders == Ask(<<"admin-orders", "status", "kitchen">>, "GET /orders")
UseAdminOrder == Ask(<<"admin-order", "id">>, "GET /orders/:id")
AdminOrderKeys == {<<"admin-orders">>, <<"admin-order", "id">>}

UseMyOrders == Ask(<<"orders">>, "GET /orders/my")

\* Polls as well, should the socket drop.
UseOrder ==
    Poll(<<"order", "id">>, "GET /orders/my/:id")
    \cup Hear({"order:updated", "order:cancelled", "payment:updated", "refund:updated"},
              {<<"order", "id">>, <<"orders">>})

QueueKeys == {<<"kitchen-orders">>}
UseKitchenOrders ==
    Poll(<<"kitchen-orders">>, "GET /orders")
    \cup Hear({"order:new", "order:updated", "order:cancelled"}, QueueKeys)

\* The floor plan is under another key than the second one.
WaitlistKeys == {<<"restaurant-waitlist">>, <<"admin-tables">>}
UseWaitlistQueue == Ask(<<"restaurant-waitlist", "PENDING">>, "GET /restaurant/waitlist")
WaitlistPress ==
    ActIn({"PENDING"}, "PATCH /restaurant/waitlist/:id/seat", "SEATED", WaitlistKeys)
    \cup ActIn({"PENDING"}, "PATCH /restaurant/waitlist/:id/cancel", "CANCELLED", WaitlistKeys)
    \cup Act("POST /restaurant/waitlist/auto-assign", WaitlistKeys)

\* The cart of the browser is copied to the server, line by line.
PlaceOrder ==
    Send("DELETE /cart/:kitchenId") \cup Send("POST /cart/items") \cup Send("POST /orders/checkout")
    \cup Send("POST /payments/orders/:orderId/razorpay")
    \cup Send("POST /payments/orders/:orderId/verify")
    \cup Send("POST /payments/orders/:orderId/failed")
PlaceGuestOrder ==
    Send("POST /orders/guest-checkout") \cup Send("POST /payments/guest/razorpay")
    \cup Send("POST /payments/guest/verify")

-----------------------------------------------------------------------------
(* Kitchens.                                                                *)

CreateKitchenDialog == Act("POST /kitchens", KitchenKeys)
EditKitchenDialog == UpdateKitchen
DeleteKitchenDialog == Act("DELETE /kitchens/:id", KitchenKeys)

AdminKitchens ==
    Page("/admin/kitchens", AdminGate,
         UseAdminKitchens \cup CreateKitchenDialog \cup EditKitchenDialog \cup DeleteKitchenDialog
         \cup Act("PATCH /kitchens/:id/activate", KitchenKeys)
         \cup Act("PATCH /kitchens/:id/deactivate", KitchenKeys))

KitchenSelf == Ask(<<"kitchen-self", "id">>, "GET /kitchens/:id") \cup UpdateKitchen
OperatingHours == Page("/kitchen/operating-hours", KitchenGate, KitchenSelf)
KitchenSettings == Page("/kitchen/settings", KitchenGate, KitchenSelf)

\* Closing and opening the kitchen.
KitchenDashboard ==
    Page("/kitchen", KitchenGate,
         Ask(<<"kitchen-dashboard">>, "GET /kitchens/my-kitchen/dashboard") \cup UpdateKitchen)

-----------------------------------------------------------------------------
(* The menu, the stock and the coupons.                                     *)

ItemForm ==
    MenuPress("POST /menu/items") \cup MenuPress("PATCH /menu/items/:id")
    \cup MenuPress("POST /menu/items/:id/image")

MenuManager ==
    UseCategories \cup UseMenuItems \cup ItemForm
    \cup MenuPress("POST /menu/categories") \cup MenuPress("DELETE /menu/categories/:id")
    \cup MenuPress("DELETE /menu/items/:id") \cup MenuPress("PATCH /menu/items/:id/stock")

StockManager ==
    UseMenuItems
    \cup Act("PATCH /menu/items/bulk-stock", {<<"admin-menu-items", "kitchen">>})

AdminMenu == Page("/admin/menu", AdminGate, UseAdminKitchens \cup MenuManager)
AdminStock == Page("/admin/stock", AdminGate, UseAdminKitchens \cup StockManager)
KitchenMenu == Page("/kitchen/menu", KitchenGate, MenuManager)
KitchenStock == Page("/kitchen/stock", KitchenGate, StockManager)

AdminCoupons == Page("/admin/coupons", AdminGate, UseAdminCoupons)

-----------------------------------------------------------------------------
(* Orders.                                                                  *)

\* The buttons of an order, by its status.
Advance(keys) ==
    LET Button(from, to) == ActIn({from}, "PATCH /orders/:id/status", to, keys)
    IN Button("NEW_ORDER", "ACCEPTED") \cup Button("NEW_ORDER", "REJECTED")
       \cup Button("ACCEPTED", "PREPARING") \cup Button("PREPARING", "READY")
       \cup Button("READY", "OUT_FOR_DELIVERY") \cup Button("OUT_FOR_DELIVERY", "DELIVERED")

Cooking == {"ACCEPTED", "PREPARING", "READY"}
Sorts == Cooking \cup {"NEW_ORDER", "OUT_FOR_DELIVERY", "DELIVERED", "CANCELLED", "REJECTED"}

\* What needs a confirmation or a text: another status by force, a note.
OrderOverrides ==
    UNION {ActIn(Sorts \ {s}, "PATCH /orders/:id/force-status", s, AdminOrderKeys) : s \in Sorts}
    \cup Act("POST /orders/:id/notes", AdminOrderKeys)
    \cup ActIn({"NEW_ORDER"} \cup Cooking, "POST /orders/:id/cancel", "CANCELLED", AdminOrderKeys)

OrderDetailDialog ==
    UseAdminOrder \cup Advance(AdminOrderKeys) \cup OrderOverrides
    \cup ActIn({"READY"}, "PATCH /orders/:id/status", "DELIVERED", AdminOrderKeys)
    \cup Act("POST /payments/orders/:orderId/refund", AdminOrderKeys)
    \cup Fetch({"GET /orders/:id/invoice"})

OrdersList == UseAdminOrders \cup OrderDetailDialog
AdminOrders == Page("/admin/orders", AdminGate, UseAdminKitchens \cup OrdersList)
KitchenOrders == Page("/kitchen/orders", KitchenGate, OrdersList)

OrderCard ==
    Advance(QueueKeys)
    \cup ActIn(Cooking, "POST /orders/:id/cancel", "CANCELLED", QueueKeys)
KitchenQueue == Page("/kitchen/queue", KitchenGate, UseKitchenOrders \cup OrderCard)

PendingRefunds == {<<"refund-orders-pending">>}
RefundTabs ==
    Ask(<<"refund-orders-pending">>, "GET /orders")
    \cup Ask(<<"refund-orders-history">>, "GET /orders")
    \cup Act("POST /orders/:id/refund-approve", PendingRefunds \cup {<<"refund-orders-history">>})
    \cup Act("POST /orders/:id/refund-reject", PendingRefunds)
RequestRefundModal ==
    Fetch({"GET /orders"}) \cup Act("POST /orders/:id/refund-request", PendingRefunds)
AdminRefunds == Page("/admin/refunds", AdminGate, RefundTabs \cup RequestRefundModal)

KitchenRefunds ==
    Page("/kitchen/refunds", KitchenGate,
         Ask(<<"kitchen-refund-pending">>, "GET /orders")
         \cup Ask(<<"kitchen-refund-history">>, "GET /orders")
         \cup Act("POST /orders/:id/refund-request", {<<"kitchen-refund-pending">>}))

-----------------------------------------------------------------------------
(* The guest's food.                                                        *)

PublicKitchens == Ask(<<"public-kitchens">>, "GET /kitchens/public")
Menu == Page("/menu", NoGate, PublicKitchens)
LandingDining ==
    Page("/", NoGate,
         PublicKitchens \cup Ask(<<"public-menu", "kitchen">>, "GET /menu/public/:kitchenId"))

\* The bill of a table's session; it may be asked for while there is a session
\* whose bill was not asked for.
TableSessionBill ==
    Poll(<<"table-bill", "id">>, "GET /restaurant/tables/:id/bill")
    \cup ActIn({"OCCUPIED"}, "POST /restaurant/tables/:id/customer-request-bill", "BILLING",
              {<<"table-bill", "id">>})

UseMenu == Ask(<<"menu", "kitchen">>, "GET /menu/public/:kitchenId")
BannerSlider == Ask(<<"active-banners", "kitchen">>, "GET /banners/active")
KitchenMenuPage == Page("/k/[kitchenId]", NoGate, UseMenu \cup BannerSlider \cup TableSessionBill)

\* Only a customer's coupon is looked up before the order is placed.
CheckCoupon == Send("POST /coupons/validate")
CheckoutPage ==
    Page("/checkout", {"CUSTOMER"}, CheckCoupon \cup PlaceOrder)
    \cup Page("/checkout", NoGate \ {"CUSTOMER"}, PlaceGuestOrder)

StaysTab ==
    Ask(<<"my-room-bookings", "email">>, "GET /rooms/bookings/my-bookings")
    \cup ActIn({"PENDING", "CONFIRMED"}, "POST /rooms/bookings/:id/cancel", "same",
               {<<"my-room-bookings">>})
OrdersTab == UseMyOrders
TicketsTab ==
    Ask(<<"my-service-tickets", "email">>, "GET /complaints/my")
    \cup Ask(<<"service-eligibility", "email">>, "GET /complaints/eligibility")
    \cup Act("POST /complaints", {<<"my-service-tickets", "email">>})
    \cup Hear({"complaint:new", "complaint:updated"}, {<<"my-service-tickets">>})
MyOrders == Page("/orders", AuthGate, StaysTab \cup OrdersTab \cup TicketsTab)

OrderPage ==
    Page("/orders/[id]", AuthGate,
         UseOrder \cup Send("POST /payments/orders/:orderId/razorpay")
         \cup Act("POST /payments/orders/:orderId/verify", {<<"order", "id">>})
         \cup Fetch({"GET /orders/:id/invoice"}))

GuestOrder ==
    Page("/g/[token]", NoGate,
         Poll(<<"guest-order", "token">>, "GET /orders/track/:token")
         \cup Send("POST /payments/guest/razorpay")
         \cup Act("POST /payments/guest/verify", {<<"guest-order", "token">>}))

-----------------------------------------------------------------------------
(* The restaurant.                                                          *)

FloorKeys == {<<"restaurant-tables">>}

\* The dialogs of a table, each opened by a button that its status shows.
SeatDialog == ActIn({"AVAILABLE"}, "POST /restaurant/tables/:id/seat", "OCCUPIED", FloorKeys)
RequestBillDialog ==
    ActIn({"OCCUPIED"}, "POST /restaurant/tables/:id/request-bill", "BILLING", FloorKeys)
CloseTableDialog == ActIn({"BILLING"}, "POST /restaurant/tables/:id/close", "AVAILABLE", FloorKeys)

\* "Edit Session" opens the dialog of the seating again.
TableCard ==
    SeatDialog \cup RequestBillDialog \cup CloseTableDialog
    \cup ActIn({"OCCUPIED"}, "POST /restaurant/tables/:id/seat", "same", FloorKeys)

CreateTableDialog == Act("POST /restaurant/tables", FloorKeys)
TableQRModal == Act("POST /restaurant/tables/:id/qr", FloorKeys)
StaffBillModal == Ask(<<"table-bill", "id">>, "GET /restaurant/tables/:id/bill")

FloorQueries ==
    Poll(<<"restaurant-tables", "section", "floor">>, "GET /restaurant/tables")
    \cup Ask(<<"kitchens-list">>, "GET /kitchens")
ReservationsToday == Poll(<<"restaurant-reservations-today">>, "GET /restaurant/reservations")
FloorEvents ==
    Hear({"table:status"}, FloorKeys) \cup Hear({"waitlist:updated"}, {<<"restaurant-waitlist">>})
WaitlistPanel == UseWaitlistQueue \cup WaitlistPress

AdminRestaurant ==
    Page("/admin/restaurant", AdminGate,
         FloorQueries \cup TableCard \cup CreateTableDialog \cup TableQRModal \cup StaffBillModal
         \cup ReservationsToday \cup WaitlistPanel \cup FloorEvents)

ReservationKeys == {<<"reservations">>}
ReservationList == Act("PATCH /restaurant/reservations/:id", ReservationKeys)
AdminReservations ==
    Page("/admin/restaurant/reservations", AdminGate,
         Ask(<<"restaurant-tables-all">>, "GET /restaurant/tables")
         \cup Ask(<<"reservations", "date">>, "GET /restaurant/reservations")
         \cup Act("POST /restaurant/reservations", ReservationKeys) \cup ReservationList)

ReserveAndPay ==
    Send("POST /restaurant/reservations") \cup Send("POST /restaurant/reservations/:id/razorpay")
    \cup Send("POST /restaurant/reservations/:id/verify")
BookTable ==
    Page("/restaurant/book", AuthGate,
         Load(<<"tables">>, "GET /restaurant/availability") \cup ReserveAndPay)

ConfirmTable ==
    Page("/restaurant/book/confirm/[id]", NoGate,
         Load(<<"reservation">>, "GET /restaurant/reservations"))

GuestWaitlist ==
    Page("/restaurant/waitlist", AuthGate,
         Act("POST /restaurant/waitlist", WaitlistKeys)
         \cup Ask(<<"guest-waitlist-status", "who">>, "GET /restaurant/waitlist/status"))

ScanTable == Page("/t/[token]", NoGate, Load(<<"scan">>, "GET /restaurant/tables/resolve/:token"))

FoodScreens ==
    AdminKitchens \cup OperatingHours \cup KitchenSettings \cup KitchenDashboard
    \cup AdminMenu \cup AdminStock \cup KitchenMenu \cup KitchenStock \cup AdminCoupons
    \cup AdminOrders \cup KitchenOrders \cup KitchenQueue \cup AdminRefunds \cup KitchenRefunds
    \cup LandingDining \cup Menu \cup KitchenMenuPage \cup CheckoutPage
    \cup MyOrders \cup OrderPage \cup GuestOrder
    \cup AdminRestaurant \cup AdminReservations \cup BookTable \cup ConfirmTable
    \cup GuestWaitlist \cup ScanTable
=============================================================================
