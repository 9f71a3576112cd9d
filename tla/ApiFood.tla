------------------------------ MODULE ApiFood ------------------------------
(* The interface of the kitchens, the menu, the orders and the restaurant.  *)
EXTENDS Api

-----------------------------------------------------------------------------
(* Kitchens.                                                                *)

KitchenRoutes ==
    Allow(Everyone, {<<"GET /kitchens/public", "listPublic">>})
    \cup Allow(Staff, {<<"GET /kitchens/my-kitchen/dashboard", "getKitchenDashboard">>,
                       <<"GET /kitchens/:id", "getKitchen">>,
                       <<"PATCH /kitchens/:id", "updateKitchen">>})
    \cup Allow(Admin, {<<"POST /kitchens", "createKitchen">>, <<"GET /kitchens", "listKitchens">>,
                       <<"DELETE /kitchens/:id", "deleteKitchen">>,
                       <<"PATCH /kitchens/:id/activate", "setKitchenActive">>,
                       <<"PATCH /kitchens/:id/deactivate", "setKitchenActive">>})

KitchenController ==
    Handlers({"listPublic", "listKitchens", "getKitchen", "getKitchenDashboard"})
    \cup Logged(Handlers({"createKitchen", "updateKitchen", "deleteKitchen", "setKitchenActive"}))

\* The owner's account is created, suspended and deleted with the kitchen.
KitchenOps ==
    Writes({"createKitchen", "setKitchenActive"}, {"Kitchen", "User"})
    \cup Writes({"updateKitchen"}, {"Kitchen"})
    \cup Reads({"listPublic"}, {"Kitchen"})
    \cup Reads({"listKitchens", "getKitchen"}, {"Kitchen", "User"})

KitchenRemoval == Writes({"deleteKitchen"}, {"Kitchen", "MenuItem", "Category", "User"})

KitchenFigures == Reads({"getKitchenDashboard"}, {"Order", "MenuItem", "Kitchen"})

-----------------------------------------------------------------------------
(* The menu.                                                                *)

MenuRoutes ==
    Allow(Everyone, {<<"GET /menu/public/:kitchenId", "getPublicMenu">>})
    \cup Allow(Staff,
      {<<"POST /menu/categories", "createMenuCategory">>,
       <<"GET /menu/categories", "listMenuCategories">>,
       <<"GET /menu/categories/:id", "getMenuCategory">>,
       <<"PATCH /menu/categories/:id", "updateMenuCategory">>,
       <<"DELETE /menu/categories/:id", "deleteMenuCategory">>,
       <<"POST /menu/items", "createMenuItem">>, <<"GET /menu/items", "listMenuItems">>,
       <<"PATCH /menu/items/bulk-stock", "bulkUpdateStock">>,
       <<"GET /menu/items/:id", "getMenuItem">>, <<"PATCH /menu/items/:id", "updateMenuItem">>,
       <<"DELETE /menu/items/:id", "deleteMenuItem">>,
       <<"PATCH /menu/items/:id/stock", "setStock">>,
       <<"POST /menu/items/:id/image", "setImage">>,
       <<"DELETE /menu/items/:id/image", "removeImage">>})

MenuController ==
    Logged(Handlers({"createMenuItem", "updateMenuItem", "deleteMenuItem", "setStock",
                     "setImage", "removeImage"}))
    \cup Handlers({"listMenuItems", "getMenuItem", "bulkUpdateStock", "getPublicMenu"})

MenuCategoryController ==
    Logged(Handlers({"createMenuCategory", "updateMenuCategory", "deleteMenuCategory"}))
    \cup Handlers({"listMenuCategories", "getMenuCategory"})

MenuItemOps ==
    Reads({"listMenuItems", "getMenuItem"}, {"MenuItem", "Category"})
    \cup Writes({"createMenuItem", "updateMenuItem", "deleteMenuItem", "setStock",
                 "setImage", "removeImage"}, {"MenuItem"})

PublicMenu == Reads({"getPublicMenu"}, {"Kitchen", "Category", "MenuItem"})
BulkStock == Writes({"bulkUpdateStock"}, {"MenuItem"})

MenuCategoryOps ==
    Reads({"listMenuCategories", "getMenuCategory"}, {"Category"})
    \cup Writes({"createMenuCategory", "updateMenuCategory", "deleteMenuCategory"}, {"Category"})

-----------------------------------------------------------------------------
(* Carts and coupons.                                                       *)

CartRoutes ==
    Allow(Guests,
      {<<"POST /cart/items", "addItem">>, <<"GET /cart/:kitchenId", "getCart">>,
       <<"DELETE /cart/:kitchenId", "clearCart">>, <<"PATCH /cart/:kitchenId/note", "setNote">>,
       <<"PATCH /cart/:kitchenId/items/:menuItemId", "updateItem">>,
       <<"DELETE /cart/:kitchenId/items/:menuItemId", "removeItem">>})

CartController == Handlers({"addItem", "getCart", "clearCart", "setNote", "updateItem", "removeItem"})

\* The view of a cart is priced from the menu each time.
CartOps ==
    Writes({"addItem", "clearCart", "setNote", "updateItem", "removeItem"}, {"Cart"})
    \cup Reads({"getCart"}, {"Cart", "MenuItem", "Kitchen"})

CouponRoutes ==
    Allow(Guests, {<<"POST /coupons/validate", "validateCoupon">>})
    \cup Allow(Admin,
      {<<"POST /coupons", "createCoupon">>, <<"GET /coupons", "listCoupons">>,
       <<"GET /coupons/:id", "getCoupon">>, <<"PATCH /coupons/:id", "updateCoupon">>,
       <<"DELETE /coupons/:id", "deleteCoupon">>})

CouponController ==
    Logged(Handlers({"createCoupon", "updateCoupon", "deleteCoupon"}))
    \cup Handlers({"listCoupons", "getCoupon", "validateCoupon"})

CouponAdminOps ==
    Reads({"listCoupons", "getCoupon", "validateCoupon"}, {"Coupon"})
    \cup Writes({"createCoupon", "updateCoupon", "deleteCoupon"}, {"Coupon"})

-----------------------------------------------------------------------------
(* Orders and their payments.                                               *)

OrderRoutes ==
    Allow(Everyone, {<<"POST /orders/guest-checkout", "guestCheckout">>,
                     <<"GET /orders/track/:token", "getByGuestToken">>})
    \cup Allow(Guests, {<<"POST /orders/link-guest-orders", "linkMyGuestOrders">>,
                        <<"POST /orders/checkout", "checkout">>, <<"GET /orders/my", "listForCustomer">>,
                        <<"GET /orders/my/:id", "getForCustomer">>})
    \cup Allow(Staff, {<<"GET /orders", "listForStaff">>, <<"GET /orders/:id", "getForStaff">>,
                       <<"PATCH /orders/:id/status", "updateStatus">>,
                       <<"PATCH /orders/:id/force-status", "forceStatus">>,
                       <<"POST /orders/:id/cancel", "cancelOrder">>,
                       <<"POST /orders/:id/cancel-items", "cancelItems">>,
                       <<"POST /orders/:id/notes", "addInternalNote">>,
                       <<"POST /orders/:id/refund-request", "requestRefund">>})
    \cup Allow(Admin, {<<"POST /orders/:id/refund-approve", "approveRefund">>,
                       <<"POST /orders/:id/refund-reject", "rejectRefund">>})
    \cup Allow(Roles, {<<"GET /orders/:id/invoice", "downloadInvoice">>})

GuestOrderController ==
    Logged(Handlers({"guestCheckout", "linkMyGuestOrders", "checkout"}))
    \cup Handlers({"getByGuestToken", "listForCustomer", "getForCustomer", "listForStaff"})

StaffOrderController ==
    Handlers({"getForStaff"})
    \cup Logged(Handlers({"updateStatus", "forceStatus", "cancelOrder", "cancelItems",
                          "addInternalNote", "requestRefund", "rejectRefund"}))
    \cup Logged(Runs("approveRefund", {"approveRefund", "processRefund"}))
    \cup Runs("downloadInvoice", {"getForStaff", "getForCustomer", "generateInvoiceHtml"})

OrderNews(event) == Tell("user", event) \cup Tell("kitchen", event) \cup Tell("admins", event)

\* A cash or room order is announced at once, an online one when it is paid.
Placed == Tell("kitchen", "order:new") \cup Tell("admins", "order:new")
          \cup Tell("admins", "table:status")
CartCheckout ==
    Announces({"checkout"}, {"Order", "Cart", "Coupon", "MenuItem", "RestaurantTable"}, Placed)
GuestCheckout ==
    Announces({"guestCheckout"}, {"Order", "Coupon", "MenuItem", "RestaurantTable"}, Placed)

OrderLookups ==
    Reads({"getByGuestToken", "listForCustomer", "getForCustomer", "listForStaff", "getForStaff"},
          {"Order"})

OrderPaper == Reads({"generateInvoiceHtml"}, {"Order", "Kitchen"})

OrderStatusOps == Announces({"updateStatus", "forceStatus"}, {"Order"}, OrderNews("order:updated"))

OrderCancellations ==
    Announces({"cancelOrder"}, {"Order"}, OrderNews("order:cancelled"))
    \cup Announces({"cancelItems"}, {"Order"}, OrderNews("order:updated"))
    \cup Writes({"addInternalNote"}, {"Order"})

RefundWorkflow ==
    Announces({"requestRefund", "rejectRefund"}, {"Order"}, OrderNews("refund:updated"))
    \cup Writes({"approveRefund"}, {"Order"})

LinkOrders == Writes({"linkMyGuestOrders"}, {"Order"})

PaymentRoutes ==
    Allow(Everyone, {<<"POST /payments/webhook", "webhook">>,
                     <<"POST /payments/guest/razorpay", "guestCreateOrder">>,
                     <<"POST /payments/guest/verify", "guestVerify">>})
    \cup Allow(Guests, {<<"POST /payments/orders/:orderId/razorpay", "createOrder">>,
                        <<"POST /payments/orders/:orderId/verify", "verify">>,
                        <<"POST /payments/orders/:orderId/failed", "failed">>})
    \cup Allow(Staff, {<<"POST /payments/orders/:orderId/refund", "refund">>})

PaymentController ==
    Logged(Runs("createOrder", {"createRazorpayOrder"}) \cup Runs("guestCreateOrder", {"createRazorpayOrder"})
           \cup Runs("verify", {"settle"}) \cup Runs("guestVerify", {"settle"})
           \cup Runs("failed", {"markFailed"}) \cup Runs("refund", {"processRefund"})
           \cup Runs("webhook", {"settle", "markFailed", "webhookEvents"}))

Settlement ==
    Writes({"createRazorpayOrder"}, {"Order"})
    \cup Writes({"webhookEvents"}, {"Order", "TableReservation"})
    \cup Announces({"settle"}, {"Order"}, Placed \cup Tell("user", "payment:updated"))
    \cup Announces({"markFailed"}, {"Order"}, Tell("admins", "payment:updated"))

\* The kitchen is not told.
Refunds ==
    Announces({"processRefund"}, {"Order"},
              Tell("user", "refund:updated") \cup Tell("admins", "refund:updated"))

-----------------------------------------------------------------------------
(* The restaurant.                                                          *)

RestaurantRoutes ==
    Allow(Everyone,
      {<<"GET /restaurant/availability", "getAvailableTables">>,
       <<"GET /restaurant/tables/resolve/:token", "resolveTableByToken">>,
       <<"GET /restaurant/tables/:id/bill", "getTableBill">>,
       <<"POST /restaurant/tables/:id/customer-request-bill", "customerRequestBill">>,
       <<"POST /restaurant/reservations", "createReservation">>,
       <<"POST /restaurant/reservations/:id/razorpay", "createTableRazorpayOrder">>,
       <<"POST /restaurant/reservations/:id/verify", "verifyTablePayment">>,
       <<"POST /restaurant/waitlist", "joinWaitlist">>,
       <<"GET /restaurant/waitlist/status", "checkWaitlistStatus">>})
    \cup Allow(Admin,
      {<<"GET /restaurant/tables", "listTables">>, <<"POST /restaurant/tables", "createTable">>,
       <<"PATCH /restaurant/tables/:id", "updateTable">>,
       <<"DELETE /restaurant/tables/:id", "deactivateTable">>,
       <<"POST /restaurant/tables/:id/qr", "regenerateTableQr">>,
       <<"POST /restaurant/tables/:id/seat", "seatTable">>,
       <<"POST /restaurant/tables/:id/request-bill", "requestBill">>,
       <<"POST /restaurant/tables/:id/close", "closeTable">>,
       <<"GET /restaurant/reservations", "listReservations">>,
       <<"PATCH /restaurant/reservations/:id", "updateReservation">>,
       <<"GET /restaurant/waitlist", "listWaitlist">>,
       <<"PATCH /restaurant/waitlist/:id/seat", "seatWaitlistGuest">>,
       <<"PATCH /restaurant/waitlist/:id/cancel", "cancelWaitlistEntry">>,
       <<"POST /restaurant/waitlist/auto-assign", "autoAssignTables">>})

RestaurantController ==
    Handlers({"getAvailableTables", "resolveTableByToken", "getTableBill", "customerRequestBill",
              "createReservation", "createTableRazorpayOrder", "verifyTablePayment",
              "listTables", "createTable", "updateTable", "deactivateTable", "regenerateTableQr",
              "seatTable", "requestBill", "closeTable", "listReservations", "updateReservation"})

WaitlistController ==
    Handlers({"joinWaitlist", "checkWaitlistStatus", "listWaitlist", "seatWaitlistGuest",
              "cancelWaitlistEntry", "autoAssignTables"})

TableOps ==
    Reads({"listTables"}, {"RestaurantTable"})
    \cup Writes({"createTable", "updateTable", "deactivateTable", "regenerateTableQr"},
                {"RestaurantTable", "AuditLog"})

TableNews == Tell("admins", "table:status")
SeatingOps ==
    Announces({"seatTable", "closeTable"},
              {"RestaurantTable", "TableReservation", "Order", "AuditLog"}, TableNews)
    \cup Announces({"requestBill"}, {"RestaurantTable", "AuditLog"}, TableNews)

TableBill ==
    Reads({"getTableBill"}, {"RestaurantTable", "Order"})
    \cup Announces({"customerRequestBill"}, {"RestaurantTable"}, TableNews)

TableLookups ==
    Reads({"resolveTableByToken"}, {"RestaurantTable"})
    \cup Reads({"getAvailableTables"}, {"RestaurantTable", "TableReservation"})
    \cup Reads({"listReservations"}, {"TableReservation", "RestaurantTable"})

ReservationCreation ==
    Writes({"createReservation"}, {"TableReservation", "AuditLog"})
    \cup Writes({"createTableRazorpayOrder"}, {"TableReservation"})

ReservationPayment ==
    Announces({"verifyTablePayment"}, {"TableReservation", "RestaurantTable"}, TableNews)

ReservationUpdate == Writes({"updateReservation"}, {"TableReservation", "RestaurantTable", "AuditLog"})

WaitlistNews == Tell("admins", "waitlist:updated")
WaitlistEntryOps ==
    Announces({"joinWaitlist"}, {"Waitlist"}, WaitlistNews)
    \cup Reads({"checkWaitlistStatus"}, {"Waitlist"})
    \cup Reads({"listWaitlist"}, {"Waitlist"})

WaitlistSeating ==
    Announces({"seatWaitlistGuest", "autoAssignTables"}, {"Waitlist", "RestaurantTable"},
              WaitlistNews \cup TableNews)
    \cup Announces({"cancelWaitlistEntry"}, {"Waitlist"}, WaitlistNews)

-----------------------------------------------------------------------------
(* Statuses.                                                                *)

OrderStatuses == {"NEW_ORDER", "ACCEPTED", "PREPARING", "READY",
                  "OUT_FOR_DELIVERY", "DELIVERED", "CANCELLED", "REJECTED"}
Cancellable == {"NEW_ORDER", "ACCEPTED", "PREPARING", "READY"}

\* The status after which updateStatus accepts another one.
OrderMoves ==
    {<<"NEW_ORDER", "ACCEPTED">>, <<"NEW_ORDER", "REJECTED">>, <<"ACCEPTED", "PREPARING">>,
     <<"PREPARING", "READY">>, <<"READY", "OUT_FOR_DELIVERY">>, <<"READY", "DELIVERED">>,
     <<"OUT_FOR_DELIVERY", "DELIVERED">>}

OrderLife ==
    UNION {Life({"updateStatus"}, "Order", {m[1]}, m[2]) : m \in OrderMoves}
    \cup Life({"forceStatus"}, "Order", OrderStatuses, "asked")
    \cup Life({"cancelOrder"}, "Order", Cancellable, "CANCELLED")
    \cup Life({"cancelItems"}, "Order", Cancellable, "same")

TableLife ==
    Life({"seatTable"}, "RestaurantTable", {"AVAILABLE", "RESERVED"}, "OCCUPIED")
    \cup Life({"requestBill"}, "RestaurantTable", {"OCCUPIED"}, "BILLING")
    \cup Life({"closeTable"}, "RestaurantTable", {"RESERVED", "OCCUPIED", "BILLING"}, "AVAILABLE")
    \cup Life({"customerRequestBill"}, "RestaurantTable", {"OCCUPIED", "BILLING"}, "BILLING")
    \cup Life({"deactivateTable"}, "RestaurantTable", {"AVAILABLE", "RESERVED", "INACTIVE"}, "INACTIVE")

QueueStatuses == {"PENDING", "SEATED", "CANCELLED"}
WaitlistLife ==
    Life({"seatWaitlistGuest"}, "Waitlist", {"PENDING"}, "SEATED")
    \cup Life({"cancelWaitlistEntry"}, "Waitlist", QueueStatuses, "CANCELLED")

-----------------------------------------------------------------------------
FoodRoutes ==
    KitchenRoutes \cup MenuRoutes \cup CartRoutes \cup CouponRoutes \cup OrderRoutes
    \cup PaymentRoutes \cup RestaurantRoutes
FoodControllers ==
    KitchenController \cup MenuController \cup MenuCategoryController \cup CartController
    \cup CouponController \cup GuestOrderController \cup StaffOrderController
    \cup PaymentController \cup RestaurantController \cup WaitlistController
FoodOperations ==
    KitchenOps \cup KitchenRemoval \cup KitchenFigures \cup MenuItemOps \cup PublicMenu
    \cup BulkStock \cup MenuCategoryOps \cup CartOps \cup CouponAdminOps \cup CartCheckout
    \cup GuestCheckout \cup OrderLookups \cup OrderPaper \cup OrderStatusOps \cup OrderCancellations
    \cup RefundWorkflow \cup LinkOrders \cup Settlement \cup Refunds \cup TableOps
    \cup SeatingOps \cup TableBill \cup TableLookups \cup ReservationCreation
    \cup ReservationPayment \cup ReservationUpdate \cup WaitlistEntryOps \cup WaitlistSeating
FoodLives == OrderLife \cup TableLife \cup WaitlistLife
=============================================================================
