---------------------------- MODULE ScreensStay ----------------------------
(* The screens of the rooms, their bookings and the banquet halls.         *)
EXTENDS Screen

-----------------------------------------------------------------------------
(* hooks/useAdminRooms.                                                     *)

UseAdminRooms == Ask(<<"admin-rooms">>, "GET /rooms")
RoomKeys == {<<"admin-rooms">>}
RoomPress(call) == Act(call, RoomKeys)

UseAdminBookings == Ask(<<"admin-room-bookings">>, "GET /rooms/admin/bookings")
BookingKeys == {<<"admin-room-bookings">>, <<"admin-rooms">>}
BookingPress(call) == Act(call, BookingKeys)
StatusPress(from, to) == ActIn(from, "PATCH /rooms/bookings/:id/status", to, BookingKeys)

UseTransferOptions ==
    Ask(<<"booking-transfer-options", "id">>, "GET /rooms/bookings/:id/transfer-options")

-----------------------------------------------------------------------------
(* admin/rooms.                                                             *)

RoomFormQueries ==
    Ask(<<"public-kitchens-list">>, "GET /kitchens/public")
    \cup Ask(<<"admin-room-categories-list">>, "GET /rooms/categories")

CreateRoomDialog == RoomFormQueries \cup RoomPress("POST /rooms")
EditRoomDialog == RoomFormQueries \cup RoomPress("PATCH /rooms/:id")

\* The preview's key holds the version and the token of the code.
QrDialog ==
    Ask(<<"qr-preview", "id", "version", "token">>, "GET /rooms/:id/qr/download")
    \cup Fetch({"GET /rooms/:id/qr/download"})
    \cup RoomPress("POST /rooms/:id/qr/generate") \cup RoomPress("PATCH /rooms/:id/qr/disable")
    \cup RoomPress("POST /rooms/:id/qr/reassign")

TransferDialog ==
    UseTransferOptions
    \cup ActIn({"CONFIRMED", "CHECKED_IN"}, "POST /rooms/bookings/:id/transfer", "same", BookingKeys)

\* The buttons of a booking, by its status.
BookingButtons ==
    StatusPress({"PENDING"}, "CONFIRMED") \cup StatusPress({"PENDING"}, "CANCELLED")
    \cup StatusPress({"CONFIRMED"}, "CHECKED_IN") \cup StatusPress({"CONFIRMED"}, "CANCELLED")
    \cup StatusPress({"CHECKED_IN"}, "CHECKED_OUT")

\* The buttons of a transfer that waits, whatever the booking's status.
PendingTransfers ==
    BookingPress("POST /rooms/bookings/:id/transfer/confirm-payment")
    \cup BookingPress("POST /rooms/bookings/:id/transfer/cancel")
    \cup BookingPress("POST /rooms/bookings/:id/transfer/refund-processed")

BookingsList == UseAdminBookings \cup BookingButtons \cup PendingTransfers

NotCancelled == {"PENDING", "CONFIRMED", "CHECKED_IN", "CHECKED_OUT"}

\* The gateway's checkout is verified first and then recorded as well.
PaymentManagementDialog ==
    UseAdminBookings
    \cup Send("POST /rooms/bookings/:id/razorpay") \cup Send("POST /rooms/bookings/:id/verify")
    \cup ActIn(NotCancelled, "PATCH /rooms/bookings/:id/payment", "same", BookingKeys)

InvoiceModal ==
    Ask(<<"booking-invoice", "id">>, "GET /rooms/bookings/:id/invoice")
    \cup Fetch({"GET /rooms/bookings/:id/invoice/download"})

\* Arrival and departure by hand: the QR code and the room's status, side by side.
RoomCard ==
    RoomPress("PATCH /rooms/:id/status") \cup RoomPress("PATCH /rooms/:id/qr/disable")
    \cup RoomPress("POST /rooms/:id/qr/generate")
    \cup RoomPress("PATCH /rooms/:id/activate") \cup RoomPress("PATCH /rooms/:id/deactivate")

RoomsInner == UseAdminRooms \cup RoomCard

AdminRooms ==
    Page("/admin/rooms", AdminGate,
         RoomsInner \cup CreateRoomDialog \cup EditRoomDialog \cup QrDialog \cup BookingsList
         \cup TransferDialog \cup PaymentManagementDialog \cup InvoiceModal)

-----------------------------------------------------------------------------
(* admin/rooms/categories and admin/housekeeping.                           *)

CategoryKeys == {<<"admin-room-categories">>, <<"room-category-audit">>}

CategoryConsistencyPanel ==
    Ask(<<"room-category-audit">>, "GET /rooms/categories-audit")
    \cup Act("POST /rooms/categories-migrate", {<<"room-category-audit">>, <<"admin-rooms">>})

CategoryModal ==
    Act("POST /rooms/categories", CategoryKeys) \cup Act("PATCH /rooms/categories/:id", CategoryKeys)
    \cup Send("POST /rooms/categories/upload-image")

RoomCategories ==
    Page("/admin/rooms/categories", AdminGate,
         Ask(<<"admin-room-categories">>, "GET /rooms/categories")
         \cup Act("DELETE /rooms/categories/:id", CategoryKeys)
         \cup CategoryConsistencyPanel \cup CategoryModal)

\* A room is released once every item of the list is ticked.
Housekeeping ==
    Page("/admin/housekeeping", AdminGate, UseAdminRooms \cup RoomPress("PATCH /rooms/:id/status"))

-----------------------------------------------------------------------------
(* The guest's rooms.                                                       *)

RoomSearch ==
    Ask(<<"available-rooms", "dates", "filters">>, "GET /rooms/search")
    \cup Ask(<<"public-room-categories">>, "GET /rooms/categories")
BookingLookup == AskByHand(<<"my-room-bookings", "guest">>, "GET /rooms/bookings/my-bookings")
GuestRooms == Page("/rooms", NoGate, RoomSearch \cup BookingLookup)

RoomDetails == Page("/rooms/[id]", NoGate, Ask(<<"room-detail", "id">>, "GET /rooms/:id"))

BookedRoom == Ask(<<"room-book-detail", "id">>, "GET /rooms/:id")
CouponField == Send("POST /coupons/validate")

\* The booking is made, then paid at the gateway or dropped when the window
\* of the gateway does not load or is closed.
BookAndPay ==
    Send("POST /rooms/bookings/upload-id") \cup Send("POST /rooms/bookings")
    \cup Send("POST /rooms/bookings/:id/razorpay") \cup Send("POST /rooms/bookings/:id/verify")
    \cup Send("POST /rooms/bookings/:id/cancel-pending")

BookRoom == Page("/rooms/book", AuthGate, BookedRoom \cup CouponField \cup BookAndPay)

BookingConfirmation ==
    Page("/rooms/confirm/[id]", NoGate,
         Ask(<<"booking-confirmation", "id">>, "GET /rooms/bookings/:id")
         \cup ActIn({"PENDING", "CONFIRMED"}, "POST /rooms/bookings/:id/cancel", "same",
                    {<<"booking-confirmation", "id">>})
         \cup Fetch({"GET /rooms/bookings/:id/invoice/download"}))

ScanRoom == Page("/r/[token]", NoGate, Load(<<"scan">>, "GET /rooms/resolve/:token"))

StayScreens ==
    AdminRooms \cup RoomCategories \cup Housekeeping \cup GuestRooms \cup RoomDetails
    \cup BookRoom \cup BookingConfirmation \cup ScanRoom
=============================================================================
