------------------------------ MODULE ApiStay ------------------------------
(* The interface of the hotel's own services: rooms, categories, bookings. *)
EXTENDS Api

-----------------------------------------------------------------------------
(* Rooms and their bookings.                                                *)

RoomRoutes ==
    Allow(Everyone,
      {<<"GET /rooms/resolve/:token", "resolveScan">>,
       <<"GET /rooms/categories", "listCategories">>,
       <<"GET /rooms/categories/:id", "getCategory">>,
       <<"GET /rooms/search", "searchAvailableRooms">>,
       <<"POST /rooms/bookings/upload-id", "uploadIdProof">>,
       <<"POST /rooms/bookings", "createRoomBooking">>,
       <<"GET /rooms/bookings/my-bookings", "getGuestBookings">>,
       <<"GET /rooms/bookings/:id", "getBookingDetail">>,
       <<"POST /rooms/bookings/:id/cancel-pending", "cancelPendingBooking">>,
       <<"POST /rooms/bookings/:id/razorpay", "createBookingRazorpayOrder">>,
       <<"POST /rooms/bookings/:id/verify", "verifyBookingPayment">>,
       <<"POST /rooms/bookings/:id/cancel", "cancelGuestBooking">>,
       <<"GET /rooms/:id", "getRoom">>,
       <<"GET /rooms/bookings/:id/invoice/download", "downloadBookingInvoice">>})
    \cup Allow(Roles, {<<"GET /rooms/bookings/:id/invoice", "getBookingInvoiceData">>})
    \cup Allow(Admin,
      {<<"POST /rooms/categories/upload-image", "uploadCategoryImage">>,
       <<"POST /rooms/categories", "createCategory">>,
       <<"GET /rooms/categories-audit", "auditCategories">>,
       <<"POST /rooms/categories-migrate", "migrateOrphans">>,
       <<"PATCH /rooms/categories/:id", "updateCategory">>,
       <<"DELETE /rooms/categories/:id", "deleteCategory">>})

\* Behind router.use(authenticate, authorize(SUPER_ADMIN)).
RoomDeskRoutes ==
    Allow(Admin,
      {<<"POST /rooms", "createRoom">>, <<"GET /rooms", "listRooms">>,
       <<"PATCH /rooms/:id", "updateRoom">>, <<"DELETE /rooms/:id", "deleteRoom">>,
       <<"PATCH /rooms/:id/activate", "setRoomActive">>,
       <<"PATCH /rooms/:id/deactivate", "setRoomActive">>,
       <<"POST /rooms/:id/qr/generate", "regenerateQr">>,
       <<"GET /rooms/:id/qr/download", "downloadQr">>,
       <<"PATCH /rooms/:id/qr/disable", "disableQr">>,
       <<"POST /rooms/:id/qr/reassign", "reassignQr">>,
       <<"GET /rooms/admin/bookings", "listRoomBookings">>,
       <<"PATCH /rooms/bookings/:id/status", "updateBookingStatus">>,
       <<"PATCH /rooms/:id/status", "setRoomStatus">>,
       <<"POST /rooms/bookings/:id/checkin", "checkInGuest">>,
       <<"POST /rooms/bookings/:id/checkout", "checkOutGuest">>,
       <<"PATCH /rooms/bookings/:id/payment", "recordBookingPayment">>,
       <<"GET /rooms/bookings/:id/transfer-options", "getTransferOptions">>,
       <<"POST /rooms/bookings/:id/upgrade", "upgradeRoom">>,
       <<"POST /rooms/bookings/:id/transfer", "transferRoom">>,
       <<"POST /rooms/bookings/:id/transfer/confirm-payment", "confirmTransferPayment">>,
       <<"POST /rooms/bookings/:id/transfer/cancel", "cancelPendingTransfer">>,
       <<"POST /rooms/bookings/:id/transfer/refund-processed", "markTransferRefundProcessed">>,
       <<"GET /rooms/admin/reports", "getReports">>})

RoomController ==
    Logged(Handlers({"createRoom", "updateRoom", "deleteRoom", "setRoomActive",
                     "regenerateQr", "disableQr", "reassignQr"}))
    \cup Handlers({"listRooms", "getRoom", "resolveScan"})
    \cup Runs("downloadQr", {"getRoom"})

\* These handlers are mounted without asyncHandler.
CategoryController ==
    Uncaught(Handlers({"uploadCategoryImage", "createCategory", "listCategories",
                       "auditCategories", "getCategory", "updateCategory", "deleteCategory"})
             \cup Logged(Handlers({"migrateOrphans"})))

BookingController ==
    Handlers({"uploadIdProof", "searchAvailableRooms", "createRoomBooking", "getGuestBookings",
              "getBookingDetail", "listRoomBookings", "updateBookingStatus", "setRoomStatus",
              "cancelPendingBooking", "getBookingInvoiceData", "checkInGuest", "checkOutGuest",
              "upgradeRoom", "transferRoom", "getTransferOptions", "confirmTransferPayment",
              "cancelPendingTransfer", "markTransferRefundProcessed", "recordBookingPayment",
              "getReports", "createBookingRazorpayOrder", "verifyBookingPayment",
              "cancelGuestBooking"})
    \cup Runs("downloadBookingInvoice", {"getBookingInvoiceData", "generateInvoicePdfBuffer"})

\* room.service.
RoomLookups == Reads({"listRooms", "getRoom"}, {"Room", "Kitchen"})
CategoryAudit == Reads({"auditCategories"}, {"Room", "RoomCategory"})

RoomChanges ==
    Writes({"updateRoom", "deleteRoom", "setRoomActive", "regenerateQr", "disableQr"}, {"Room"})

QrSwap == Writes({"reassignQr"}, {"Room"})

RoomCreation == Writes({"createRoom"}, {"Room"})

RoomMigration == Writes({"migrateOrphans"}, {"Room"})

ScanLookup == Reads({"resolveScan"}, {"Room", "Kitchen", "RoomBooking"})

CategoryOps ==
    Reads({"listCategories", "getCategory"}, {"RoomCategory"})
    \cup Writes({"createCategory", "deleteCategory"}, {"RoomCategory"})
    \cup Writes({"updateCategory"}, {"RoomCategory", "Room"})
    \cup Writes({"uploadCategoryImage"}, {})

\* roomBooking.service.
AvailableRooms == Reads({"searchAvailableRooms"}, {"Room", "RoomBooking", "RoomCategory"})

BookingCreation ==
    Writes({"createRoomBooking"}, {"RoomBooking", "Coupon", "AuditLog"})
    \cup Writes({"uploadIdProof"}, {})

BookingLookups ==
    Reads({"getGuestBookings", "listRoomBookings"}, {"RoomBooking", "Room"})

BookingStatusOps ==
    Writes({"updateBookingStatus"}, {"RoomBooking", "Room", "AuditLog"})

BookingPaymentOps == Writes({"recordBookingPayment"}, {"RoomBooking", "AuditLog"})

BookingViews ==
    Reads({"getBookingDetail"}, {"RoomBooking", "Room"})
    \cup Writes({"setRoomStatus"}, {"Room"})

InvoiceLookup ==
    Reads({"getBookingInvoiceData"}, {"RoomBooking", "Room", "Order", "Vehicle", "BanquetBooking"})

\* The paper: the stay, its extras, what was eaten and parked.
InvoicePaper ==
    Reads({"generateInvoicePdfBuffer"}, {"RoomBooking", "Order", "Vehicle", "BanquetBooking"})

DeskOps ==
    Writes({"checkInGuest"}, {"RoomBooking", "Room"})
    \cup Writes({"checkOutGuest"}, {"RoomBooking", "Room", "BookingInvoice"})

\* A pending upgrade is announced; so is a refund that is due.
TransferOps ==
    Announces({"transferRoom", "upgradeRoom"}, {"RoomBooking", "Room", "AuditLog"},
              Tell("admins", "booking:transfer-pending") \cup Tell("admins", "booking:refund-due"))

TransferSettlement ==
    Writes({"confirmTransferPayment", "cancelPendingTransfer"},
           {"RoomBooking", "Room", "AuditLog"})
    \cup Writes({"markTransferRefundProcessed"}, {"RoomBooking"})

TransferLookup == Reads({"getTransferOptions"}, {"RoomBooking", "Room", "RoomCategory"})

OccupancyReport == Reads({"getReports"}, {"Room", "RoomBooking"})

BookingGatewayOps ==
    Writes({"createBookingRazorpayOrder", "verifyBookingPayment"}, {"RoomBooking"})

BookingCancellations ==
    Writes({"cancelGuestBooking"}, {"RoomBooking", "Room", "AuditLog"})
    \cup Writes({"cancelPendingBooking"}, {"RoomBooking", "AuditLog"})

BookingStatuses == {"PENDING", "CONFIRMED", "CHECKED_IN", "CHECKED_OUT", "CANCELLED"}

\* Any status may follow any other when the desk says so.
BookingLife ==
    Life({"updateBookingStatus"}, "RoomBooking", BookingStatuses, "asked")
    \cup Life({"recordBookingPayment"}, "RoomBooking", BookingStatuses \ {"CANCELLED"}, "same")
    \cup Life({"transferRoom"}, "RoomBooking", BookingStatuses \ {"CHECKED_OUT", "CANCELLED"}, "same")
    \cup Life({"verifyBookingPayment"}, "RoomBooking", BookingStatuses, "CONFIRMED")
    \cup Life({"cancelGuestBooking"}, "RoomBooking", {"PENDING", "CONFIRMED"}, "CANCELLED")

StayRoutes == RoomRoutes \cup RoomDeskRoutes
StayControllers == RoomController \cup CategoryController \cup BookingController
StayOperations ==
    RoomLookups \cup CategoryAudit \cup RoomChanges \cup QrSwap \cup RoomCreation \cup RoomMigration
    \cup ScanLookup \cup CategoryOps \cup AvailableRooms \cup BookingCreation
    \cup BookingLookups \cup BookingStatusOps \cup BookingPaymentOps \cup BookingViews
    \cup InvoiceLookup \cup InvoicePaper \cup DeskOps \cup TransferOps \cup TransferSettlement
    \cup TransferLookup \cup OccupancyReport \cup BookingGatewayOps
    \cup BookingCancellations
StayLives == BookingLife
=============================================================================
