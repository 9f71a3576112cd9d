------------------------------ MODULE ApiHouse ------------------------------
(* The interface of the house: accounts, staff, valet, banquets, guests'    *)
(* messages, notices, notifications, figures and files.                     *)
EXTENDS Api

-----------------------------------------------------------------------------
(* Accounts.                                                                *)

AuthRoutes ==
    Allow(Everyone,
      {<<"GET /auth/check-role", "checkRole">>, <<"POST /auth/register", "register">>,
       <<"POST /auth/verify-email", "verifyEmail">>,
       <<"POST /auth/resend-verification", "resendVerification">>,
       <<"POST /auth/login", "login">>, <<"POST /auth/google", "google">>,
       <<"POST /auth/refresh", "refresh">>, <<"POST /auth/logout", "logout">>,
       <<"POST /auth/forgot-password", "forgotPassword">>,
       <<"POST /auth/reset-password", "resetPassword">>})
    \cup Allow(Roles, {<<"GET /auth/me", "me">>})

AuthController ==
    Handlers({"checkRole", "register", "verifyEmail", "resendVerification", "login", "google",
              "refresh", "logout", "forgotPassword", "resetPassword", "me"})

\* A sign-in with a verified address also claims the orders placed as a guest.
AuthOps ==
    Reads({"checkRole", "me"}, {"User"})
    \cup Writes({"register"}, {"User"})
    \cup Writes({"verifyEmail", "login", "google"}, {"User", "Order"})
    \cup Writes({"resetPassword"}, {"User"})
    \cup Writes({"resendVerification", "forgotPassword", "refresh", "logout"}, {})

-----------------------------------------------------------------------------
(* Staff and their roles.                                                   *)

\* Mutant: a member of staff is edited by PUT.
StaffRoutesPut ==
    Allow(Staff,
      {<<"GET /staff/roles", "listRoles">>, <<"POST /staff/roles", "createRole">>,
       <<"PATCH /staff/roles/:id", "updateRole">>, <<"DELETE /staff/roles/:id", "deleteRole">>,
       <<"GET /staff", "listStaff">>, <<"POST /staff", "createStaff">>,
       <<"GET /staff/:id", "getStaffDetails">>, <<"PUT /staff/:id", "updateStaff">>})
StaffRoutes ==
    Allow(Staff,
      {<<"GET /staff/roles", "listRoles">>, <<"POST /staff/roles", "createRole">>,
       <<"PATCH /staff/roles/:id", "updateRole">>, <<"DELETE /staff/roles/:id", "deleteRole">>,
       <<"GET /staff", "listStaff">>, <<"POST /staff", "createStaff">>,
       <<"GET /staff/:id", "getStaffDetails">>, <<"PATCH /staff/:id", "updateStaff">>})

RoleController ==
    Handlers({"listRoles", "createRole", "updateRole", "deleteRole"})
RoleOps ==
    Reads({"listRoles"}, {"Role"}) \cup Writes({"createRole", "updateRole", "deleteRole"}, {"Role"})

\* The account is created and suspended with the member of the staff.
StaffController == Handlers({"listStaff", "createStaff", "updateStaff", "getStaffDetails"})
StaffOps ==
    Reads({"listStaff", "getStaffDetails"}, {"Staff", "User", "Role"})
    \cup Writes({"createStaff", "updateStaff"}, {"Staff", "User"})

-----------------------------------------------------------------------------
(* Valet parking.                                                           *)

ValetRoutes ==
    Allow(Everyone,
      {<<"GET /valet/track/:carNumber", "getVehicleDetails">>,
       <<"POST /valet/request/:carNumber", "requestVehicleByGuest">>,
       <<"GET /valet/session/:token", "getVehicleDetailsByToken">>,
       <<"POST /valet/session/:token/request", "requestVehicleByToken">>,
       <<"GET /valet/vehicles/:id/ticket", "downloadTicket">>,
       <<"GET /valet/vehicles/:id/receipt", "downloadReceipt">>})
    \cup Allow(Admin,
      {<<"POST /valet/admin/managers", "createValetManager">>,
       <<"GET /valet/admin/managers", "listValetManagers">>,
       <<"PATCH /valet/admin/managers/:id", "updateValetManager">>,
       <<"POST /valet/admin/managers/:id/reset-password", "resetValetPassword">>,
       <<"GET /valet/admin/stats", "getValetAdminStats">>,
       <<"GET /valet/admin/activity", "getRecentValetActivity">>,
       <<"POST /valet/admin/slots", "createParkingSlot">>,
       <<"DELETE /valet/admin/slots/:id", "deleteParkingSlot">>})
    \cup Allow(Valets,
      {<<"GET /valet/reports/export", "exportValetReport">>,
       <<"GET /valet/resolve-room/:token", "resolveRoomGuest">>,
       <<"POST /valet/check-in", "checkInVehicle">>,
       <<"PATCH /valet/vehicles/:id/status", "updateValetStatus">>,
       <<"GET /valet/vehicles", "listVehicles">>, <<"GET /valet/overview", "getValetOverview">>,
       <<"GET /valet/slots", "listParkingSlots">>})

ValetDeskController ==
    Handlers({"resolveRoomGuest", "checkInVehicle", "updateValetStatus", "requestVehicleByGuest",
              "getVehicleDetails", "getVehicleDetailsByToken", "requestVehicleByToken",
              "listVehicles", "getValetOverview", "listParkingSlots"})

ValetAdminController ==
    Handlers({"createParkingSlot", "deleteParkingSlot", "listValetManagers", "createValetManager",
              "updateValetManager", "resetValetPassword", "getValetAdminStats",
              "getRecentValetActivity", "downloadTicket", "downloadReceipt", "exportValetReport"})

Parked == {"Vehicle", "ParkingSlot", "ValetActivity", "AuditLog"}
CheckInOps ==
    Announces({"checkInVehicle"}, Parked,
              Tell("valets", "valet:new") \cup Tell("admins", "valet:new"))
ValetStatusOps == Announces({"updateValetStatus"}, Parked, Tell("all", "valet:updated"))
ValetRequestOps ==
    Announces({"requestVehicleByGuest", "requestVehicleByToken"}, {"Vehicle"},
              Tell("all", "valet:updated"))

RoomGuestLookup == Reads({"resolveRoomGuest"}, {"Room", "Order"})
VehicleLists == Reads({"listVehicles"}, {"Vehicle", "User"})

VehicleLookups ==
    Reads({"getVehicleDetails", "getVehicleDetailsByToken"}, {"Vehicle"})
    \cup Reads({"getValetOverview"}, {"Vehicle", "ParkingSlot"})

SlotOps ==
    Reads({"listParkingSlots"}, {"ParkingSlot"})
    \cup Writes({"createParkingSlot", "deleteParkingSlot"}, {"ParkingSlot", "AuditLog"})

ManagerOps ==
    Reads({"listValetManagers"}, {"User", "Vehicle"})
    \cup Writes({"createValetManager", "updateValetManager"}, {"User", "AuditLog"})
    \cup Writes({"resetValetPassword"}, {"User", "AuditLog"})

ValetFigures ==
    Reads({"getValetAdminStats"}, {"User", "Vehicle", "ParkingSlot"})
    \cup Reads({"getRecentValetActivity"}, {"ValetActivity"})

\* Tickets, receipts and the report of a day.
ValetPapers == Reads({"downloadTicket", "downloadReceipt", "exportValetReport"}, {"Vehicle"})

\* A valet's connection comes and goes.
Presence == Announces({"presence"}, {"User"}, Tell("admins", "valet:status_change"))

ValetMoves ==
    {<<"PARKED", "REQUESTED">>, <<"PARKED", "BRINGING">>, <<"REQUESTED", "BRINGING">>,
     <<"REQUESTED", "READY">>, <<"BRINGING", "READY">>, <<"READY", "DELIVERED">>}
ValetStatuses == {"PARKED", "REQUESTED", "BRINGING", "READY", "DELIVERED"}
ValetLife ==
    UNION {Life({"updateValetStatus"}, "Vehicle", {m[1]}, m[2]) : m \in ValetMoves}
    \cup UNION {Life({"updateValetStatus"}, "Vehicle", {s}, s) : s \in ValetStatuses}
    \cup Life({"requestVehicleByGuest", "requestVehicleByToken"}, "Vehicle", {"PARKED"}, "REQUESTED")

-----------------------------------------------------------------------------
(* Banquets.                                                                *)

BanquetRoutes ==
    Allow(Everyone,
      {<<"GET /banquets/halls", "listHalls">>, <<"POST /banquets/bookings", "createBanquet">>,
       <<"GET /banquets/bookings", "listBanquets">>,
       <<"GET /banquets/bookings/:id/quotation", "downloadQuotation">>,
       <<"GET /banquets/bookings/:id/estimation", "downloadEstimation">>})
    \cup Allow(Staff,
      {<<"POST /banquets/halls", "createHall">>, <<"PATCH /banquets/halls/:id", "updateHall">>,
       <<"DELETE /banquets/halls/:id", "deleteHall">>,
       <<"PATCH /banquets/bookings/:id", "updateBanquet">>})

HallController == Handlers({"listHalls", "createHall", "updateHall", "deleteHall"})
HallOps ==
    Reads({"listHalls"}, {"BanquetHall"})
    \cup Writes({"createHall", "updateHall", "deleteHall"}, {"BanquetHall"})

BanquetController ==
    Handlers({"listBanquets", "createBanquet", "updateBanquet", "downloadQuotation",
              "downloadEstimation"})
BanquetOps ==
    Reads({"listBanquets"}, {"BanquetBooking", "BanquetHall"})
    \cup Writes({"createBanquet", "updateBanquet"}, {"BanquetBooking", "AuditLog"})

BanquetPapers ==
    Reads({"downloadQuotation", "downloadEstimation"}, {"BanquetBooking", "BanquetHall"})

BanquetStatuses == {"PENDING", "CONFIRMED", "CANCELLED", "COMPLETED"}
BanquetLife == Life({"updateBanquet"}, "BanquetBooking", BanquetStatuses, "asked")

-----------------------------------------------------------------------------
(* What guests write.                                                       *)

ComplaintRoutes ==
    Allow(Everyone, {<<"POST /complaints", "createComplaint">>,
                     <<"GET /complaints/my", "getGuestComplaints">>,
                     <<"GET /complaints/eligibility", "getServiceEligibility">>})
    \cup Allow(Admin, {<<"GET /complaints", "listComplaints">>,
                       <<"PATCH /complaints/:id", "updateComplaint">>})

ComplaintController ==
    Handlers({"createComplaint", "getGuestComplaints", "getServiceEligibility",
              "listComplaints", "updateComplaint"})

\* A ticket is told to its author when it is made, not when it changes.
ComplaintCreation ==
    Announces({"createComplaint"}, {"Complaint"},
              Tell("admins", "complaint:new") \cup Tell("user", "complaint:new"))
ComplaintLookups ==
    Reads({"getGuestComplaints", "listComplaints"}, {"Complaint", "Room", "Staff"})
    \cup Reads({"getServiceEligibility"}, {"RoomBooking", "Room"})
ComplaintUpdates == Announces({"updateComplaint"}, {"Complaint"}, Tell("admins", "complaint:updated"))

MessageRoutes ==
    Allow(Everyone, {<<"POST /contact", "createMessage">>})
    \cup Allow(Admin, {<<"GET /contact", "listContactMessages">>, <<"GET /contact/:id", "getMessage">>,
                       <<"PATCH /contact/:id/read", "markAsRead">>,
                       <<"PATCH /contact/:id/status", "updateMessageStatus">>,
                       <<"DELETE /contact/:id", "deleteMessage">>})
MessageController ==
    Handlers({"createMessage", "listContactMessages", "getMessage", "markAsRead",
              "updateMessageStatus", "deleteMessage"})
MessageOps ==
    Announces({"createMessage"}, {"ContactMessage"}, Tell("admins", "contact:new"))
    \cup Reads({"listContactMessages", "getMessage"}, {"ContactMessage"})
    \cup Writes({"markAsRead", "updateMessageStatus", "deleteMessage"}, {"ContactMessage"})

FeedbackRoutes ==
    Allow(Everyone, {<<"POST /feedback", "createFeedback">>})
    \cup Allow(Admin, {<<"GET /feedback", "listFeedback">>})
FeedbackController ==
    Handlers({"createFeedback", "listFeedback"})
FeedbackOps == Writes({"createFeedback"}, {"Feedback"}) \cup Reads({"listFeedback"}, {"Feedback"})

-----------------------------------------------------------------------------
(* What the house shows.                                                    *)

GalleryRoutes ==
    Allow(Everyone, {<<"GET /gallery", "getActiveGalleryImages">>})
    \cup Allow(Admin, {<<"GET /gallery/admin", "getAllGalleryImages">>,
                       <<"POST /gallery/admin", "createGalleryImage">>,
                       <<"PATCH /gallery/admin/:id", "updateGalleryImage">>,
                       <<"DELETE /gallery/admin/:id", "deleteGalleryImage">>})
GalleryController ==
    Handlers({"getActiveGalleryImages", "getAllGalleryImages", "createGalleryImage",
              "updateGalleryImage", "deleteGalleryImage"})
GalleryOps ==
    Reads({"getActiveGalleryImages", "getAllGalleryImages"}, {"GalleryImage"})
    \cup Writes({"createGalleryImage", "updateGalleryImage", "deleteGalleryImage"}, {"GalleryImage"})

BannerRoutes ==
    Allow(Everyone, {<<"GET /banners/active", "getActiveBanners">>})
    \cup Allow(Staff, {<<"GET /banners", "listAllBanners">>, <<"POST /banners", "createBanner">>,
                       <<"PATCH /banners/:id", "updateBanner">>,
                       <<"DELETE /banners/:id", "deleteBanner">>})
BannerController ==
    Handlers({"getActiveBanners", "listAllBanners", "createBanner", "updateBanner", "deleteBanner"})
BannerOps ==
    Reads({"getActiveBanners", "listAllBanners"}, {"Banner"})
    \cup Writes({"createBanner", "updateBanner", "deleteBanner"}, {"Banner"})

-----------------------------------------------------------------------------
(* Notifications, figures, the audit log and files.                         *)

NotificationRoutes ==
    Allow(Roles, {<<"GET /notifications", "listNotifications">>,
                  <<"GET /notifications/unread-count", "unreadCount">>,
                  <<"PATCH /notifications/read-all", "markAllRead">>,
                  <<"PATCH /notifications/:id/read", "markRead">>})
NotificationController ==
    Handlers({"listNotifications", "unreadCount", "markAllRead", "markRead"})
NotificationOps ==
    Reads({"listNotifications", "unreadCount"}, {"Notification"})
    \cup Writes({"markAllRead", "markRead"}, {"Notification"})

\* Sent by the orders' and payments' services, which do not wait for it.
Notify == Announces({"notify"}, {"Notification"}, Tell("user", "notification:new"))
OrderNotices ==
    Announces({"notifyOrderCustomer", "notifyKitchenNewOrder", "notifyKitchenCancellation",
               "notifyAdmins"}, {"Notification"}, Tell("user", "notification:new"))

AnalyticsRoutes ==
    Allow(Staff, {<<"GET /analytics/dashboard", "dashboard">>, <<"GET /analytics/summary", "summary">>,
                  <<"GET /analytics/revenue-trends", "revenueTrends">>,
                  <<"GET /analytics/top-items", "topItems">>,
                  <<"GET /analytics/peak-hours", "peakHours">>,
                  <<"GET /analytics/refunds", "refunds">>,
                  <<"GET /analytics/kitchen-performance", "kitchenPerformance">>,
                  <<"GET /analytics/export", "exportReport">>})
AnalyticsController ==
    Handlers({"dashboard", "summary", "revenueTrends", "topItems", "peakHours", "refunds",
              "kitchenPerformance", "exportReport"})
AnalyticsOps ==
    Reads({"revenueTrends", "topItems", "peakHours", "refunds"}, {"Order"})
    \cup Reads({"kitchenPerformance"}, {"Order", "Kitchen"})
ReportExport == Reads({"exportReport"}, {"Order", "Kitchen"})
HouseFigures ==
    Reads({"summary", "dashboard"},
          {"Order", "Room", "RoomBooking", "RestaurantTable", "TableReservation", "Vehicle",
           "BanquetHall", "BanquetBooking", "Kitchen"})

AuditRoutes == Allow(Admin, {<<"GET /audit", "listAudit">>})
AuditOps == Reads({"listAudit"}, {"AuditLog"})
AuditWrites == Writes({"recordAudit"}, {"AuditLog"})

GuestRoutes == Allow(Admin, {<<"GET /guests", "listGuests">>, <<"GET /guests/details", "getGuestDetails">>})
GuestOps ==
    Reads({"listGuests"}, {"User", "Order", "Vehicle", "TableReservation"})
    \cup Reads({"getGuestDetails"},
               {"Order", "Vehicle", "TableReservation", "RoomBooking", "BanquetBooking"})

\* routes/index.
FileRoutes ==
    Allow(Roles, {<<"POST /upload", "uploadImage">>})
    \cup Allow(Everyone, {<<"GET /health", "health">>})
FileOps == Writes({"uploadImage", "health"}, {})

SmallControllers ==
    Handlers({"listAudit", "listGuests", "getGuestDetails", "uploadImage", "health"})

-----------------------------------------------------------------------------
HouseRoutes ==
    AuthRoutes \cup StaffRoutes \cup ValetRoutes \cup BanquetRoutes \cup ComplaintRoutes
    \cup MessageRoutes \cup FeedbackRoutes \cup GalleryRoutes \cup BannerRoutes
    \cup NotificationRoutes \cup AnalyticsRoutes \cup AuditRoutes \cup GuestRoutes \cup FileRoutes
HouseControllers ==
    AuthController \cup RoleController \cup StaffController \cup ValetDeskController
    \cup ValetAdminController \cup HallController \cup BanquetController
    \cup ComplaintController \cup MessageController \cup FeedbackController
    \cup GalleryController \cup BannerController \cup NotificationController
    \cup AnalyticsController \cup SmallControllers
HouseOperations ==
    AuthOps \cup RoleOps \cup StaffOps \cup CheckInOps \cup ValetStatusOps \cup ValetRequestOps
    \cup RoomGuestLookup \cup VehicleLists \cup VehicleLookups \cup SlotOps \cup ManagerOps
    \cup ValetFigures \cup ValetPapers \cup Presence \cup HallOps \cup BanquetOps
    \cup BanquetPapers \cup ComplaintCreation
    \cup ComplaintLookups \cup ComplaintUpdates \cup MessageOps \cup FeedbackOps \cup GalleryOps
    \cup BannerOps \cup NotificationOps \cup Notify \cup OrderNotices \cup AnalyticsOps \cup ReportExport \cup HouseFigures
    \cup AuditOps \cup AuditWrites \cup GuestOps \cup FileOps
HouseLives == ValetLife \cup BanquetLife
=============================================================================
