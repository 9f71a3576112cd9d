---------------------------- MODULE ScreensHouse ----------------------------
(* The screens of the house: accounts, staff, valets, banquets, what guests *)
(* write and read, and the figures.                                         *)
EXTENDS Screen

\* The hook of the kitchens, for the pages with a choice of kitchen.
KitchenFilter == Ask(<<"admin-kitchens">>, "GET /kitchens")

-----------------------------------------------------------------------------
(* Accounts.                                                                *)

Login ==
    Page("/login", NoGate,
         Fetch({"GET /auth/check-role"}) \cup Send("POST /auth/login") \cup Send("POST /auth/google"))
Register ==
    Page("/register", NoGate, Send("POST /auth/register") \cup Send("POST /auth/google"))
VerifyEmail == Page("/verify-email", NoGate, Send("POST /auth/verify-email"))
ForgotPassword == Page("/forgot-password", NoGate, Send("POST /auth/forgot-password"))
ResetPassword == Page("/reset-password", NoGate, Send("POST /auth/reset-password"))

\* The shells of the portals, the bar of the site: the way out.
SignOut == Page("shell", AuthGate, Send("POST /auth/logout"))

\* The bells of the shells list what they hear and ask the server nothing.
NotificationBell ==
    Page("shell", AdminGate, Hear({"valet:new", "complaint:new", "order:new", "contact:new"}, {}))
KitchenNotificationBell == Page("shell", KitchenGate, Hear({"order:new"}, {}))

-----------------------------------------------------------------------------
(* Staff.                                                                   *)

StaffKeys == {<<"staff-members">>}
RoleKeys == {<<"staff-roles">>}
StaffQueries ==
    Ask(<<"staff-roles", "kitchen">>, "GET /staff/roles")
    \cup Ask(<<"staff-members", "kitchen">>, "GET /staff")
RolesTab == Act("DELETE /staff/roles/:id", RoleKeys)
CreateRoleModal == Act("POST /staff/roles", RoleKeys)
CreateStaffModal == Act("POST /staff", StaffKeys)
EditStaffModal == Act("PATCH /staff/:id", StaffKeys)
AdminStaff ==
    Page("/admin/staff", AdminGate,
         KitchenFilter \cup StaffQueries \cup RolesTab \cup CreateRoleModal
         \cup CreateStaffModal \cup EditStaffModal)

-----------------------------------------------------------------------------
(* Valet parking.                                                           *)

ActivityFeed ==
    Ask(<<"valet-activity">>, "GET /valet/admin/activity")
    \cup Hear({"valet:new", "valet:updated"}, {<<"valet-activity">>})

ManagerKeys == {<<"valet-managers">>}
CreateManagerModal ==
    Act("POST /valet/admin/managers", ManagerKeys \cup {<<"valet-admin-stats">>})
EditManagerModal == Act("PATCH /valet/admin/managers/:id", ManagerKeys)
ResetPasswordDialog == Send("POST /valet/admin/managers/:id/reset-password")

ManageSlotsModal ==
    Poll(<<"admin-valet-slots">>, "GET /valet/admin/slots")
    \cup Act("POST /valet/admin/slots", {<<"admin-valet-slots">>})
    \cup Act("DELETE /valet/admin/slots/:id", {<<"admin-valet-slots">>})

\* The filters offer the managers.
ValetFilters == Ask(<<"active-valet-managers">>, "GET /valet/admin/managers")

ManagersTab == Ask(<<"valet-managers", "page", "search">>, "GET /valet/admin/managers")
VehiclesTab ==
    Ask(<<"admin-valet-vehicles", "page", "filters">>, "GET /valet/admin/vehicles")
    \cup Fetch({"GET /valet/reports/export"})
StatsGrid == Poll(<<"valet-admin-stats">>, "GET /valet/admin/stats")
ManagerEvents ==
    Hear({"valet:status_change", "valet:new", "valet:updated"},
         ManagerKeys \cup {<<"valet-admin-stats">>})

AdminValet ==
    Page("/admin/valet", AdminGate,
         StatsGrid \cup ManagersTab \cup VehiclesTab \cup ManagerEvents \cup ActivityFeed
         \cup CreateManagerModal \cup EditManagerModal \cup ResetPasswordDialog
         \cup ManageSlotsModal \cup ValetFilters)

\* The board of the drivers: check-in, and the buttons of a car by its status.
BoardQueries ==
    Ask(<<"valet-queue">>, "GET /valet/vehicles") \cup Ask(<<"valet-slots">>, "GET /valet/slots")
HistoryTab ==
    Ask(<<"valet-history", "page", "filters">>, "GET /valet/vehicles")
    \cup Fetch({"GET /valet/vehicles/:id/receipt"})
BoardKeys == {<<"valet-queue">>, <<"valet-slots">>}
BoardEvents == Hear({"valet:new", "valet:updated"}, BoardKeys)
CheckIn == Act("POST /valet/check-in", BoardKeys)
CarButtons ==
    LET Button(from, to) == ActIn({from}, "PATCH /valet/vehicles/:id/status", to, BoardKeys)
    IN Button("PARKED", "BRINGING") \cup Button("REQUESTED", "BRINGING")
       \cup Button("BRINGING", "READY") \cup Button("READY", "DELIVERED")

QueueTab ==
    CarButtons \cup Fetch({"GET /valet/vehicles/:id/ticket", "GET /valet/vehicles/:id/receipt"})
CheckInTab == CheckIn \cup Ask(<<"valet-slots">>, "GET /valet/slots")

ValetDesk ==
    Page("/valet", ValetGate,
         BoardQueries \cup BoardEvents \cup QueueTab \cup CheckInTab \cup HistoryTab
         \cup ValetFilters)

\* The guest's car: the answer to the request and the events are displayed.
PlateLookup == Ask(<<"valet-track", "plate">>, "GET /valet/track/:carNumber")
PlateEvents == Copies(Hear({"valet:updated"}, {<<"valet-track", "plate">>}))
PlateRequest ==
    Copies(ActIn({"PARKED"}, "POST /valet/request/:carNumber", "REQUESTED",
                 {<<"valet-track", "plate">>}))
ValetByPlate ==
    Page("/valet-tracking", NoGate, PlateLookup \cup PlateEvents \cup PlateRequest)

TokenLookup == Ask(<<"valet-track-token", "token">>, "GET /valet/session/:token")
TokenEvents == Copies(Hear({"valet:updated"}, {<<"valet-track-token", "token">>}))
TokenRequest ==
    Copies(ActIn({"PARKED"}, "POST /valet/session/:token/request", "REQUESTED",
                 {<<"valet-track-token", "token">>}))
ValetByToken ==
    Page("/valet/track/[token]", NoGate, TokenLookup \cup TokenEvents \cup TokenRequest)

-----------------------------------------------------------------------------
(* Banquets.                                                                *)

HallKeys == {<<"banquet-halls">>}
CreateHallModal == Act("POST /banquets/halls", HallKeys) \cup Send("POST /upload")
EditHallModal == Act("PATCH /banquets/halls/:id", HallKeys) \cup Send("POST /upload")
DeleteHallModal == Act("DELETE /banquets/halls/:id", HallKeys)

\* The dialog sends the status it shows, or another one.
BookingDialog ==
    UNION {ActIn({}, "PATCH /banquets/bookings/:id", s, {<<"banquet-bookings">>}) :
             s \in {"PENDING", "CONFIRMED", "CANCELLED", "COMPLETED"}}
\* The documents of a booking, from its row.
Papers == Fetch({"GET /banquets/bookings/:id/quotation", "GET /banquets/bookings/:id/estimation"})

BanquetQueries ==
    Ask(<<"banquet-halls", "kitchen">>, "GET /banquets/halls")
    \cup Ask(<<"banquet-bookings", "kitchen">>, "GET /banquets/bookings")

AdminBanquets ==
    Page("/admin/banquets", AdminGate,
         KitchenFilter \cup BanquetQueries \cup CreateHallModal \cup EditHallModal
         \cup DeleteHallModal \cup BookingDialog \cup Papers)

\* Only who is signed in gets to the form.
HallList == Ask(<<"active-banquet-halls">>, "GET /banquets/halls")
EnquiryForm == Send("POST /banquets/bookings")
GuestBanquets ==
    Page("/banquets", NoGate, HallList)
    \cup Page("/banquets", AuthGate, EnquiryForm \cup Papers)

-----------------------------------------------------------------------------
(* What guests write.                                                       *)

UpdateTicketDialog ==
    Ask(<<"admin-staff-list">>, "GET /staff") \cup Act("PATCH /complaints/:id", {<<"admin-complaints">>})
AdminComplaints ==
    Page("/admin/complaints", AdminGate,
         Ask(<<"admin-complaints", "status", "category", "search">>, "GET /complaints")
         \cup UpdateTicketDialog
         \cup Hear({"complaint:new", "complaint:updated"}, {<<"admin-complaints">>}))

\* The form fills in what the account knows; who is not signed in is not told
\* that it failed.
RequestTab ==
    Load(<<"me">>, "GET /auth/me")
    \cup Ask(<<"service-eligibility", "email", "phone">>, "GET /complaints/eligibility")
    \cup Act("POST /complaints", {<<"my-complaints">>})
MyTickets ==
    Ask(<<"my-complaints", "phone", "room">>, "GET /complaints/my")
    \cup Hear({"complaint:new"}, {<<"my-complaints">>})
    \cup Copies(Hear({"complaint:updated"}, {<<"my-complaints">>}))
GuestServices == Page("/services", NoGate, RequestTab \cup MyTickets)

MessageKeys == {<<"admin-contact-messages">>}
MessageRow ==
    Act("PATCH /contact/:id/read", MessageKeys) \cup Act("PATCH /contact/:id/status", MessageKeys)
    \cup Act("DELETE /contact/:id", MessageKeys)
AdminContact ==
    Page("/admin/contact", AdminGate,
         Ask(<<"admin-contact-messages", "search", "status", "page">>, "GET /contact")
         \cup MessageRow)
ContactForm == Page("/contact", NoGate, Send("POST /contact"))

AdminFeedback ==
    Page("/admin/feedback", AdminGate,
         Ask(<<"admin-feedbacks", "category", "rating">>, "GET /feedback"))
FeedbackPage ==
    Page("/feedback", NoGate, Load(<<"me">>, "GET /auth/me") \cup Send("POST /feedback"))

-----------------------------------------------------------------------------
(* What the house shows.                                                    *)

BannerKeys == {<<"admin-banners">>}
BannerCard == Act("DELETE /banners/:id", BannerKeys)
CreateBannerModal == Act("POST /banners", BannerKeys) \cup Send("POST /upload")
EditBannerModal == Act("PATCH /banners/:id", BannerKeys) \cup Send("POST /upload")
AdminBanners ==
    Page("/admin/banners", AdminGate,
         KitchenFilter \cup Ask(<<"admin-banners", "kitchen">>, "GET /banners")
         \cup BannerCard \cup CreateBannerModal \cup EditBannerModal)

GalleryKeys == {<<"admin-gallery">>}
AdminGallery ==
    Page("/admin/gallery", AdminGate,
         Ask(<<"admin-gallery">>, "GET /gallery/admin")
         \cup Act("POST /gallery/admin", GalleryKeys)
         \cup Act("PATCH /gallery/admin/:id", GalleryKeys)
         \cup Act("DELETE /gallery/admin/:id", GalleryKeys) \cup Send("POST /upload"))
GalleryPage == Page("/gallery", NoGate, Ask(<<"public-gallery">>, "GET /gallery"))

-----------------------------------------------------------------------------
(* The figures, the settings, the audit log and the guests.                 *)

BusinessOverview == Ask(<<"admin-summary">>, "GET /analytics/summary")
ValetOverview == Ask(<<"valet-admin-stats-overview">>, "GET /valet/admin/stats")
Overview == Page("/admin", AdminGate, BusinessOverview \cup ValetOverview)
Analytics ==
    Page("/admin/analytics", AdminGate,
         KitchenFilter \cup Ask(<<"admin-dashboard", "kitchen">>, "GET /analytics/dashboard")
         \cup Ask(<<"valet-stats-analytics">>, "GET /valet/admin/stats"))
Revenue ==
    Page("/admin/revenue", AdminGate,
         KitchenFilter \cup Ask(<<"admin-revenue", "kitchen">>, "GET /analytics/dashboard"))
Audit == Page("/admin/audit", AdminGate, Ask(<<"admin-audit", "action", "actor", "page">>, "GET /audit"))

Settings ==
    Page("/admin/settings", AdminGate,
         Ask(<<"global-settings">>, "GET /settings") \cup Act("PUT /settings", {<<"global-settings">>}))

GuestSearch == Ask(<<"guests-search", "search">>, "GET /guests")
GuestTimeline == Ask(<<"guest-history", "who">>, "GET /guests/details")
AdminGuests == Page("/admin/guests", AdminGate, GuestSearch \cup GuestTimeline)

HouseScreens ==
    Login \cup Register \cup VerifyEmail \cup ForgotPassword \cup ResetPassword \cup SignOut
    \cup NotificationBell \cup KitchenNotificationBell
    \cup AdminStaff \cup AdminValet \cup ValetDesk \cup ValetByPlate \cup ValetByToken
    \cup AdminBanquets \cup GuestBanquets \cup AdminComplaints \cup GuestServices
    \cup AdminContact \cup ContactForm \cup AdminFeedback \cup FeedbackPage
    \cup AdminBanners \cup AdminGallery \cup GalleryPage
    \cup Overview \cup Analytics \cup Revenue \cup Audit \cup Settings \cup AdminGuests
=============================================================================
