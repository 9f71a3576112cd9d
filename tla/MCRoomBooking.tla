--------------------------- MODULE MCRoomBooking ---------------------------
(* Instances of RoomBooking for TLC. *)
EXTENDS RoomBooking, TLC

CONSTANTS ann, bob, d1, d2, b1, b2, low, high

OneGuest == {ann}
TwoGuests == {ann, bob}
OneDesk == {d1}
TwoDesks == {d1, d2}
TwoBookings == {b1, b2}
OneRoom == {low}
TwoRooms == {low, high}
RoomClass == [r \in {low, high} |-> IF r = low THEN "STANDARD" ELSE "DELUXE"]
ClassRate == [STANDARD |-> 105, DELUXE |-> 213] \* their taxes do not come out even

Plain == [extra |-> 0, off |-> 0]
NoTerms == {Plain}
SomeTerms == {Plain, [extra |-> 50, off |-> 1000]}
TwoNights == {{1, 2}}
Weekends == {{1, 2}, {2, 3}}

NoExtras == {[due |-> 0, paid |-> 0]}
SomeExtras == NoExtras \cup {[due |-> 50, paid |-> 30]}

Empty == {[b \in TwoBookings |-> Free]}

Price(rate, t) == WithTaxes(2 * rate + t.extra) - t.off

Reservation(r, s, t, move) ==
    [room |-> r, guest |-> ann, nights |-> {1, 2}, status |-> s,
     paid |-> "PENDING", pay |-> "PENDING", terms |-> t,
     total |-> Price(ClassRate[RoomClass[r]], t), pending |-> move, transfers |-> <<>>]

\* One booking settled earlier: reserved, arrived, or waiting for an upgrade; the
\* better room on a coupon over all of it but the taxes.
Upgrade == [from |-> low, to |-> high, due |-> WithTaxes(2 * (213 - 105))]
Coupon == [extra |-> 50, off |-> 476]
OneReservation ==
    {[b \in TwoBookings |-> IF b = b1 THEN d ELSE Free] : d \in
       UNION {{Reservation(low, s, Plain, NoMove), Reservation(low, s, Plain, Upgrade),
               Reservation(high, s, Coupon, NoMove)} : s \in {"CONFIRMED", "CHECKED_IN"}}}

GuestsAlike == Permutations(TwoGuests) \cup Permutations(TwoBookings)
DesksAlike == Permutations(TwoDesks)
=============================================================================
