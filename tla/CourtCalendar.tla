--------------------------- MODULE CourtCalendar ----------------------------
(***************************************************************************)
(* What a schedule promises about its courts: bookings are made, moved and *)
(* given up one at a time, and no two bookings of a court ever overlap.    *)
(* A booking is <<court, start>>; all have the same length.                *)
(***************************************************************************)
EXTENDS Naturals

CONSTANTS Bookings, Courts, Starts, Length, NULL

VARIABLE booked     \* what each booking holds, NULL while it is not made

(* Half-open intervals of one length: back-to-back bookings do not overlap. *)
Overlap(s, t) == s < t + Length /\ t < s + Length

(* The place is free of every booking but b. *)
FreeBut(b, place) ==
    \A d \in Bookings \ {b} : booked[d] # NULL /\ booked[d][1] = place[1]
                                => ~Overlap(booked[d][2], place[2])

CalendarInit == booked = [b \in Bookings |-> NULL]

(* A booking is made, or moved to another place. *)
Book(b, place) == FreeBut(b, place) /\ booked' = [booked EXCEPT ![b] = place]

GiveUp(b) == booked' = [booked EXCEPT ![b] = NULL]

CalendarNext == \E b \in Bookings : GiveUp(b) \/ \E place \in Courts \X Starts : Book(b, place)

CalendarSpec == CalendarInit /\ [][CalendarNext]_booked
=============================================================================
