------------------------------ MODULE OfferClock ------------------------------
(***************************************************************************)
(* Offers and the clock: when an offer can be claimed, what status the     *)
(* lists show, and what the countdown of the live gateway tells the users  *)
(* at a venue while the window of the offer runs out.  A time of day is    *)
(* its minute, a moment the minute of a week; the zero-padded HH:mm of the *)
(* database are ordered as their minutes are.  The offers and venues are   *)
(* those of seed-data.ts, and offers a business may have made.             *)
(***************************************************************************)
EXTENDS Integers, Sequences

CONSTANTS
    Seeded,      \* which of the seeded offers, by position
    Own,         \* offers a business may have made besides
    Skews,       \* how far the venue's clock may be ahead of the server's, in minutes
    MaxMinutes,  \* bound: minutes watched
    MaxEdits,    \* bound: changes of the offer
    MaxOutages   \* bound: minutes in which the countdown is down or fails

T(h, m) == 60 * h + m
Day == T(24, 0)
Week == 7 * Day
TimeOfDay == 0 .. Day - 1

\* A row of offers: any days of the week and any two times of the day.
OfferRow == [from : TimeOfDay, to : TimeOfDay, days : SUBSET (0 .. 6), cap : Nat, taken : Nat,
             active : BOOLEAN, override : BOOLEAN, expired : BOOLEAN]

ASSUME ClockAssumption ==
    /\ Own \subseteq OfferRow
    /\ Seeded \subseteq 1 .. 15 /\ Skews \subseteq TimeOfDay
    /\ MaxMinutes \in Nat /\ MaxEdits \in Nat /\ MaxOutages \in Nat

VARIABLES
    now,        \* the server's minute of the week
    skew,       \* how far the venue's clock is ahead
    midnight,   \* what the runtime prints for the hour after midnight: 0 or 24
    offer,      \* the offers row
    this,       \* history: what the running minute has brought
    last,       \* history: and the one before
    minutes, edits, outages

clock == <<now, skew, midnight, offer, this, last, minutes, edits, outages>>

Weekday == [Mon |-> 0, Tue |-> 1, Wed |-> 2, Thu |-> 3, Fri |-> 4, Sat |-> 5, Sun |-> 6]
OnDays(names) == {Weekday[d] : d \in names}
Daily == 0 .. 6

\* A row as createOffer inserts it.
OfferOf(from, to, days, cap) ==
    [from |-> from, to |-> to, days |-> days, cap |-> cap, taken |-> 0,
     active |-> TRUE, override |-> FALSE, expired |-> FALSE]

MOCK_OFFERS == <<
    OfferOf(T(17, 0), T(19, 0), OnDays({"Mon", "Tue", "Wed", "Thu", "Fri"}), 100),
    OfferOf(T(12, 0), T(23, 0), Daily, 200),
    OfferOf(T(20, 0), T(22, 0), OnDays({"Fri", "Sat"}), 50),
    OfferOf(T(22, 0), T(2, 0), OnDays({"Fri", "Sat"}), 150),
    OfferOf(T(19, 0), T(3, 0), OnDays({"Wed"}), 300),
    OfferOf(T(19, 0), T(22, 0), OnDays({"Fri", "Sat"}), 100),
    OfferOf(T(16, 0), T(20, 0), Daily, 80),
    OfferOf(T(10, 0), T(15, 0), OnDays({"Sun"}), 60),
    OfferOf(T(17, 0), T(19, 0), OnDays({"Thu", "Fri", "Sat"}), 40),
    OfferOf(T(20, 0), T(1, 0), OnDays({"Wed", "Thu", "Fri", "Sat"}), 120),
    OfferOf(T(22, 0), T(0, 0), OnDays({"Fri", "Sat"}), 100),
    OfferOf(T(16, 0), T(19, 0), Daily, 80),
    OfferOf(T(14, 0), T(17, 0), OnDays({"Mon", "Tue", "Wed", "Thu", "Fri"}), 50),
    OfferOf(T(12, 0), T(16, 0), OnDays({"Sun"}), 40),
    OfferOf(T(17, 0), T(23, 0), OnDays({"Mon"}), 100)>>

\* openingHours and closingTime.
MANCHESTER_VENUES == {
    <<T(12, 0), T(2, 0)>>, <<T(22, 0), T(5, 0)>>, <<T(12, 0), T(1, 0)>>, <<T(10, 0), T(1, 0)>>,
    <<T(19, 0), T(3, 0)>>, <<T(12, 0), T(3, 0)>>, <<T(16, 0), T(1, 0)>>, <<T(8, 0), T(1, 0)>>,
    <<T(11, 0), T(2, 0)>>, <<T(22, 0), T(4, 0)>>, <<T(16, 0), T(3, 0)>>, <<T(10, 0), T(0, 0)>>,
    <<T(12, 0), T(23, 0)>>}

\* A minute: whether the countdown has checked, and what it has said (the minutes
\* that remain, or the end); whether the offer was open at its beginning, and edited.
Ended == 0
Quiet == [checked |-> FALSE, said |-> {}, open |-> FALSE, edited |-> FALSE]
-------------------------------------------------------------------------------
(* What the code says of an offer. *)

\* The moment in the venue's zone, where the query has loaded the city; and a minute
\* before.
VenueMoment == (now + skew) % Week
Before(moment) == (moment + Week - 1) % Week

\* The weekday and the time of day, as the runtime prints it.
getLocalOfferTime(moment) ==
    [weekday |-> moment \div Day,
     time |-> LET time == moment % Day
              IN  IF time < T(1, 0) THEN T(midnight, 0) + time ELSE time]

Overnight(o) == o.from > o.to

\* Mutant: every window is compared as if it ended on the day it begins.
OpenWithinOneDay(o, moment) ==
    /\ o.active /\ ~o.expired /\ ~(o.cap > 0 /\ o.taken >= o.cap)
    /\ \/ o.override
       \/ LET local == getLocalOfferTime(moment)
          IN  /\ o.days = {} \/ local.weekday \in o.days
              /\ local.time >= o.from /\ local.time <= o.to

isOfferAvailableNow(o, moment) ==
    /\ o.active /\ ~o.expired
    /\ ~(o.cap > 0 /\ o.taken >= o.cap)
    /\ \/ o.override
       \/ LET local == getLocalOfferTime(moment)
          IN  /\ o.days = {} \/ local.weekday \in o.days
              /\ IF Overnight(o) THEN ~(local.time < o.from /\ local.time > o.to)
                 ELSE ~(local.time < o.from \/ local.time > o.to)

\* Mutant: an offer is still upcoming in its first minute.
StatusFromTheNextMinute(o, moment) ==
    LET local == getLocalOfferTime(moment)
    IN  IF ~o.active THEN "inactive"
        ELSE IF o.expired \/ o.taken >= o.cap THEN "expired"
        ELSE IF (o.days = {} \/ local.weekday \in o.days) /\ local.time <= o.from THEN "upcoming"
        ELSE IF isOfferAvailableNow(o, moment) THEN "active"
        ELSE "inactive"

getOfferStatus(o, moment) ==
    LET local == getLocalOfferTime(moment)
    IN  IF ~o.active THEN "inactive"
        ELSE IF o.expired \/ o.taken >= o.cap THEN "expired"
        ELSE IF (o.days = {} \/ local.weekday \in o.days) /\ local.time < o.from THEN "upcoming"
        ELSE IF isOfferAvailableNow(o, moment) THEN "active"
        ELSE "inactive"

\* By the server's own clock, which prints the first hour as 00.
isVenueLive(opening, closing) ==
    LET time == now % Day
    IN  IF opening > closing THEN time >= opening \/ time <= closing
        ELSE time >= opening /\ time <= closing
-------------------------------------------------------------------------------
(* The clock, the countdown, and the owner. *)

\* What the countdown says of an offer: the minutes that remain of the day until its
\* end, or that it has ended, by the server's clock and whatever the day.
Says(o, moment) ==
    LET remaining == o.to - (moment % Day)
    IN  IF ~o.active THEN {}
        ELSE ({remaining} \cap ({30, 15} \cup 1 .. 5))
             \cup (IF remaining \in {0, -1} THEN {Ended} ELSE {})

\* The watch begins shortly before the window opens, half an hour before it closes, or
\* shortly before midnight; the minute before it had nothing special.
ClockInit ==
    /\ offer \in {MOCK_OFFERS[i] : i \in Seeded} \cup Own
    /\ skew \in Skews /\ midnight \in {0, 24}
    /\ \E day \in Daily, at \in {offer.from - 2, offer.to - 32, Day - 2} :
           now = (day * Day + at - skew + Week) % Week
    /\ this = [Quiet EXCEPT !.open = isOfferAvailableNow(offer, VenueMoment)]
    /\ last = [checked |-> TRUE, said |-> Says(offer, Before(now)), edited |-> FALSE,
               open |-> isOfferAvailableNow(offer, Before(VenueMoment))]
    /\ minutes = 0 /\ edits = 0 /\ outages = 0

\* Mutant: the end is announced in the last minute only.
CountdownToZero ==
    /\ ~this.checked
    /\ LET remaining == offer.to - (now % Day)
       IN  this' = [this EXCEPT !.checked = TRUE,
                        !.said = IF offer.active THEN {remaining} \cap ({30, 15} \cup 0 .. 5) ELSE {}]
    /\ UNCHANGED <<now, skew, midnight, offer, last, minutes, edits, outages>>

\* Mutant: the offers are read without regard to isActive.
CountdownOfAllOffers ==
    /\ ~this.checked
    /\ LET remaining == offer.to - (now % Day)
           said == ({remaining} \cap ({30, 15} \cup 1 .. 5))
                   \cup (IF remaining \in {0, -1} THEN {Ended} ELSE {})
       IN  this' = [this EXCEPT !.checked = TRUE, !.said = said]
    /\ UNCHANGED <<now, skew, midnight, offer, last, minutes, edits, outages>>

\* The interval fires every minute.
checkOfferCountdowns ==
    /\ ~this.checked
    /\ this' = [this EXCEPT !.checked = TRUE, !.said = Says(offer, now)]
    /\ UNCHANGED <<now, skew, midnight, offer, last, minutes, edits, outages>>

\* Timers drift: now and then a minute passes without a check, but no two.  The
\* process may be down, or the query fail, for longer.
NextMinute ==
    /\ minutes < MaxMinutes /\ minutes' = minutes + 1
    /\ \/ (this.checked \/ last.checked) /\ UNCHANGED outages
       \/ ~this.checked /\ outages < MaxOutages /\ outages' = outages + 1
    /\ now' = (now + 1) % Week
    /\ UNCHANGED <<skew, midnight, offer, edits>>
    /\ last' = this
    /\ this' = [Quiet EXCEPT !.open = isOfferAvailableNow(offer, VenueMoment)']

Edit(o) ==
    /\ o # offer /\ edits < MaxEdits /\ edits' = edits + 1
    /\ offer' = o
    /\ this' = [this EXCEPT !.edited = TRUE]
    /\ UNCHANGED <<now, skew, midnight, last, minutes, outages>>

\* toggleOffer and deleteOffer; updateOffer with isAvailableNow; a redemption takes a
\* place, the last one or one of an unlimited offer; expiresAt passes.
toggleOffer == Edit([offer EXCEPT !.active = ~@])
updateOffer == \E b \in BOOLEAN : Edit([offer EXCEPT !.override = b])
TakeLastPlace == offer.active /\ Edit([offer EXCEPT !.taken = IF offer.cap > 0 THEN offer.cap ELSE 1])
Expire == Edit([offer EXCEPT !.expired = TRUE])

ClockNext ==
    \/ checkOfferCountdowns \/ NextMinute
    \/ toggleOffer \/ updateOffer \/ TakeLastPlace \/ Expire

ClockSpec == ClockInit /\ [][ClockNext]_clock
-------------------------------------------------------------------------------
(* What an owner means by the days and the times. *)

\* From opening to closing, on one of its days or through the night after it.
InWindow(from, to, days, moment) ==
    \E day \in days :
        LET since == (moment - (day * Day + from) + Week) % Week
        IN  since <= (to - from + Day) % Day

Advertised ==
    /\ offer.active /\ ~offer.expired /\ (offer.cap = 0 \/ offer.taken < offer.cap)
    /\ offer.override \/ InWindow(offer.from, offer.to, IF offer.days = {} THEN Daily ELSE offer.days,
                                  VenueMoment)

\* The small hours of an overnight offer count as the day they fall on, not as the
\* night they belong to; and the first hour may be printed as 24.
SmallHours == Overnight(offer) /\ VenueMoment % Day <= offer.to
PrintedAs24(moment) == midnight = 24 /\ moment % Day < T(1, 0)

\* An offer can be claimed exactly when its owner means it to be, but for those two;
\* the venue's page, which goes by the server's zone, agrees unless the venue is in
\* another; and so does the mark of an open venue (isOfferAvailableNow, isVenueLive).
OpenAsAdvertised ==
    /\ (isOfferAvailableNow(offer, VenueMoment) # Advertised => SmallHours \/ PrintedAs24(VenueMoment))
    /\ (isOfferAvailableNow(offer, now) # Advertised => skew # 0 \/ SmallHours \/ PrintedAs24(VenueMoment))
    /\ \A hours \in MANCHESTER_VENUES :
         isVenueLive(hours[1], hours[2]) # InWindow(hours[1], hours[2], Daily, VenueMoment)
            => skew # 0

\* What a list shows as active can be claimed, and what can be claimed is shown as
\* active, but for an unlimited offer, which shows as expired, and one that is open
\* before its time of day, because its owner has opened it or in the small hours,
\* which shows as upcoming (getOfferStatus beside isOfferAvailableNow).
StatusIsHonest ==
    LET status == getOfferStatus(offer, VenueMoment)
        open == isOfferAvailableNow(offer, VenueMoment)
    IN  /\ (status = "active" => open)
        /\ (open /\ status = "expired" => offer.cap = 0)
        /\ (open /\ status = "upcoming" => offer.override \/ SmallHours)
        /\ (open => status # "inactive")

\* The users at a venue learn within two minutes that the window of an offer they
\* could claim has closed, unless the server's zone is not the venue's, the offer was
\* changed meanwhile, the countdown was down for both minutes, or it skipped 23:59,
\* after which the difference starts again from the day's end (checkOfferCountdowns).
EndIsAnnounced ==
    [][(now' # now /\ VenueMoment % Day = (offer.to + 1) % Day /\ last.open
            /\ ~last.edited /\ ~this.edited) =>
        \/ Ended \in last.said \cup this.said
        \/ skew # 0
        \/ ~last.checked /\ (~this.checked \/ offer.to = T(23, 59))]_clock

\* Nobody is told of an end, or of minutes that remain, of an offer that was not open,
\* unless it is not its day, it is full, past its date or changed just now, the
\* server's zone is not the venue's, the hour is printed as 24, or its window is
\* shorter than the warning; and the announced end is one, unless the owner holds the
\* offer open or its next window follows at once (checkOfferCountdowns looks at
\* isActive and validTimeEnd only).
FalseAlarmHasACause ==
    /\ this.said # {} =>
        \/ this.open
        \/ last.open /\ Ended \in this.said
        \/ offer.days # {} /\ VenueMoment \div Day \notin offer.days
        \/ offer.expired
        \/ offer.cap > 0 /\ offer.taken >= offer.cap
        \/ this.edited \/ last.edited \/ skew # 0
        \/ PrintedAs24(VenueMoment) \/ PrintedAs24(Before(VenueMoment))
        \/ ~Overnight(offer) /\ offer.to - offer.from < 30
    /\ Ended \in this.said /\ this.open /\ ~this.edited =>
        \/ now % Day = offer.to \/ offer.from = offer.to + 1
        \/ offer.override \/ skew # 0 \/ PrintedAs24(VenueMoment)
===============================================================================
