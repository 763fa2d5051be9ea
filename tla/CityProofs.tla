------------------------------- MODULE CityProofs -------------------------------
(***************************************************************************)
(* What a venue shows.  First OfferClock: what it says of the clock holds  *)
(* for every offer: any days, any two times of the day, any cap, any       *)
(* difference between the venue's clock and the server's, and a watch of   *)
(* any length.  Then DemoCity: what a boot leaves, what a vibe check comes *)
(* to and what a reset restores hold for any number of requests at once,   *)
(* in any order of their calls, with any number of them failing and any    *)
(* number of restarts.                                                     *)
(***************************************************************************)
EXTENDS OfferClock, DemoCity, WellFoundedInduction, TLAPS


-------------------------------------------------------------------------------
(* Arithmetic of the week. *)

OfDay(t) == t \in Int /\ 0 <= t /\ t < 1440
OfWeek(m) == m \in Int /\ 0 <= m /\ m < 10080

LEMMA Units == Day = 1440 /\ Week = 10080 /\ T(1, 0) = 60 /\ T(23, 59) = 1439
BY DEF Day, Week, T

LEMMA Times == \A t : t \in TimeOfDay <=> OfDay(t)
<1>1. TimeOfDay = 0 .. 1439
  BY Units DEF TimeOfDay
<1>2. \A t \in 0 .. 1439 : t \in Int /\ 0 <= t /\ t < 1440
  OBVIOUS
<1>3. \A t \in Int : 0 <= t /\ t < 1440 => t \in 0 .. 1439
  OBVIOUS
<1>4. ASSUME NEW t \in TimeOfDay PROVE OfDay(t)
  BY <1>1, <1>2 DEF OfDay
<1>5. ASSUME NEW t, OfDay(t) PROVE t \in TimeOfDay
  BY <1>1, <1>3, <1>5 DEF OfDay
<1>. QED
  BY <1>4, <1>5

LEMMA ModDay ==
    ASSUME NEW m \in Int
    PROVE  OfDay(m % 1440) /\ m \div 1440 \in Int
           /\ m = 1440 * (m \div 1440) + (m % 1440)
<1>1. m % 1440 \in Int /\ 0 <= m % 1440 /\ m % 1440 < 1440
  OBVIOUS
<1>2. m \div 1440 \in Int
  OBVIOUS
<1>3. m = 1440 * (m \div 1440) + (m % 1440)
  OBVIOUS
<1>. QED
  BY <1>1, <1>2, <1>3 DEF OfDay

\* One way only to be a day and a time of the day.
LEMMA OneTime ==
    ASSUME NEW d \in Int, NEW t, OfDay(t), NEW e \in Int, NEW u, OfDay(u),
           1440 * d + t = 1440 * e + u
    PROVE  d = e /\ t = u
BY DEF OfDay

\* A moment of the week is a time of one of its seven days.
LEMMA Moment ==
    ASSUME NEW m, OfWeek(m)
    PROVE  /\ OfDay(m % Day) /\ m \div Day \in Int /\ 0 <= m \div Day /\ m \div Day <= 6
           /\ m = 1440 * (m \div Day) + (m % Day)
<1>1. m \in Int /\ 0 <= m /\ m < 10080
  BY DEF OfWeek
<1>2. PICK d \in Int, t \in Int : /\ d = m \div 1440 /\ t = m % 1440
                                  /\ OfDay(t) /\ m = 1440 * d + t
  BY <1>1, ModDay DEF OfDay
<1>3. 0 <= d /\ d <= 6
  BY <1>1, <1>2 DEF OfDay
<1>. QED
  BY <1>2, <1>3, Units

LEMMA DayOf ==
    ASSUME NEW m, OfWeek(m), NEW d \in Int, NEW t, OfDay(t), m = 1440 * d + t
    PROVE  m \div Day = d /\ m % Day = t
<1>1. PICK e \in Int, u \in Int : /\ e = m \div Day /\ u = m % Day
                                  /\ OfDay(u) /\ m = 1440 * e + u
  BY Moment DEF OfDay
<1>. QED
  BY <1>1, OneTime

LEMMA ModWeek ==
    ASSUME NEW m \in Int, 0 <= m, m < 20160
    PROVE  m % Week = IF m < 10080 THEN m ELSE m - 10080
<1>1. ASSUME m < 10080 PROVE m % 10080 = m
  BY <1>1
<1>2. ASSUME m >= 10080 PROVE m % 10080 = m - 10080
  BY <1>2
<1>. QED
  BY <1>1, <1>2, Units

LEMMA SumOfWeek ==
    ASSUME NEW m, OfWeek(m), NEW s, OfDay(s)
    PROVE  /\ (m + s) % Week = IF m + s < 10080 THEN m + s ELSE m + s - 10080
           /\ OfWeek((m + s) % Week)
<1>1. m \in Int /\ s \in Int /\ 0 <= m + s /\ m + s < 20160
  BY DEF OfWeek, OfDay
<1>2. (m + s) % Week = IF m + s < 10080 THEN m + s ELSE m + s - 10080
  <2>1. \A n \in Int : 0 <= n /\ n < 20160 => n % Week = IF n < 10080 THEN n ELSE n - 10080
    BY ModWeek
  <2>2. m + s \in Int
    BY <1>1
  <2>. QED
    BY <1>1, <2>1, <2>2
<1>3. OfWeek(IF m + s < 10080 THEN m + s ELSE m + s - 10080)
  BY <1>1 DEF OfWeek
<1>. QED
  BY <1>2, <1>3

LEMMA BeforeKnown ==
    ASSUME NEW m, OfWeek(m)
    PROVE  Before(m) = (IF m = 0 THEN 10079 ELSE m - 1) /\ OfWeek(Before(m))
<1>1. PICK n \in Int : n = m + 10080 - 1 /\ 0 <= n /\ n < 20160
  BY DEF OfWeek
<1>2. n % Week = IF n < 10080 THEN n ELSE n - 10080
  BY <1>1, ModWeek
<1>3. Before(m) = n % Week
  BY <1>1, Units DEF Before
<1>4. PICK k \in Int : k = IF n < 10080 THEN n ELSE n - 10080
  OBVIOUS
<1>5. k = (IF m = 0 THEN 10079 ELSE m - 1) /\ OfWeek(k)
  BY <1>1, <1>4 DEF OfWeek
<1>. QED
  BY <1>2, <1>3, <1>4, <1>5

\* A minute of the server is one of the venue, and Before takes both back.
Later(m) == (m + 1) % Week

LEMMA LaterKnown ==
    ASSUME NEW m, OfWeek(m)
    PROVE  /\ Later(m) = IF m = 10079 THEN 0 ELSE m + 1
           /\ OfWeek(Later(m)) /\ Later(m) # m /\ Before(Later(m)) = m
<1>1. OfDay(1)
  BY DEF OfDay
<1>2. Later(m) = IF m + 1 < 10080 THEN m + 1 ELSE m + 1 - 10080
  BY <1>1, SumOfWeek DEF Later
<1>3. PICK k \in Int : k = IF m = 10079 THEN 0 ELSE m + 1
  BY DEF OfWeek
<1>4. k = Later(m) /\ OfWeek(k) /\ k # m
  BY <1>2, <1>3 DEF OfWeek
<1>5. Before(k) = IF k = 0 THEN 10079 ELSE k - 1
  BY <1>4, BeforeKnown
<1>6. Before(k) = m
  BY <1>3, <1>5 DEF OfWeek
<1>. QED
  BY <1>3, <1>4, <1>6

InZone(m, s) == (m + s) % Week

LEMMA LaterInZone ==
    ASSUME NEW m, OfWeek(m), NEW s, OfDay(s)
    PROVE  /\ OfWeek(InZone(m, s)) /\ OfWeek(InZone(Later(m), s))
           /\ Before(InZone(Later(m), s)) = InZone(m, s)
<1>1. /\ InZone(m, s) = IF m + s < 10080 THEN m + s ELSE m + s - 10080
      /\ OfWeek(InZone(m, s))
  BY SumOfWeek DEF InZone
<1>2. PICK n : n = Later(m) /\ OfWeek(n) /\ n = IF m = 10079 THEN 0 ELSE m + 1
  BY LaterKnown
<1>3. /\ InZone(n, s) = IF n + s < 10080 THEN n + s ELSE n + s - 10080
      /\ OfWeek(InZone(n, s))
  BY <1>2, SumOfWeek DEF InZone
<1>4. PICK k : k = InZone(n, s) /\ OfWeek(k) /\ Before(k) = IF k = 0 THEN 10079 ELSE k - 1
  BY <1>3, BeforeKnown
<1>5. (IF k = 0 THEN 10079 ELSE k - 1) = IF m + s < 10080 THEN m + s ELSE m + s - 10080
  BY <1>2, <1>3, <1>4 DEF OfWeek, OfDay
<1>. QED
  BY <1>1, <1>2, <1>3, <1>4, <1>5

-------------------------------------------------------------------------------
(* Windows. *)

Since(m, d, from) == (m - (d * Day + from) + Week) % Week
Length(from, to) == (to - from + Day) % Day
DayBefore(w) == IF w = 0 THEN 6 ELSE w - 1

\* The part of a window that lies on the day it begins.
Within(from, to, t) == IF from > to THEN t >= from ELSE from <= t /\ t <= to

LEMMA LengthKnown ==
    ASSUME NEW from, OfDay(from), NEW to, OfDay(to)
    PROVE  Length(from, to) = IF from > to THEN to - from + 1440 ELSE to - from
<1>1. PICK n \in Int : n = to - from + 1440 /\ 0 <= n /\ n < 2880
  BY DEF OfDay
<1>2. n % 1440 = IF n < 1440 THEN n ELSE n - 1440
  <2>1. ASSUME n < 1440 PROVE n % 1440 = n
    BY <1>1, <2>1
  <2>2. ASSUME n >= 1440 PROVE n % 1440 = n - 1440
    BY <1>1, <2>2
  <2>. QED
    BY <2>1, <2>2
<1>3. Length(from, to) = n % 1440
  BY <1>1, Units DEF Length
<1>4. (IF n < 1440 THEN n ELSE n - 1440) = IF from > to THEN to - from + 1440 ELSE to - from
  BY <1>1 DEF OfDay
<1>. QED
  BY <1>2, <1>3, <1>4

LEMMA SinceKnown ==
    ASSUME NEW w \in Int, 0 <= w, w <= 6, NEW t, OfDay(t), NEW m, m = 1440 * w + t,
           NEW d \in Int, 0 <= d, d <= 6, NEW from, OfDay(from)
    PROVE  LET x == 1440 * w + t - (1440 * d + from)
           IN  Since(m, d, from) = IF x < 0 THEN x + 10080 ELSE x
<1>1. PICK n \in Int : n = 1440 * w + t - (1440 * d + from) + 10080 /\ 0 <= n /\ n < 20160
  BY DEF OfDay
<1>2. n % Week = IF n < 10080 THEN n ELSE n - 10080
  BY <1>1, ModWeek
<1>3. Since(m, d, from) = n % Week
  <2>1. m - (d * Day + from) + Week = n
    BY <1>1, Units DEF OfDay
  <2>. QED
    BY <2>1 DEF Since
<1>4. t \in Int /\ from \in Int
  BY DEF OfDay
<1>. QED
  BY <1>1, <1>2, <1>3, <1>4

\* A window holds a moment on the day it begins or in the small hours of the next.
LEMMA OneDayKnown ==
    ASSUME NEW w \in Int, 0 <= w, w <= 6, NEW t, OfDay(t), NEW m, m = 1440 * w + t,
           NEW d \in Int, 0 <= d, d <= 6, NEW from, OfDay(from), NEW to, OfDay(to)
    PROVE  Since(m, d, from) <= Length(from, to) <=>
               \/ d = w /\ Within(from, to, t)
               \/ d = DayBefore(w) /\ from > to /\ t <= to
<1>1. t \in Int /\ 0 <= t /\ t < 1440 /\ from \in Int /\ 0 <= from /\ from < 1440
      /\ to \in Int /\ 0 <= to /\ to < 1440
  BY DEF OfDay
<1>2. PICK x \in Int : /\ x = 1440 * w + t - (1440 * d + from)
                       /\ Since(m, d, from) = IF x < 0 THEN x + 10080 ELSE x
  BY <1>1, SinceKnown
<1>3. PICK l \in Int : /\ l = IF from > to THEN to - from + 1440 ELSE to - from
                       /\ l = Length(from, to) /\ 0 <= l /\ l < 1440
  BY <1>1, LengthKnown
<1>4. CASE d = w
  <2>1. x = t - from
    BY <1>1, <1>2, <1>4
  <2>2. DayBefore(w) # w
    BY DEF DayBefore
  <2>. QED
    BY <1>1, <1>2, <1>3, <1>4, <2>1, <2>2 DEF Within
<1>5. CASE d = DayBefore(w)
  <2>1. d # w /\ (IF x < 0 THEN x + 10080 ELSE x) = t - from + 1440
    BY <1>1, <1>2, <1>5 DEF DayBefore
  <2>. QED
    BY <1>1, <1>2, <1>3, <1>5, <2>1
<1>6. CASE d # w /\ d # DayBefore(w)
  <2>1. CASE d < w
    <3>1. d <= w - 2
      BY <1>6, <2>1 DEF DayBefore
    <3>2. x > 1440
      BY <1>1, <1>2, <3>1
    <3>. QED
      BY <1>2, <1>3, <1>6, <3>2
  <2>2. CASE d > w
    <3>1. x < 0 /\ x + 10080 > 1440
      BY <1>1, <1>2, <1>6, <2>2 DEF DayBefore
    <3>. QED
      BY <1>2, <1>3, <1>6, <3>1
  <2>. QED
    BY <1>6, <2>1, <2>2
<1>. QED
  BY <1>4, <1>5, <1>6

LEMMA InWindowKnown ==
    ASSUME NEW m, OfWeek(m), NEW from, OfDay(from), NEW to, OfDay(to),
           NEW days \in SUBSET (0 .. 6)
    PROVE  InWindow(from, to, days, m) <=>
               \/ m \div Day \in days /\ Within(from, to, m % Day)
               \/ DayBefore(m \div Day) \in days /\ from > to /\ m % Day <= to
<1>1. PICK w \in Int, t \in Int :
          /\ w = m \div Day /\ t = m % Day /\ OfDay(t) /\ 0 <= w /\ w <= 6
          /\ m = 1440 * w + t
  BY Moment DEF OfDay
<1>2. \A d \in days : d \in Int /\ 0 <= d /\ d <= 6
  OBVIOUS
<1>3. InWindow(from, to, days, m) <=> \E d \in days : Since(m, d, from) <= Length(from, to)
  BY DEF InWindow, Since, Length
<1>4. \A d \in days : Since(m, d, from) <= Length(from, to) <=>
          \/ d = w /\ Within(from, to, t)
          \/ d = DayBefore(w) /\ from > to /\ t <= to
  BY <1>1, <1>2, OneDayKnown
<1>5. w \in days <=> \E d \in days : d = w
  OBVIOUS
<1>6. DayBefore(w) \in days <=> \E d \in days : d = DayBefore(w)
  OBVIOUS
<1>7. InWindow(from, to, days, m) <=>
          \/ w \in days /\ Within(from, to, t)
          \/ DayBefore(w) \in days /\ from > to /\ t <= to
  BY <1>3, <1>4, Zenon
<1>8. m \div Day = w /\ m % Day = t
  BY <1>1
<1>. QED
  BY <1>7, <1>8, Zenon

-------------------------------------------------------------------------------
(* Types. *)

Minute == [checked : BOOLEAN, said : SUBSET (0 .. 30), open : BOOLEAN, edited : BOOLEAN]

ClockTypes ==
    /\ OfWeek(now) /\ OfDay(skew) /\ midnight \in {0, 24}
    /\ offer \in OfferRow /\ this \in Minute /\ last \in Minute
    /\ minutes \in Nat /\ edits \in Nat /\ outages \in Nat

LEMMA RowKnown ==
    ASSUME NEW o \in OfferRow
    PROVE  /\ OfDay(o.from) /\ OfDay(o.to) /\ o.days \in SUBSET (0 .. 6)
           /\ o.cap \in Nat /\ o.taken \in Nat
           /\ o.active \in BOOLEAN /\ o.override \in BOOLEAN /\ o.expired \in BOOLEAN
BY Times DEF OfferRow

LEMMA OfferOfRow ==
    ASSUME NEW from \in TimeOfDay, NEW to \in TimeOfDay, NEW days \in SUBSET (0 .. 6), NEW cap \in Nat
    PROVE  OfferOf(from, to, days, cap) \in OfferRow
BY DEF OfferOf, OfferRow

LEMMA OnDaysKnown ==
    ASSUME NEW names \in SUBSET {"Mon", "Tue", "Wed", "Thu", "Fri", "Sat", "Sun"}
    PROVE  OnDays(names) \in SUBSET (0 .. 6)
BY DEF OnDays, Weekday

LEMMA SeededRows == \A i \in 1 .. 15 : MOCK_OFFERS[i] \in OfferRow
<1>1. \A h \in 0 .. 23 : T(h, 0) \in TimeOfDay
  BY Times DEF T, OfDay
<1>2. Daily \in SUBSET (0 .. 6)
  BY DEF Daily
<1>3. /\ OnDays({"Mon", "Tue", "Wed", "Thu", "Fri"}) \in SUBSET (0 .. 6)
      /\ OnDays({"Fri", "Sat"}) \in SUBSET (0 .. 6)
      /\ OnDays({"Wed"}) \in SUBSET (0 .. 6)
      /\ OnDays({"Sun"}) \in SUBSET (0 .. 6)
      /\ OnDays({"Thu", "Fri", "Sat"}) \in SUBSET (0 .. 6)
      /\ OnDays({"Wed", "Thu", "Fri", "Sat"}) \in SUBSET (0 .. 6)
      /\ OnDays({"Mon"}) \in SUBSET (0 .. 6)
  BY OnDaysKnown
<1>4. \A f, t \in 0 .. 23, days \in SUBSET (0 .. 6), cap \in Nat :
          OfferOf(T(f, 0), T(t, 0), days, cap) \in OfferRow
  <2>. TAKE f, t \in 0 .. 23, days \in SUBSET (0 .. 6), cap \in Nat
  <2>1. T(f, 0) \in TimeOfDay /\ T(t, 0) \in TimeOfDay
    BY <1>1
  <2>. QED
    BY <2>1, OfferOfRow, Zenon
<1>. QED
  BY <1>2, <1>3, <1>4 DEF MOCK_OFFERS

LEMMA InitTypes == ClockInit => ClockTypes
<1>. SUFFICES ASSUME ClockInit PROVE ClockTypes
  OBVIOUS
<1>1. offer \in OfferRow
  BY SeededRows, ClockAssumption DEF ClockInit
<1>2. OfDay(offer.from) /\ OfDay(offer.to)
  BY <1>1, RowKnown
<1>3. skew \in Int /\ 0 <= skew /\ skew <= 1439 /\ midnight \in {0, 24}
  BY ClockAssumption, Times DEF ClockInit, OfDay
<1>4. PICK day \in Daily, at \in {offer.from - 2, offer.to - 32, Day - 2} :
          now = (day * Day + at - skew + Week) % Week
  BY DEF ClockInit
<1>5. PICK n \in Int : n = day * Day + at - skew + Week /\ 0 <= n /\ n < 20160
  <2>1. day \in Int /\ 0 <= day /\ day <= 6
    BY DEF Daily
  <2>2. at \in Int /\ -32 <= at /\ at <= 1438
    BY <1>2, Units DEF OfDay
  <2>. QED
    BY <1>3, <2>1, <2>2, Units
<1>6. OfWeek(now)
  <2>1. now = IF n < 10080 THEN n ELSE n - 10080
    BY <1>4, <1>5, ModWeek
  <2>. QED
    BY <1>5, <2>1 DEF OfWeek
<1>7. this \in Minute
  <2>1. isOfferAvailableNow(offer, VenueMoment) \in BOOLEAN
    BY DEF isOfferAvailableNow
  <2>. QED
    BY <2>1 DEF ClockInit, Quiet, Minute
<1>8. last \in Minute
  <2>1. isOfferAvailableNow(offer, Before(VenueMoment)) \in BOOLEAN
    BY DEF isOfferAvailableNow
  <2>2. Says(offer, Before(now)) \in SUBSET (0 .. 30)
    BY DEF Says, Ended
  <2>. QED
    BY <2>1, <2>2 DEF ClockInit, Minute
<1>. QED
  BY <1>1, <1>3, <1>6, <1>7, <1>8 DEF ClockInit, ClockTypes, OfDay
-------------------------------------------------------------------------------
(* When an offer can be claimed. *)

Claimable(o) == o.active /\ ~o.expired /\ ~(o.cap > 0 /\ o.taken >= o.cap)
OnItsDay(o, m) == o.days = {} \/ m \div Day \in o.days
InHours(o, t) == IF o.from > o.to THEN t >= o.from \/ t <= o.to ELSE o.from <= t /\ t <= o.to

LEMMA LocalKnown ==
    ASSUME ClockTypes, NEW m, OfWeek(m)
    PROVE  /\ getLocalOfferTime(m).weekday = m \div Day
           /\ PrintedAs24(m) => getLocalOfferTime(m).time = 1440 + (m % Day)
           /\ ~PrintedAs24(m) => getLocalOfferTime(m).time = m % Day
<1>1. PICK t \in Int : t = m % Day /\ OfDay(t)
  BY Moment DEF OfDay
<1>2. getLocalOfferTime(m).time = IF t < 60 THEN T(midnight, 0) + t ELSE t
  BY <1>1, Units DEF getLocalOfferTime
<1>3. midnight = 0 \/ midnight = 24
  BY DEF ClockTypes
<1>4. PrintedAs24(m) <=> midnight = 24 /\ t < 60
  BY <1>1, Units DEF PrintedAs24
<1>5. T(0, 0) = 0 /\ T(24, 0) = 1440
  BY DEF T
<1>6. getLocalOfferTime(m).weekday = m \div Day
  BY DEF getLocalOfferTime
<1>7. PrintedAs24(m) => getLocalOfferTime(m).time = 1440 + t
  BY <1>2, <1>4, <1>5
<1>8. ~PrintedAs24(m) => getLocalOfferTime(m).time = t
  BY <1>1, <1>2, <1>3, <1>4, <1>5
<1>. QED
  BY <1>1, <1>6, <1>7, <1>8

\* Away from an hour printed as 24, the code compares the time of day itself.
LEMMA OpenKnown ==
    ASSUME ClockTypes, NEW o \in OfferRow, NEW m, OfWeek(m), ~PrintedAs24(m)
    PROVE  isOfferAvailableNow(o, m) <=>
               Claimable(o) /\ (o.override \/ (OnItsDay(o, m) /\ InHours(o, m % Day)))
<1>1. PICK t \in Int : t = m % Day /\ OfDay(t)
  BY Moment DEF OfDay
<1>2. getLocalOfferTime(m).weekday = m \div Day /\ getLocalOfferTime(m).time = t
  BY <1>1, LocalKnown
<1>3. isOfferAvailableNow(o, m) <=>
          /\ Claimable(o)
          /\ \/ o.override
             \/ /\ OnItsDay(o, m)
                /\ IF o.from > o.to THEN ~(t < o.from /\ t > o.to) ELSE ~(t < o.from \/ t > o.to)
  BY <1>2 DEF isOfferAvailableNow, Claimable, OnItsDay, Overnight
<1>4. o.from \in Int /\ o.to \in Int
  BY RowKnown DEF OfDay
<1>5. (IF o.from > o.to THEN ~(t < o.from /\ t > o.to) ELSE ~(t < o.from \/ t > o.to))
      <=> InHours(o, t)
  BY <1>4 DEF InHours
<1>. QED
  BY <1>1, <1>3, <1>5

LEMMA InTheZone ==
    ASSUME ClockTypes
    PROVE  OfWeek(VenueMoment) /\ (skew = 0 => VenueMoment = now)
<1>1. OfWeek(now) /\ OfDay(skew)
  BY DEF ClockTypes
<1>2. /\ (now + skew) % Week = IF now + skew < 10080 THEN now + skew ELSE now + skew - 10080
      /\ OfWeek((now + skew) % Week)
  BY <1>1, SumOfWeek
<1>3. now \in Int /\ now < 10080
  BY <1>1 DEF OfWeek
<1>. QED
  BY <1>2, <1>3 DEF VenueMoment

\* What the owner means, when the small hours do not count.
LEMMA AdvertisedKnown ==
    ASSUME ClockTypes, ~SmallHours
    PROVE  Advertised <=>
               /\ Claimable(offer)
               /\ offer.override \/ (OnItsDay(offer, VenueMoment) /\ InHours(offer, VenueMoment % Day))
<1>. DEFINE m == VenueMoment
            days == IF offer.days = {} THEN Daily ELSE offer.days
<1>1. OfWeek(m) /\ offer \in OfferRow
  BY InTheZone DEF ClockTypes
<1>2. /\ OfDay(offer.from) /\ OfDay(offer.to) /\ offer.days \in SUBSET (0 .. 6)
      /\ offer.cap \in Nat /\ offer.taken \in Nat
  BY <1>1, RowKnown
<1>3. PICK t \in Int : t = m % Day /\ OfDay(t)
  BY <1>1, Moment DEF OfDay
<1>4. days \in SUBSET (0 .. 6)
  BY <1>2 DEF Daily
<1>5. InWindow(offer.from, offer.to, days, m) <=>
          \/ m \div Day \in days /\ Within(offer.from, offer.to, m % Day)
          \/ DayBefore(m \div Day) \in days /\ offer.from > offer.to /\ m % Day <= offer.to
  <2>. HIDE DEF m, days
  <2>. QED
    BY <1>1, <1>2, <1>4, InWindowKnown
<1>6. ~(offer.from > offer.to /\ m % Day <= offer.to)
  BY DEF SmallHours, Overnight
<1>7. m \div Day \in 0 .. 6
  <2>. HIDE DEF m
  <2>. QED
    BY <1>1, Moment
<1>8. m \div Day \in days <=> OnItsDay(offer, m)
  BY <1>7 DEF OnItsDay, Daily
<1>9. Within(offer.from, offer.to, m % Day) <=> InHours(offer, m % Day)
  BY <1>6 DEF Within, InHours
<1>10. (offer.cap = 0 \/ offer.taken < offer.cap) <=> ~(offer.cap > 0 /\ offer.taken >= offer.cap)
  BY <1>2
<1>11. Advertised <=>
          /\ offer.active /\ ~offer.expired /\ (offer.cap = 0 \/ offer.taken < offer.cap)
          /\ offer.override \/ InWindow(offer.from, offer.to, days, m)
  BY DEF Advertised
<1>12. InWindow(offer.from, offer.to, days, m) <=> OnItsDay(offer, m) /\ InHours(offer, m % Day)
  <2>. HIDE DEF m, days
  <2>. QED
    BY <1>5, <1>6, <1>8, <1>9
<1>. HIDE DEF m, days
<1>13. Advertised <=>
          Claimable(offer) /\ (offer.override \/ (OnItsDay(offer, m) /\ InHours(offer, m % Day)))
  BY <1>10, <1>11, <1>12 DEF Claimable
<1>. QED
  BY <1>13 DEF m

LEMMA VenueHours ==
    \A hours \in MANCHESTER_VENUES : OfDay(hours[1]) /\ OfDay(hours[2])
BY DEF MANCHESTER_VENUES, T, OfDay

LEMMA VenueLiveKnown ==
    ASSUME ClockTypes, skew = 0, NEW opening, OfDay(opening), NEW closing, OfDay(closing)
    PROVE  isVenueLive(opening, closing) <=> InWindow(opening, closing, Daily, VenueMoment)
<1>1. OfWeek(now) /\ VenueMoment = now
  BY InTheZone DEF ClockTypes
<1>2. PICK w \in Int, t \in Int :
          w = now \div Day /\ t = now % Day /\ 0 <= w /\ w <= 6
  BY <1>1, Moment DEF OfDay
<1>3. InWindow(opening, closing, 0 .. 6, now) <=>
          \/ now \div Day \in 0 .. 6 /\ Within(opening, closing, now % Day)
          \/ DayBefore(now \div Day) \in 0 .. 6 /\ opening > closing /\ now % Day <= closing
  <2>1. (0 .. 6) \in SUBSET (0 .. 6)
    OBVIOUS
  <2>. QED
    BY <1>1, <2>1, InWindowKnown
<1>4. w \in 0 .. 6 /\ DayBefore(w) \in 0 .. 6
  BY <1>2 DEF DayBefore
<1>5. InWindow(opening, closing, Daily, VenueMoment) <=>
          Within(opening, closing, t) \/ (opening > closing /\ t <= closing)
  BY <1>1, <1>2, <1>3, <1>4, Zenon DEF Daily
<1>6. isVenueLive(opening, closing) <=>
          IF opening > closing THEN t >= opening \/ t <= closing ELSE t >= opening /\ t <= closing
  BY <1>2 DEF isVenueLive
<1>7. opening \in Int /\ closing \in Int
  BY DEF OfDay
<1>. QED
  BY <1>5, <1>6, <1>7 DEF Within

LEMMA AsAdvertised == ClockTypes => OpenAsAdvertised
<1>. SUFFICES ASSUME ClockTypes PROVE OpenAsAdvertised
  OBVIOUS
<1>1. offer \in OfferRow /\ OfWeek(now) /\ OfWeek(VenueMoment) /\ (skew = 0 => VenueMoment = now)
  BY InTheZone DEF ClockTypes
<1>2. ASSUME ~SmallHours, ~PrintedAs24(VenueMoment)
      PROVE  isOfferAvailableNow(offer, VenueMoment) <=> Advertised
  BY <1>1, <1>2, OpenKnown, AdvertisedKnown
<1>3. isOfferAvailableNow(offer, VenueMoment) \in BOOLEAN /\ isOfferAvailableNow(offer, now) \in BOOLEAN
      /\ Advertised \in BOOLEAN
  BY DEF isOfferAvailableNow, Advertised
<1>4. isOfferAvailableNow(offer, VenueMoment) # Advertised => SmallHours \/ PrintedAs24(VenueMoment)
  BY <1>2, <1>3
<1>5. isOfferAvailableNow(offer, now) # Advertised
          => skew # 0 \/ SmallHours \/ PrintedAs24(VenueMoment)
  BY <1>1, <1>4
<1>6. ASSUME NEW hours \in MANCHESTER_VENUES, skew = 0
      PROVE  ~(isVenueLive(hours[1], hours[2]) # InWindow(hours[1], hours[2], Daily, VenueMoment))
  <2>1. isVenueLive(hours[1], hours[2]) <=> InWindow(hours[1], hours[2], Daily, VenueMoment)
    BY <1>6, VenueHours, VenueLiveKnown
  <2>2. isVenueLive(hours[1], hours[2]) \in BOOLEAN
        /\ InWindow(hours[1], hours[2], Daily, VenueMoment) \in BOOLEAN
    BY DEF isVenueLive, InWindow
  <2>. QED
    BY <2>1, <2>2
<1>7. \A hours \in MANCHESTER_VENUES :
         isVenueLive(hours[1], hours[2]) # InWindow(hours[1], hours[2], Daily, VenueMoment)
            => skew # 0
  BY <1>6
<1>. QED
  BY <1>4, <1>5, <1>7, Zenon DEF OpenAsAdvertised

LEMMA Honest == ClockTypes => StatusIsHonest
<1>. SUFFICES ASSUME ClockTypes PROVE StatusIsHonest
  OBVIOUS
<1>. DEFINE m == VenueMoment
            local == getLocalOfferTime(m)
            status == getOfferStatus(offer, m)
            open == isOfferAvailableNow(offer, m)
<1>1. /\ OfWeek(m) /\ offer.from \in Int /\ offer.to \in Int /\ offer.to < 1440
      /\ offer.cap \in Nat /\ offer.taken \in Nat
  BY InTheZone, RowKnown DEF ClockTypes, OfDay
<1>2. PICK t \in Int : t = m % Day /\ (local.time = t \/ local.time = 1440 + t) /\ 0 <= t
  <2>. HIDE DEF m
  <2>1. PICK t \in Int : t = m % Day /\ 0 <= t
    BY <1>1, Moment DEF OfDay
  <2>. QED
    BY <1>1, <2>1, LocalKnown DEF local
<1>3. status = "active" => open
  BY DEF getOfferStatus
<1>4. open /\ status = "expired" => offer.cap = 0
  BY <1>1 DEF getOfferStatus, isOfferAvailableNow
<1>5. open /\ status = "upcoming" => offer.override \/ SmallHours
  <2>. SUFFICES ASSUME open, status = "upcoming", ~offer.override PROVE SmallHours
    OBVIOUS
  <2>1. (offer.days = {} \/ local.weekday \in offer.days) /\ local.time < offer.from
    BY DEF getOfferStatus
  <2>2. IF Overnight(offer) THEN ~(local.time < offer.from /\ local.time > offer.to)
        ELSE ~(local.time < offer.from \/ local.time > offer.to)
    BY DEF isOfferAvailableNow
  <2>3. Overnight(offer) /\ local.time <= offer.to
    BY <1>1, <1>2, <2>1, <2>2
  <2>4. t <= offer.to
    BY <1>1, <1>2, <2>3
  <2>. QED
    BY <1>2, <2>3, <2>4 DEF SmallHours
<1>6. open => status # "inactive"
  BY DEF getOfferStatus, isOfferAvailableNow
<1>. QED
  BY <1>3, <1>4, <1>5, <1>6 DEF StatusIsHonest
-------------------------------------------------------------------------------
(* The minutes remember what they were. *)

\* While nobody has changed the offer, a minute holds whether the offer was open in
\* it and what the countdown has said in it.
Told ==
    /\ ~this.edited =>
        /\ this.open <=> isOfferAvailableNow(offer, VenueMoment)
        /\ this.said = IF this.checked THEN Says(offer, now) ELSE {}
    /\ ~this.edited /\ ~last.edited =>
        /\ last.open <=> isOfferAvailableNow(offer, Before(VenueMoment))
        /\ last.said = IF last.checked THEN Says(offer, Before(now)) ELSE {}

ClockInv == ClockTypes /\ Told

LEMMA ClockStarts == ClockInit => ClockInv
<1>. SUFFICES ASSUME ClockInit PROVE Told
  BY InitTypes DEF ClockInv
<1>1. /\ this.edited = FALSE /\ this.checked = FALSE /\ this.said = {}
      /\ this.open = isOfferAvailableNow(offer, VenueMoment)
  BY DEF ClockInit, Quiet
<1>2. /\ last.checked = TRUE /\ last.said = Says(offer, Before(now))
      /\ last.open = isOfferAvailableNow(offer, Before(VenueMoment))
  BY DEF ClockInit
<1>. QED
  BY <1>1, <1>2 DEF Told

LEMMA CheckKeeps ==
    ASSUME ClockInv, checkOfferCountdowns
    PROVE  ClockInv'
<1>1. /\ this' = [this EXCEPT !.checked = TRUE, !.said = Says(offer, now)] /\ this \in Minute
      /\ UNCHANGED <<now, skew, midnight, offer, last, minutes, edits, outages>>
  BY DEF checkOfferCountdowns, ClockInv, ClockTypes
<1>2. Says(offer, now) \in SUBSET (0 .. 30)
  BY DEF Says, Ended
<1>3. this' \in Minute
  BY <1>1, <1>2 DEF Minute
<1>4. this'.checked = TRUE /\ this'.said = Says(offer, now)
      /\ this'.open = this.open /\ this'.edited = this.edited
  BY <1>1 DEF Minute
<1>5. ClockTypes'
  BY <1>1, <1>3 DEF ClockInv, ClockTypes
<1>6. isOfferAvailableNow(offer, VenueMoment)' <=> isOfferAvailableNow(offer, VenueMoment)
  BY <1>1 DEF isOfferAvailableNow, getLocalOfferTime, Overnight, VenueMoment
<1>7. isOfferAvailableNow(offer, Before(VenueMoment))'
      <=> isOfferAvailableNow(offer, Before(VenueMoment))
  BY <1>1 DEF isOfferAvailableNow, getLocalOfferTime, Overnight, VenueMoment
<1>8. Says(offer, now)' = Says(offer, now) /\ Says(offer, Before(now))' = Says(offer, Before(now))
  BY <1>1
<1>9. Told'
  BY <1>1, <1>4, <1>6, <1>7, <1>8 DEF ClockInv, Told
<1>. QED
  BY <1>5, <1>9 DEF ClockInv

LEMMA MinuteKeeps ==
    ASSUME ClockInv, NextMinute
    PROVE  ClockInv' /\ now' # now
<1>1. /\ now' = (now + 1) % Week /\ last' = this
      /\ skew' = skew /\ midnight' = midnight /\ offer' = offer /\ edits' = edits
      /\ this' = [Quiet EXCEPT !.open = isOfferAvailableNow(offer, VenueMoment)']
      /\ minutes' \in Nat /\ outages' \in Nat
  BY DEF NextMinute, ClockInv, ClockTypes
<1>2. OfWeek(now) /\ OfDay(skew) /\ this \in Minute
  BY DEF ClockInv, ClockTypes
<1>3. now' = Later(now) /\ OfWeek(now') /\ now' # now /\ Before(now') = now
  BY <1>1, <1>2, LaterKnown DEF Later
<1>4. Before(VenueMoment') = VenueMoment
  <2>1. VenueMoment = InZone(now, skew) /\ VenueMoment' = InZone(now', skew)
    BY <1>1 DEF VenueMoment, InZone
  <2>. QED
    BY <1>2, <1>3, <2>1, LaterInZone
<1>5. /\ this'.checked = FALSE /\ this'.said = {} /\ this'.edited = FALSE
      /\ this'.open = isOfferAvailableNow(offer, VenueMoment)'
  BY <1>1 DEF Quiet
<1>6. this' \in Minute
  <2>1. isOfferAvailableNow(offer, VenueMoment)' \in BOOLEAN
    BY DEF isOfferAvailableNow
  <2>. QED
    BY <1>1, <2>1 DEF Quiet, Minute
<1>7. ClockTypes'
  BY <1>1, <1>2, <1>3, <1>6 DEF ClockInv, ClockTypes
<1>8. isOfferAvailableNow(offer, Before(VenueMoment))' <=> isOfferAvailableNow(offer, VenueMoment)
  BY <1>1, <1>4 DEF isOfferAvailableNow, getLocalOfferTime, Overnight
<1>9. Says(offer, Before(now))' = Says(offer, now)
  BY <1>1, <1>3
<1>10. Told'
  BY <1>1, <1>5, <1>8, <1>9 DEF ClockInv, Told
<1>. QED
  BY <1>3, <1>7, <1>10 DEF ClockInv

LEMMA EditKeeps ==
    ASSUME ClockInv, NEW o \in OfferRow, Edit(o)
    PROVE  ClockInv'
<1>1. /\ offer' = o /\ this' = [this EXCEPT !.edited = TRUE] /\ edits' = edits + 1
      /\ UNCHANGED <<now, skew, midnight, last, minutes, outages>>
  BY DEF Edit
<1>2. this' \in Minute /\ this'.edited
  BY <1>1 DEF ClockInv, ClockTypes, Minute
<1>3. ClockTypes'
  BY <1>1, <1>2 DEF ClockInv, ClockTypes
<1>4. Told'
  BY <1>2 DEF Told
<1>. QED
  BY <1>3, <1>4 DEF ClockInv

LEMMA ClockKeeps == ClockInv /\ [ClockNext]_clock => ClockInv'
<1>. SUFFICES ASSUME ClockInv, [ClockNext]_clock PROVE ClockInv'
  OBVIOUS
<1>1. offer \in OfferRow
  BY DEF ClockInv, ClockTypes
<1>2. CASE checkOfferCountdowns
  BY <1>2, CheckKeeps
<1>3. CASE NextMinute
  BY <1>3, MinuteKeeps
<1>4. CASE toggleOffer
  <2>1. [offer EXCEPT !.active = ~@] \in OfferRow
    BY <1>1 DEF OfferRow
  <2>. QED
    BY <1>4, <2>1, EditKeeps DEF toggleOffer
<1>5. CASE updateOffer
  <2>1. \A b \in BOOLEAN : [offer EXCEPT !.override = b] \in OfferRow
    BY <1>1 DEF OfferRow
  <2>. QED
    BY <1>5, <2>1, EditKeeps DEF updateOffer
<1>6. CASE TakeLastPlace
  <2>1. [offer EXCEPT !.taken = IF offer.cap > 0 THEN offer.cap ELSE 1] \in OfferRow
    BY <1>1 DEF OfferRow
  <2>. QED
    BY <1>6, <2>1, EditKeeps DEF TakeLastPlace
<1>7. CASE Expire
  <2>1. [offer EXCEPT !.expired = TRUE] \in OfferRow
    BY <1>1 DEF OfferRow
  <2>. QED
    BY <1>7, <2>1, EditKeeps DEF Expire
<1>8. CASE UNCHANGED clock
  BY <1>8 DEF clock, ClockInv, ClockTypes, Told, isOfferAvailableNow, getLocalOfferTime,
              Overnight, VenueMoment
<1>. QED
  BY <1>2, <1>3, <1>4, <1>5, <1>6, <1>7, <1>8 DEF ClockNext

(* The invariant the theorems below rest on: types, and minutes that        *)
(* remember what they were.                                                 *)
THEOREM ClockInvariant == ClockSpec => []ClockInv
<1>. QED
  BY ClockStarts, ClockKeeps, PTL DEF ClockSpec
-------------------------------------------------------------------------------
(* What the countdown says. *)

LEMMA SaysKnown ==
    ASSUME NEW o \in OfferRow, NEW m, NEW t, OfDay(t), t = m % Day
    PROVE  /\ Says(o, m) # {} => o.active /\ o.to - t \in {30, 15} \cup (-1 .. 5)
           /\ Ended \in Says(o, m) <=> o.active /\ o.to - t \in {0, -1}
<1>1. PICK r \in Int : r = o.to - t
  BY RowKnown DEF OfDay
<1>2. Says(o, m) = IF ~o.active THEN {}
                   ELSE ({r} \cap ({30, 15} \cup 1 .. 5))
                        \cup (IF r \in {0, -1} THEN {Ended} ELSE {})
  BY <1>1 DEF Says
<1>3. Says(o, m) # {} => o.active /\ r \in {30, 15} \cup (-1 .. 5)
  BY <1>2
<1>4. Ended \in Says(o, m) <=> o.active /\ r \in {0, -1}
  BY <1>2 DEF Ended
<1>. QED
  BY <1>1, <1>3, <1>4

\* The minute before is on the same day, but for midnight.
LEMMA MinuteBefore ==
    ASSUME NEW m, OfWeek(m), NEW t, t = m % Day
    PROVE  /\ OfWeek(Before(m))
           /\ t = 0 => Before(m) % Day = 1439
           /\ t # 0 => Before(m) % Day = t - 1 /\ Before(m) \div Day = m \div Day
<1>1. PICK d \in Int : /\ d = m \div Day /\ OfDay(t) /\ 0 <= d /\ d <= 6
                       /\ m = 1440 * d + t
  BY Moment
<1>2. PICK b : b = Before(m) /\ OfWeek(b) /\ b = IF m = 0 THEN 10079 ELSE m - 1
  BY BeforeKnown
<1>3. m \in Int /\ t \in Int /\ 0 <= t /\ t < 1440
  BY <1>1 DEF OfWeek, OfDay
<1>4. ASSUME t # 0 PROVE b % Day = t - 1 /\ b \div Day = d
  <2>1. b = 1440 * d + (t - 1)
    BY <1>1, <1>2, <1>3, <1>4
  <2>2. OfDay(t - 1)
    BY <1>3, <1>4 DEF OfDay
  <2>. QED
    BY <1>1, <1>2, <2>1, <2>2, DayOf
<1>5. ASSUME t = 0 PROVE b % Day = 1439
  <2>1. PICK e \in Int, v \in Int : /\ e = b \div Day /\ v = b % Day
                                    /\ OfDay(v) /\ b = 1440 * e + v
    BY <1>2, Moment DEF OfDay
  <2>2. v \in Int /\ 0 <= v /\ v < 1440
    BY <2>1 DEF OfDay
  <2>3. CASE d = 0
    <3>1. 1440 * e + v = 10079
      BY <1>1, <1>2, <1>3, <1>5, <2>1, <2>3
    <3>. QED
      BY <2>1, <2>2, <3>1
  <2>4. CASE d # 0
    <3>1. 1440 * e + v = 1440 * d - 1
      BY <1>1, <1>2, <1>3, <1>5, <2>1, <2>4
    <3>2. v = 1440 * (d - e) - 1
      BY <1>1, <2>1, <3>1
    <3>3. d - e = 1
      BY <1>1, <2>1, <2>2, <3>2
    <3>. QED
      BY <2>1, <3>2, <3>3
  <2>. QED
    BY <2>3, <2>4
<1>. QED
  BY <1>1, <1>2, <1>4, <1>5

LEMMA EarlyAlarm ==
    ASSUME ClockInv, this.said # {}, ~this.open, ~(last.open /\ Ended \in this.said),
           OnItsDay(offer, VenueMoment), ~offer.expired,
           ~(offer.cap > 0 /\ offer.taken >= offer.cap),
           ~this.edited, ~last.edited, skew = 0,
           ~PrintedAs24(VenueMoment), ~PrintedAs24(Before(VenueMoment))
    PROVE  ~Overnight(offer) /\ offer.to - offer.from < 30
<1>1. /\ ClockTypes /\ offer \in OfferRow /\ OfWeek(now) /\ VenueMoment = now
  BY InTheZone DEF ClockInv, ClockTypes
<1>2. PICK t \in Int : t = now % Day /\ OfDay(t) /\ 0 <= t
  BY <1>1, Moment DEF OfDay
<1>3. offer.from \in Int /\ offer.to \in Int
  BY <1>1, RowKnown DEF OfDay
<1>4. this.said = Says(offer, now)
  BY DEF ClockInv, Told
<1>5. offer.active /\ offer.to - t \in {30, 15} \cup (-1 .. 5)
  BY <1>1, <1>2, <1>4, SaysKnown
<1>6. Claimable(offer)
  BY <1>5 DEF Claimable
<1>7. ~(offer.override \/ InHours(offer, t))
  <2>1. ~isOfferAvailableNow(offer, VenueMoment)
    BY DEF ClockInv, Told
  <2>. QED
    BY <1>1, <1>2, <1>6, <2>1, OpenKnown
<1>8. CASE offer.to - t = -1
  <2>1. Ended \in this.said
    BY <1>1, <1>2, <1>4, <1>5, <1>8, SaysKnown
  <2>2. ~isOfferAvailableNow(offer, Before(VenueMoment))
    BY <2>1 DEF ClockInv, Told
  <2>3. t # 0 /\ t - 1 = offer.to
    BY <1>1, <1>2, <1>3, <1>8, RowKnown DEF OfDay
  <2>4. /\ OfWeek(Before(now)) /\ Before(now) % Day = offer.to
        /\ OnItsDay(offer, Before(now))
    BY <1>1, <1>2, <2>3, MinuteBefore DEF OnItsDay
  <2>5. ~InHours(offer, offer.to)
    BY <1>1, <1>6, <2>2, <2>4, OpenKnown
  <2>6. InHours(offer, offer.to) \/ ~(offer.from <= offer.to)
    BY <1>3 DEF InHours
  <2>7. InHours(offer, offer.to)
    BY <1>3, <2>6 DEF InHours
  <2>. QED
    BY <2>5, <2>7
<1>9. CASE offer.to - t # -1
  <2>1. t <= offer.to /\ offer.to - t <= 30
    BY <1>2, <1>3, <1>5, <1>9
  <2>2. ~Overnight(offer) /\ t < offer.from
    BY <1>2, <1>3, <1>7, <2>1 DEF InHours, Overnight
  <2>. QED
    BY <1>2, <1>3, <2>1, <2>2
<1>. QED
  BY <1>8, <1>9

LEMMA LateAlarm ==
    ASSUME ClockInv, Ended \in this.said, this.open, ~this.edited, now % Day # offer.to,
           ~offer.override, skew = 0, ~PrintedAs24(VenueMoment)
    PROVE  offer.from = offer.to + 1
<1>1. /\ ClockTypes /\ offer \in OfferRow /\ OfWeek(now) /\ VenueMoment = now
  BY InTheZone DEF ClockInv, ClockTypes
<1>2. PICK t \in Int : t = now % Day /\ OfDay(t)
  BY <1>1, Moment DEF OfDay
<1>3. offer.from \in Int /\ offer.to \in Int
  BY <1>1, RowKnown DEF OfDay
<1>4. Ended \in Says(offer, now)
  BY DEF ClockInv, Told
<1>5. t = offer.to + 1
  <2>1. offer.to - t \in {0, -1}
    BY <1>1, <1>2, <1>4, SaysKnown
  <2>. QED
    BY <1>2, <1>3, <2>1
<1>6. InHours(offer, t)
  <2>1. isOfferAvailableNow(offer, VenueMoment)
    BY DEF ClockInv, Told
  <2>. QED
    BY <1>1, <1>2, <2>1, OpenKnown
<1>. QED
  BY <1>2, <1>3, <1>5, <1>6 DEF InHours

LEMMA FalseAlarm == ClockInv => FalseAlarmHasACause
<1>1. ASSUME ClockInv, this.said # {}
      PROVE  \/ this.open
             \/ last.open /\ Ended \in this.said
             \/ offer.days # {} /\ VenueMoment \div Day \notin offer.days
             \/ offer.expired
             \/ offer.cap > 0 /\ offer.taken >= offer.cap
             \/ this.edited \/ last.edited \/ skew # 0
             \/ PrintedAs24(VenueMoment) \/ PrintedAs24(Before(VenueMoment))
             \/ ~Overnight(offer) /\ offer.to - offer.from < 30
  BY <1>1, EarlyAlarm DEF OnItsDay
<1>2. ASSUME ClockInv, Ended \in this.said, this.open, ~this.edited
      PROVE  \/ now % Day = offer.to \/ offer.from = offer.to + 1
             \/ offer.override \/ skew # 0 \/ PrintedAs24(VenueMoment)
  BY <1>2, LateAlarm
<1>. QED
  BY <1>1, <1>2 DEF FalseAlarmHasACause

\* At the first minute outside the window, one of the last two minutes has said so.
LEMMA EndTold ==
    ASSUME ClockInv, VenueMoment % Day = (offer.to + 1) % Day, last.open,
           ~last.edited, ~this.edited
    PROVE  \/ Ended \in last.said \cup this.said
           \/ skew # 0
           \/ ~last.checked /\ (~this.checked \/ offer.to = T(23, 59))
<1>. SUFFICES ASSUME skew = 0, last.checked \/ (this.checked /\ offer.to # 1439)
              PROVE  Ended \in last.said \cup this.said
  BY Units
<1>1. /\ ClockTypes /\ offer \in OfferRow /\ OfWeek(now) /\ VenueMoment = now
      /\ OfWeek(Before(now))
  BY InTheZone, MinuteBefore DEF ClockInv, ClockTypes
<1>2. PICK t \in Int : t = now % Day /\ OfDay(t)
  BY <1>1, Moment DEF OfDay
<1>3. offer.to \in Int /\ 0 <= offer.to /\ offer.to < 1440
  BY <1>1, RowKnown DEF OfDay
<1>4. t = IF offer.to = 1439 THEN 0 ELSE offer.to + 1
  <2>1. PICK n \in Int : n = offer.to + 1 /\ 0 <= n /\ n <= 1440
    BY <1>3
  <2>2. n % 1440 = IF n = 1440 THEN 0 ELSE n
    <3>1. ASSUME n = 1440 PROVE n % 1440 = 0
      BY <3>1
    <3>2. ASSUME n # 1440 PROVE n % 1440 = n
      BY <2>1, <3>2
    <3>. QED
      BY <3>1, <3>2
  <2>3. t = n % 1440
    BY <1>1, <1>2, <2>1, Units
  <2>. QED
    BY <1>3, <2>1, <2>2, <2>3
<1>5. offer.active
  <2>1. isOfferAvailableNow(offer, Before(VenueMoment))
    BY DEF ClockInv, Told
  <2>. QED
    BY <2>1 DEF isOfferAvailableNow
<1>6. CASE last.checked
  <2>1. last.said = Says(offer, Before(now))
    BY <1>6 DEF ClockInv, Told
  <2>2. Before(now) % Day = offer.to
    <3>1. CASE t = 0
      <4>1. offer.to = 1439
        BY <1>3, <1>4, <3>1
      <4>. QED
        BY <1>1, <1>2, <3>1, <4>1, MinuteBefore
    <3>2. CASE t # 0
      <4>1. t - 1 = offer.to
        BY <1>3, <1>4, <3>2
      <4>. QED
        BY <1>1, <1>2, <3>2, <4>1, MinuteBefore
    <3>. QED
      BY <3>1, <3>2
  <2>3. OfDay(offer.to) /\ offer.to - offer.to \in {0, -1}
    BY <1>3 DEF OfDay
  <2>4. Ended \in Says(offer, Before(now))
    BY <1>1, <1>5, <2>2, <2>3, SaysKnown
  <2>. QED
    BY <2>1, <2>4
<1>7. CASE this.checked /\ offer.to # 1439
  <2>1. this.said = Says(offer, now)
    BY <1>7 DEF ClockInv, Told
  <2>2. offer.to - t \in {0, -1}
    BY <1>3, <1>4, <1>7
  <2>3. Ended \in Says(offer, now)
    BY <1>1, <1>2, <1>5, <2>2, SaysKnown
  <2>. QED
    BY <2>1, <2>3
<1>. QED
  BY <1>6, <1>7

-------------------------------------------------------------------------------
(* Any offer can be claimed exactly when its owner means it to be, but in   *)
(* the hours after midnight of an overnight one and in an hour printed as   *)
(* 24; and an open venue is marked so (isOfferAvailableNow, isVenueLive).   *)
THEOREM OffersOpenAsAdvertised == ClockSpec => []OpenAsAdvertised
<1>. QED
  BY ClockInvariant, AsAdvertised, PTL DEF ClockInv

(* Whatever the offer, the status in the lists and the claim agree but for  *)
(* the causes StatusIsHonest names (getOfferStatus).                        *)
THEOREM StatusAlwaysHonest == ClockSpec => []StatusIsHonest
<1>. QED
  BY ClockInvariant, Honest, PTL DEF ClockInv

(* A countdown or an end that nobody should have heard has one of the named *)
(* causes, for an offer of any days and times (checkOfferCountdowns).       *)
THEOREM FalseAlarmsHaveACause == ClockSpec => []FalseAlarmHasACause
<1>. QED
  BY ClockInvariant, FalseAlarm, PTL

(* The end of a window that users could claim in is told within two         *)
(* minutes, midnight included, unless the countdown was down, the zone is   *)
(* another, or 23:59 was skipped (checkOfferCountdowns).                    *)
THEOREM EndsAreAnnounced == ClockSpec => EndIsAnnounced
<1>1. ClockInv /\ [ClockNext]_clock =>
         [(now' # now /\ VenueMoment % Day = (offer.to + 1) % Day /\ last.open
            /\ ~last.edited /\ ~this.edited) =>
          \/ Ended \in last.said \cup this.said
          \/ skew # 0
          \/ ~last.checked /\ (~this.checked \/ offer.to = T(23, 59))]_clock
  BY EndTold
<1>. QED
  BY <1>1, ClockInvariant, PTL DEF ClockSpec, EndIsAnnounced

-------------------------------------------------------------------------------
\* A request in progress: a record of `Idle`'s fields.
JobRecord(r) ==
    r = [kind |-> r.kind, at |-> r.at, hours |-> r.hours, all |-> r.all, left |-> r.left,
         pct |-> r.pct, had |-> r.had, copy |-> r.copy, score |-> r.score, id |-> r.id,
         row |-> r.row, alone |-> r.alone]

VibeRow == [seeded : BOOLEAN, score : Int, count : Nat]
MaybeVibe == VibeRow \cup {NoVibe}
Tally == [n : Nat, sum : Int, slack : Nat]
NoTally == [n |-> 0, slack |-> 0, sum |-> 0]
Walking == {"readCrowd", "saveCrowd", "readVibe", "saveVibe", "alert"}

\* A request that walks over venues has some to do, of those it has found.
JobOK(r) ==
    /\ JobRecord(r)
    /\ r.all \subseteq Venues /\ r.left \subseteq Venues /\ r.copy \in MaybeVibe
    /\ r.kind \in Demo /\ r.at \in Walking => r.left # {} /\ r.left \subseteq r.all
    /\ r.kind = "check" => r.left # {} /\ r.score \in Scores
    /\ r.at = "saveVibe" => r.kind \in Demo \cup {"check"}
    /\ r.kind = "check" /\ r.at = "saveVibe" => r.copy # NoVibe

ScoreTypes ==
    /\ boot = [at |-> boot.at, attempt |-> boot.attempt]
    /\ vibe \in [Venues -> MaybeVibe] /\ checks \in [Venues -> Tally] /\ crossed \subseteq Venues
    /\ job = [k \in Jobs |-> job[k]] /\ \A k \in Jobs : JobOK(job[k])
    /\ ~Serving => \A k \in Jobs : job[k] = Idle

Distance(row, tally) == LET off == tally.n * row.score - tally.sum IN IF off < 0 THEN -off ELSE off
Counted(tally, s) ==
    [n |-> tally.n + 1, sum |-> tally.sum + 10 * s, slack |-> tally.slack + tally.n + 1]
Follows(row, tally) == row.count = tally.n /\ 2 * Distance(row, tally) <= tally.slack

\* The row of v that request k has read and will write.
Holding(k, v) == /\ job[k].at = "saveVibe" /\ v \in job[k].left
                 /\ Venue(k) = v /\ job[k].copy # NoVibe

\* Until two requests cross at a venue, its row follows its checks, a venue without
\* a row has had none, and who will write the row holds it as it is.
ScoreInv ==
    /\ ScoreTypes
    /\ \A v \in Venues \ crossed :
        /\ vibe[v] = NoVibe => checks[v] = NoTally
        /\ vibe[v] # NoVibe => Follows(vibe[v], checks[v])
        /\ \A k \in Jobs : Holding(k, v) => job[k].copy = vibe[v]

\* Min finds a member of any set of naturals that has one.
LEMMA LeastOf ==
    ASSUME NEW S \in SUBSET Nat, S # {}
    PROVE  Min(S) \in S
<1>1. PICK R : R = OpToRel(<, Nat)
  OBVIOUS
<1>2. IsWellFoundedOn(R, Nat)
  BY <1>1, NatLessThanWellFounded
<1>3. PICK m \in S : \A n \in S : <<n, m>> \notin R
  BY <1>2, WFMin
<1>4. \A n \in S : <<n, m>> \in R <=> n < m
  BY <1>1 DEF OpToRel
<1>5. \A n \in S : m \in Nat /\ n \in Nat /\ ~(n < m)
  BY <1>3, <1>4
<1>6. \A n \in S : m <= n
  BY <1>5
<1>. QED
  BY <1>6 DEF Min

\* The venue at hand is one of those still to do.
LEMMA FirstVenue ==
    ASSUME DemoAssumption, NEW S \in SUBSET Venues, S # {}
    PROVE  Min(S) \in S /\ Min(S) \in Venues
<1>1. Venues \in SUBSET Nat
  BY DEF DemoAssumption
<1>2. S \in SUBSET Nat
  BY <1>1
<1>. QED
  BY <1>2, LeastOf

\* What a rounded quotient is.
LEMMA Divided ==
    ASSUME NEW a \in Int, NEW b \in Nat, b > 0
    PROVE  a \div b \in Int /\ b * (a \div b) <= a /\ a < b * (a \div b) + b
<1>1. a = (b * (a \div b)) + (a % b) /\ 0 <= (a % b) /\ (a % b) < b /\ (a \div b) \in Int
  OBVIOUS
<1>. QED
  BY <1>1

\* One more check adds at most half of the new count to the distance.
LEMMA AverageFollows ==
    ASSUME NEW row \in VibeRow, NEW tally \in Tally, NEW s \in Nat
    PROVE  Averaged(row, s) \in VibeRow
           /\ (Follows(row, tally) => Follows(Averaged(row, s), Counted(tally, s)))
<1>1. PICK n \in Nat, sum \in Int, slack \in Nat :
          n = row.count /\ sum = tally.sum /\ slack = tally.slack
  BY DEF Tally, VibeRow
<1>2. PICK score \in Int : score = row.score
  BY DEF VibeRow
<1>3. PICK c \in Nat : c = n + 1 /\ c > 0
  BY <1>1
<1>4. PICK P \in Int : P = score * n
  BY <1>1, <1>2
<1>5. PICK q \in Int : q = (2 * (P + 10 * s) + c) \div (2 * c)
                       /\ (2 * c) * q <= 2 * (P + 10 * s) + c
                       /\ 2 * (P + 10 * s) + c < (2 * c) * q + 2 * c
  <2>1. PICK a \in Int, b \in Nat : a = 2 * (P + 10 * s) + c /\ b = 2 * c /\ b > 0
    BY <1>3, <1>4
  <2>2. a \div b \in Int /\ b * (a \div b) <= a /\ a < b * (a \div b) + b
    BY <2>1, Divided
  <2>. QED
    BY <2>1, <2>2
<1>6. PICK Q \in Int : Q = c * q /\ (2 * c) * q = 2 * Q
  BY <1>3, <1>5
<1>9. Averaged(row, s) = [row EXCEPT !.score = q, !.count = c]
  BY <1>1, <1>2, <1>3, <1>4, <1>5 DEF Averaged
<1>10. Averaged(row, s) \in VibeRow /\ Averaged(row, s).score = q /\ Averaged(row, s).count = c
  <2>1. row = [seeded |-> row.seeded, score |-> row.score, count |-> row.count]
        /\ row.seeded \in BOOLEAN
    BY DEF VibeRow
  <2>2. Averaged(row, s) = [seeded |-> row.seeded, score |-> q, count |-> c]
    BY <1>9, <2>1
  <2>. QED
    BY <1>3, <1>5, <2>1, <2>2 DEF VibeRow
<1>11. ASSUME Follows(row, tally)
       PROVE  Follows(Averaged(row, s), Counted(tally, s))
  <2>1. tally.n = n
    BY <1>1, <1>11 DEF Follows
  <2>2. 2 * (P - sum) <= slack /\ -slack <= 2 * (P - sum)
    <3>1. n * score = P
      BY <1>1, <1>2, <1>4
    <3>2. tally.n * row.score - tally.sum = P - sum
      BY <1>1, <1>2, <2>1, <3>1
    <3>3. Distance(row, tally) = IF P - sum < 0 THEN -(P - sum) ELSE P - sum
      BY <3>2 DEF Distance
    <3>4. 2 * Distance(row, tally) <= slack
      BY <1>1, <1>11 DEF Follows
    <3>5. 2 * (IF P - sum < 0 THEN -(P - sum) ELSE P - sum) <= slack
      BY <3>3, <3>4
    <3>. QED
      BY <3>5
  <2>3. LET off == Q - (sum + 10 * s)
        IN  2 * (IF off < 0 THEN -off ELSE off) <= slack + n + 1
    <3>1. PICK off \in Int : off = Q - (sum + 10 * s)
      OBVIOUS
    <3>2. 2 * Q <= 2 * (P + 10 * s) + c /\ 2 * (P + 10 * s) + c < 2 * Q + 2 * c
      BY <1>5, <1>6
    <3>3. 2 * off <= 2 * (P - sum) + c /\ 2 * (P - sum) - c <= 2 * off
      BY <3>1, <3>2
    <3>4. 2 * off <= slack + c /\ -(slack + c) <= 2 * off
      BY <2>2, <3>3
    <3>5. 2 * (IF off < 0 THEN -off ELSE off) <= slack + c
      BY <3>4
    <3>6. slack + c = slack + n + 1
      BY <1>3
    <3>. QED
      BY <3>1, <3>5, <3>6
  <2>4. Counted(tally, s).n = n + 1 /\ Counted(tally, s).sum = sum + 10 * s
        /\ Counted(tally, s).slack = slack + n + 1
    BY <1>1, <2>1 DEF Counted
  <2>5. (n + 1) * q = Q
    BY <1>3, <1>6
  <2>6. LET off == (n + 1) * q - (sum + 10 * s)
        IN  2 * (IF off < 0 THEN -off ELSE off) <= slack + n + 1
    BY <2>3, <2>5
  <2>7. Averaged(row, s).count = n + 1
    BY <1>3, <1>10
  <2>. QED
    BY <1>10, <2>4, <2>6, <2>7 DEF Follows, Distance
<1>. QED
  BY <1>10, <1>11

\* The seeded vibe rows are rows, and are there.
LEMMA SeededVibes ==
    ASSUME DemoAssumption
    PROVE  /\ VENUE_VIBES \in [Venues -> VibeRow]
           /\ \A v \in Venues : VENUE_VIBES[v] # NoVibe /\ VENUE_VIBES[v].seeded
                                /\ VENUE_VIBES[v].count \in Nat
                                /\ VENUE_VIBES[v].count * VENUE_VIBES[v].score \in Int
<1>1. ASSUME NEW v \in Venues
      PROVE  <<48, 49, 47, 45, 48, 44, 43, 45, 46, 45, 42, 45, 44, 42, 43>>[v + 1] \in Int
  <2>1. PICK i : i = v + 1 /\ i \in 1 .. 15
    BY DEF DemoAssumption
  <2>. QED
    BY <2>1
<1>2. ASSUME NEW v \in Venues
      PROVE  <<142, 320, 98, 112, 205, 87, 56, 74, 91, 168, 134, 145, 63, 48, 72>>[v + 1] \in Nat
  <2>1. PICK i : i = v + 1 /\ i \in 1 .. 15
    BY DEF DemoAssumption
  <2>. QED
    BY <2>1
<1>3. ASSUME NEW v \in Venues
      PROVE  VENUE_VIBES[v] \in VibeRow /\ VENUE_VIBES[v].seeded /\ VENUE_VIBES[v].count \in Nat
  <2>1. PICK scores, counts :
            /\ VENUE_VIBES = [w \in Venues |-> [seeded |-> TRUE, score |-> scores[w + 1],
                                                count |-> counts[w + 1]]]
            /\ scores[v + 1] \in Int
            /\ counts[v + 1] \in Nat
    <3>1. PICK scores : scores = <<48, 49, 47, 45, 48, 44, 43, 45, 46, 45, 42, 45, 44, 42, 43>>
      OBVIOUS
    <3>2. PICK counts :
              counts = <<142, 320, 98, 112, 205, 87, 56, 74, 91, 168, 134, 145, 63, 48, 72>>
      OBVIOUS
    <3>3. VENUE_VIBES = [w \in Venues |-> [seeded |-> TRUE, score |-> scores[w + 1],
                                           count |-> counts[w + 1]]]
      BY <3>1, <3>2, Zenon DEF VENUE_VIBES
    <3>4. scores[v + 1] \in Int
      BY <1>1, <3>1, ZenonT(60)
    <3>5. counts[v + 1] \in Nat
      BY <1>2, <3>2, ZenonT(60)
    <3>. QED
      BY <3>3, <3>4, <3>5
  <2>2. VENUE_VIBES[v] = [seeded |-> TRUE, score |-> scores[v + 1], count |-> counts[v + 1]]
    BY <2>1, Zenon
  <2>. QED
    BY <2>1, <2>2 DEF VibeRow
<1>4. ASSUME NEW v \in Venues
      PROVE  VENUE_VIBES[v] # NoVibe /\ VENUE_VIBES[v].count * VENUE_VIBES[v].score \in Int
  <2>1. PICK row : row = VENUE_VIBES[v] /\ row.count \in Nat /\ row.score \in Int
    BY <1>3 DEF VibeRow
  <2>2. NoVibe.count = -1
    BY DEF NoVibe
  <2>3. row # NoVibe
    BY <2>1, <2>2
  <2>4. row.count * row.score \in Int
    BY <2>1
  <2>. QED
    BY <2>1, <2>3, <2>4
<1>5. VENUE_VIBES = [v \in Venues |-> VENUE_VIBES[v]]
  BY DEF VENUE_VIBES
<1>. QED
  BY <1>3, <1>4, <1>5

\* A request that only differs in what JobOK does not read.
LEMMA SameJob ==
    ASSUME NEW r, JobOK(r), NEW n, JobRecord(n), n.kind = r.kind, n.at = r.at, n.all = r.all,
           n.left = r.left, n.copy = r.copy, n.score = r.score
    PROVE  JobOK(n)
BY DEF JobOK

\* A request that is neither of the demo panel nor a vibe check goes on.
LEMMA Outsider ==
    ASSUME NEW r, JobOK(r), NEW n, JobRecord(n), n.kind = r.kind, n.at = "saveCity",
           n.all = r.all, n.left = r.left, n.copy = r.copy,
           r.kind \notin Demo, r.kind # "check"
    PROVE  JobOK(n) /\ n.at # "saveVibe"
<1>1. n.all \subseteq Venues /\ n.left \subseteq Venues /\ n.copy \in MaybeVibe
  BY DEF JobOK
<1>. QED
  BY <1>1 DEF JobOK

\* Another request has run beside it.
LEMMA Accompanied ==
    ASSUME NEW r, JobOK(r), NEW n, n = [r EXCEPT !.alone = FALSE]
    PROVE  JobOK(n) /\ n.kind = r.kind /\ n.at = r.at /\ n.left = r.left /\ n.copy = r.copy
<1>1. r = [kind |-> r.kind, at |-> r.at, hours |-> r.hours, all |-> r.all, left |-> r.left,
           pct |-> r.pct, had |-> r.had, copy |-> r.copy, score |-> r.score, id |-> r.id,
           row |-> r.row, alone |-> r.alone]
  BY DEF JobOK, JobRecord
<1>2. n = [kind |-> r.kind, at |-> r.at, hours |-> r.hours, all |-> r.all, left |-> r.left,
           pct |-> r.pct, had |-> r.had, copy |-> r.copy, score |-> r.score, id |-> r.id,
           row |-> r.row, alone |-> FALSE]
  BY <1>1
<1>3. n.kind = r.kind /\ n.at = r.at /\ n.all = r.all /\ n.left = r.left /\ n.copy = r.copy
      /\ n.score = r.score
  BY <1>2
<1>4. JobRecord(n)
  BY <1>2 DEF JobRecord
<1>. QED
  BY <1>3, <1>4, SameJob

LEMMA IdleOK == JobOK(Idle)
BY DEF JobOK, JobRecord, Idle, MaybeVibe, NoCity, Demo, Walking

\* The database is new and no venue has had a check, or its rows are the seeded ones.
LEMMA InitScore == DemoAssumption /\ CityInit => ScoreInv
<1>1. SUFFICES ASSUME DemoAssumption, CityInit PROVE ScoreInv
  OBVIOUS
<1>2. PICK old \in BOOLEAN :
          /\ boot = [at |-> "count", attempt |-> 1]
          /\ vibe = [v \in Venues |-> IF old THEN VENUE_VIBES[v] ELSE NoVibe]
          /\ job = [j \in Jobs |-> Idle] /\ crossed = {}
          /\ checks = [v \in Venues |->
                          IF old THEN [n |-> VENUE_VIBES[v].count, slack |-> 0,
                                       sum |-> VENUE_VIBES[v].count * VENUE_VIBES[v].score]
                          ELSE [n |-> 0, slack |-> 0, sum |-> 0]]
  BY <1>1 DEF CityInit
<1>3. ScoreTypes
  <2>1. vibe \in [Venues -> MaybeVibe]
    BY <1>1, <1>2, SeededVibes DEF MaybeVibe
  <2>2. checks \in [Venues -> Tally]
    BY <1>1, <1>2, SeededVibes DEF Tally
  <2>. QED
    BY <1>2, <2>1, <2>2, IdleOK DEF ScoreTypes
<1>4. ASSUME NEW v \in Venues
      PROVE  /\ vibe[v] = NoVibe => checks[v] = NoTally
             /\ vibe[v] # NoVibe => Follows(vibe[v], checks[v])
             /\ \A k \in Jobs : ~Holding(k, v)
  <2>1. CASE old
    <3>1. PICK s \in Int, c \in Nat, p \in Int :
              s = VENUE_VIBES[v].score /\ c = VENUE_VIBES[v].count /\ p = c * s /\ VENUE_VIBES[v] # NoVibe
      BY <1>1, SeededVibes DEF VibeRow
    <3>2. vibe[v] = VENUE_VIBES[v] /\ checks[v] = [n |-> c, slack |-> 0, sum |-> p]
      BY <1>2, <2>1, <3>1
    <3>. QED
      BY <1>2, <3>1, <3>2 DEF Follows, Distance, Holding, Idle
  <2>2. CASE ~old
    BY <1>2, <2>2 DEF NoTally, Holding, Idle
  <2>. QED
    BY <2>1, <2>2
<1>. QED
  BY <1>3, <1>4 DEF ScoreInv

\* What follows a venue is again a request in progress.
LEMMA AfterOK ==
    ASSUME NEW r, JobOK(r), r.kind \in Demo, r.at \in Walking
    PROVE  JobOK(After(r)) /\ After(r).at # "saveVibe"
<1>1. PICK rest : rest = r.left \ {Min(r.left)}
  OBVIOUS
<1>2. PICK next : next = [r EXCEPT !.left = rest, !.had = FALSE, !.copy = NoVibe, !.pct = 0]
  OBVIOUS
<1>3. next = [kind |-> r.kind, at |-> r.at, hours |-> r.hours, all |-> r.all, left |-> rest,
              pct |-> 0, had |-> FALSE, copy |-> NoVibe, score |-> r.score, id |-> r.id,
              row |-> r.row, alone |-> r.alone]
  BY <1>2 DEF JobOK, JobRecord
<1>4. NoVibe \in MaybeVibe /\ rest \subseteq r.left /\ r.left # {} /\ r.left \subseteq r.all
      /\ r.all \subseteq Venues
  BY <1>1 DEF JobOK, MaybeVibe
<1>5. CASE rest # {}
  <2>1. PICK a : a \in {"readCrowd", "readVibe"} /\ After(r) = [next EXCEPT !.at = a]
    BY <1>1, <1>2, <1>5 DEF After
  <2>. QED
    BY <1>3, <1>4, <1>5, <2>1 DEF JobOK, JobRecord, Demo
<1>6. CASE rest = {} /\ r.kind = "reset"
  <2>1. \/ After(r) = [next EXCEPT !.at = "readVibe", !.left = r.all]
        \/ After(r) = [next EXCEPT !.at = "redemptions"]
    BY <1>1, <1>2, <1>6 DEF After
  <2>2. CASE After(r) = [next EXCEPT !.at = "readVibe", !.left = r.all]
    <3>1. PICK n : n = [kind |-> r.kind, at |-> "readVibe", hours |-> r.hours, all |-> r.all,
                        left |-> r.all, pct |-> 0, had |-> FALSE, copy |-> NoVibe,
                        score |-> r.score, id |-> r.id, row |-> r.row, alone |-> r.alone]
      OBVIOUS
    <3>2. After(r) = n
      BY <1>3, <2>2, <3>1
    <3>3. JobRecord(n)
      BY <3>1 DEF JobRecord
    <3>4. n.kind = "reset" /\ n.at = "readVibe" /\ n.all = r.all /\ n.left = r.all
          /\ n.copy = NoVibe
      BY <1>6, <3>1
    <3>5. n.all # {}
      BY <1>4, <3>4
    <3>6. JobOK(n)
      BY <1>4, <3>3, <3>4, <3>5 DEF JobOK
    <3>. QED
      BY <3>2, <3>4, <3>6
  <2>3. CASE After(r) = [next EXCEPT !.at = "redemptions"]
    <3>1. PICK n : n = [kind |-> r.kind, at |-> "redemptions", hours |-> r.hours, all |-> r.all,
                        left |-> rest, pct |-> 0, had |-> FALSE, copy |-> NoVibe,
                        score |-> r.score, id |-> r.id, row |-> r.row, alone |-> r.alone]
      OBVIOUS
    <3>2. After(r) = n
      BY <1>3, <2>3, <3>1
    <3>3. JobRecord(n)
      BY <3>1 DEF JobRecord
    <3>4. n.kind = "reset" /\ n.at = "redemptions" /\ n.all = r.all /\ n.left = rest
          /\ n.copy = NoVibe
      BY <1>6, <3>1
    <3>5. JobOK(n)
      BY <1>4, <3>3, <3>4 DEF JobOK, Walking
    <3>. QED
      BY <3>2, <3>4, <3>5
  <2>. QED
    BY <2>1, <2>2, <2>3
<1>7. CASE rest = {} /\ r.kind # "reset"
  <2>1. \/ After(r) = [next EXCEPT !.at = "venues", !.hours = Tail(@), !.all = {}]
        \/ After(r) = Idle
    BY <1>1, <1>2, <1>7 DEF After
  <2>2. CASE After(r) = Idle
    BY <2>2, IdleOK DEF Idle
  <2>3. CASE After(r) = [next EXCEPT !.at = "venues", !.hours = Tail(@), !.all = {}]
    BY <1>3, <1>4, <1>7, <2>3 DEF JobOK, JobRecord, Demo, Walking
  <2>. QED
    BY <2>1, <2>2, <2>3
<1>. QED
  BY <1>5, <1>6, <1>7

LEMMA RunningServed ==
    ASSUME ScoreTypes, NEW j \in Jobs, job[j] # Idle
    PROVE  Serving
BY DEF ScoreTypes

\* A request goes on: the others are as they were.
LEMMA ContinueTyped ==
    ASSUME ScoreTypes, NEW j \in Jobs, NEW r, JobOK(r), Continue(j, r), job[j] # Idle,
           UNCHANGED boot, vibe' \in [Venues -> MaybeVibe], checks' \in [Venues -> Tally],
           crossed' \subseteq Venues
    PROVE  ScoreTypes' /\ \A k \in Jobs : job'[k] = IF k = j THEN r ELSE job[k]
<1>1. \A k \in Jobs : job'[k] = IF k = j THEN r ELSE job[k]
  BY DEF ScoreTypes, Continue
<1>2. job' = [k \in Jobs |-> job'[k]]
  BY DEF ScoreTypes, Continue
<1>3. \A k \in Jobs : JobOK(job'[k])
  BY <1>1 DEF ScoreTypes
<1>4. Serving /\ Serving'
  BY RunningServed DEF Serving
<1>. QED
  BY <1>1, <1>2, <1>3, <1>4 DEF ScoreTypes

\* What a request has read it holds as it is.
LEMMA ContinueScore ==
    ASSUME ScoreInv, NEW j \in Jobs, NEW r, JobOK(r), Continue(j, r), job[j] # Idle,
           r.at = "saveVibe" /\ r.copy # NoVibe => r.copy = vibe[Min(r.left)],
           UNCHANGED <<boot, vibe, checks, crossed>>
    PROVE  ScoreInv'
<1>1. ScoreTypes' /\ \A k \in Jobs : job'[k] = IF k = j THEN r ELSE job[k]
  BY ContinueTyped DEF ScoreInv, ScoreTypes
<1>2. ASSUME NEW v \in Venues \ crossed, NEW k \in Jobs, Holding(k, v)'
      PROVE  job'[k].copy = vibe[v]
  <2>1. CASE k = j
    BY <1>1, <1>2, <2>1 DEF Holding, Venue
  <2>2. CASE k # j
    <3>1. Holding(k, v)
      BY <1>1, <1>2, <2>2 DEF Holding, Venue
    <3>. QED
      BY <1>1, <2>2, <3>1 DEF ScoreInv
  <2>. QED
    BY <2>1, <2>2
<1>. QED
  BY <1>1, <1>2 DEF ScoreInv

\* A request that ends there changes no row.
LEMMA StopScore ==
    ASSUME ScoreInv, NEW j \in Jobs, Continue(j, Idle), job[j] # Idle,
           UNCHANGED <<boot, vibe, checks, crossed>>
    PROVE  ScoreInv'
<1>1. Idle.at # "saveVibe"
  BY DEF Idle
<1>. QED
  BY <1>1, IdleOK, ContinueScore

LEMMA JobKnown ==
    ASSUME ScoreInv, NEW j \in Jobs
    PROVE  JobOK(job[j])
BY DEF ScoreInv, ScoreTypes

\* A request comes in: it has read nothing yet.
LEMMA StartScore ==
    ASSUME ScoreInv, NEW j \in Jobs, NEW request, JobOK(request), request.at # "saveVibe",
           Start(j, request)
    PROVE  ScoreInv'
<1>1. Serving /\ Serving' /\ UNCHANGED <<boot, vibe, checks, crossed>>
  BY DEF Start, Serving, database, histories
<1>2. PICK begun : begun = [request EXCEPT !.alone = \A i \in Jobs : job[i] = Idle]
  OBVIOUS
<1>3. job' = [k \in Jobs |-> IF k = j THEN begun
                             ELSE IF job[k] = Idle THEN Idle ELSE [job[k] EXCEPT !.alone = FALSE]]
  BY <1>2 DEF Start
<1>4. JobOK(begun) /\ begun.at # "saveVibe"
  BY <1>2 DEF JobOK, JobRecord
<1>5. ASSUME NEW k \in Jobs, k # j
      PROVE  JobOK(job'[k]) /\ job'[k].at = job[k].at /\ job'[k].left = job[k].left
             /\ job'[k].copy = job[k].copy
  <2>1. CASE job[k] = Idle
    BY <1>3, <1>5, <2>1, IdleOK
  <2>2. CASE job[k] # Idle
    <3>1. PICK r, n : r = job[k] /\ n = [r EXCEPT !.alone = FALSE] /\ JobOK(r) /\ job'[k] = n
      BY <1>3, <1>5, <2>2, JobKnown
    <3>2. JobOK(n) /\ n.at = r.at /\ n.left = r.left /\ n.copy = r.copy
      BY <3>1, Accompanied
    <3>. QED
      BY <3>1, <3>2
  <2>. QED
    BY <2>1, <2>2
<1>6. ScoreTypes'
  <2>1. \A k \in Jobs : JobOK(job'[k])
    BY <1>3, <1>4, <1>5
  <2>2. job' = [k \in Jobs |-> job'[k]]
    BY <1>3
  <2>. QED
    BY <1>1, <2>1, <2>2 DEF ScoreInv, ScoreTypes
<1>7. ASSUME NEW v \in Venues \ crossed, NEW k \in Jobs, Holding(k, v)'
      PROVE  job'[k].copy = vibe[v]
  <2>1. k # j
    BY <1>3, <1>4, <1>7 DEF Holding
  <2>2. Holding(k, v)
    BY <1>5, <1>7, <2>1 DEF Holding, Venue
  <2>. QED
    BY <1>5, <2>1, <2>2 DEF ScoreInv
<1>. QED
  BY <1>1, <1>6, <1>7 DEF ScoreInv

\* So it is for each of the endpoints.
LEMMA RequestScore ==
    ASSUME DemoAssumption, ScoreInv, NEW j \in Jobs, Request(j)
    PROVE  ScoreInv'
<1>1. JobOK(Idle) /\ JobRecord(Idle) /\ Idle.copy \in MaybeVibe
  BY IdleOK DEF JobOK
<1>2. ASSUME NEW hours, Start(j, [Idle EXCEPT !.kind = "simulate", !.at = "venues", !.hours = hours])
      PROVE  ScoreInv'
  <2>1. PICK r : r = [Idle EXCEPT !.kind = "simulate", !.at = "venues", !.hours = hours]
    OBVIOUS
  <2>2. JobOK(r) /\ r.at # "saveVibe"
    BY <1>1, <2>1 DEF Idle, JobOK, JobRecord, Demo, Walking
  <2>. QED
    BY <1>2, <2>1, <2>2, StartScore
<1>3. ASSUME StartReset(j)
      PROVE  ScoreInv'
  <2>1. PICK r : r = [Idle EXCEPT !.kind = "reset", !.at = "venues"]
    OBVIOUS
  <2>2. JobOK(r) /\ r.at # "saveVibe"
    BY <1>1, <2>1 DEF Idle, JobOK, JobRecord, Demo, Walking
  <2>. QED
    BY <1>3, <2>1, <2>2, StartScore DEF StartReset
<1>4. ASSUME NEW v \in Venues, NEW s \in Scores,
             Start(j, [Idle EXCEPT !.kind = "check", !.at = "find", !.left = {v}, !.score = s])
      PROVE  ScoreInv'
  <2>1. PICK r : r = [Idle EXCEPT !.kind = "check", !.at = "find", !.left = {v}, !.score = s]
    OBVIOUS
  <2>2. JobRecord(r) /\ r.kind = "check" /\ r.at = "find" /\ r.left = {v} /\ r.score = s
        /\ r.all = {} /\ r.copy = Idle.copy
    BY <2>1 DEF Idle, JobRecord
  <2>3. JobOK(r)
    BY <1>1, <1>4, <2>2 DEF JobOK, Demo
  <2>. QED
    BY <1>4, <2>1, <2>2, <2>3, StartScore
<1>5. ASSUME StartRedeem(j)
      PROVE  ScoreInv'
  <2>1. PICK r : r = [Idle EXCEPT !.kind = "redeem", !.at = "mark"]
    OBVIOUS
  <2>2. JobOK(r) /\ r.at # "saveVibe"
    BY <1>1, <2>1 DEF Idle, JobOK, JobRecord, Demo, Walking
  <2>. QED
    BY <1>5, <2>1, <2>2, StartScore DEF StartRedeem
<1>6. ASSUME NEW n, Start(j, [Idle EXCEPT !.kind = "createCity", !.at = "find", !.row = NewCity(n)])
      PROVE  ScoreInv'
  <2>1. PICK r : r = [Idle EXCEPT !.kind = "createCity", !.at = "find", !.row = NewCity(n)]
    OBVIOUS
  <2>2. JobOK(r) /\ r.at # "saveVibe"
    BY <1>1, <2>1 DEF Idle, JobOK, JobRecord, Demo, Walking
  <2>. QED
    BY <1>6, <2>1, <2>2, StartScore
<1>7. ASSUME NEW c, NEW kind \in {"updateCity", "deleteCity"},
             Start(j, [Idle EXCEPT !.kind = kind, !.at = "find", !.id = c])
      PROVE  ScoreInv'
  <2>1. PICK r : r = [Idle EXCEPT !.kind = kind, !.at = "find", !.id = c]
    OBVIOUS
  <2>2. JobOK(r) /\ r.at # "saveVibe"
    BY <1>1, <2>1 DEF Idle, JobOK, JobRecord, Demo, Walking
  <2>. QED
    BY <1>7, <2>1, <2>2, StartScore
<1>. QED
  BY <1>2, <1>3, <1>4, <1>5, <1>6, <1>7
     DEF Request, StartSimulate, StartCheck, StartCreateCity, StartEditCity

\* The calls of a request that write no vibe row.
LEMMA CalmHandleScore ==
    ASSUME DemoAssumption, ScoreInv, NEW j \in Jobs,
           \/ ReadVenues(j) \/ ReadCrowd(j) \/ SaveCrowd(j) \/ ReadVibe(j) \/ triggerVibeAlert(j)
           \/ ClearRedemptions(j) \/ ResetOffers(j) \/ ClearNotifications(j) \/ ClearAnalytics(j)
           \/ FindVibe(j) \/ MarkRedeemed(j) \/ TakePlace(j) \/ FindCity(j) \/ SaveCity(j)
           \/ JobFails(j)
    PROVE  ScoreInv'
<1>0. /\ UNCHANGED <<boot, vibe, checks, crossed>>
      /\ job[j] # Idle
  <2>1. UNCHANGED <<boot, vibe, checks, crossed>>
    BY DEF ReadVenues, ReadCrowd, SaveCrowd, ReadVibe, triggerVibeAlert, ClearRedemptions,
       ResetOffers, ClearNotifications, ClearAnalytics, FindVibe, MarkRedeemed, TakePlace,
       FindCity, SaveCity, JobFails, database, histories
  <2>2. Idle.kind = "none" /\ Idle.at = "idle"
    BY DEF Idle
  <2>3. \/ job[j].kind \in {"simulate", "reset", "check", "redeem", "createCity", "updateCity",
                            "deleteCity"}
        \/ job[j].at = "saveCity" \/ job[j] # Idle
    BY DEF ReadVenues, ReadCrowd, SaveCrowd, ReadVibe, triggerVibeAlert, ClearRedemptions,
       ResetOffers, ClearNotifications, ClearAnalytics, FindVibe, MarkRedeemed, TakePlace,
       FindCity, SaveCity, JobFails, Running, Demo
  <2>. QED
    BY <2>1, <2>2, <2>3
<1>1. PICK r : r = job[j] /\ JobOK(r)
  BY JobKnown
<1>2. ASSUME NEW n, Continue(j, n),
             n = Idle \/ (JobOK(n) /\ (n.at = "saveVibe" /\ n.copy # NoVibe => n.copy = vibe[Min(n.left)]))
      PROVE  ScoreInv'
  BY <1>0, <1>2, StopScore, ContinueScore
<1>3. ASSUME ReadVenues(j)
      PROVE  ScoreInv'
  <2>1. PICK found : found = (IF home = NoRow THEN {} ELSE Venues \ renamed)
    OBVIOUS
  <2>2. PICK m : m = [r EXCEPT !.all = found, !.left = found]
    OBVIOUS
  <2>3. PICK n : /\ Continue(j, n)
                 /\ n = IF found # {} THEN [m EXCEPT !.at = "readCrowd"]
                        ELSE IF m.kind = "reset" THEN [m EXCEPT !.at = "redemptions"]
                        ELSE IF Len(m.hours) > 1 THEN [m EXCEPT !.hours = Tail(@)] ELSE Idle
    BY <1>1, <1>3, <2>1, <2>2 DEF ReadVenues
  <2>4. found \subseteq Venues /\ r.kind \in Demo /\ r.at = "venues"
    BY <1>1, <1>3, <2>1 DEF ReadVenues, Running
  <2>5. JobRecord(m) /\ m.all = found /\ m.left = found /\ m.at = "venues" /\ m.kind = r.kind
        /\ m.copy = r.copy
    BY <1>1, <2>2, <2>4 DEF JobOK, JobRecord
  <2>6. n = Idle \/ (JobOK(n) /\ n.at # "saveVibe")
    <3>1. CASE found # {}
      BY <1>1, <2>3, <2>4, <2>5, <3>1 DEF JobOK, JobRecord, Demo
    <3>2. CASE found = {}
      BY <1>1, <2>3, <2>4, <2>5, <3>2 DEF JobOK, JobRecord, Demo, Walking
    <3>. QED
      BY <3>1, <3>2
  <2>. QED
    BY <1>2, <2>3, <2>6
<1>4. ASSUME ReadCrowd(j)
      PROVE  ScoreInv'
  <2>1. r.kind \in Demo /\ r.at = "readCrowd" /\ r.at \in Walking
    BY <1>1, <1>4 DEF ReadCrowd, Running, Walking
  <2>2. PICK n : /\ Continue(j, n)
                 /\ \/ n = [r EXCEPT !.at = "saveCrowd", !.had = TRUE]
                    \/ n = After(r)
                    \/ \E had, pct : n = [r EXCEPT !.at = "saveCrowd", !.had = had, !.pct = pct]
    <3>1. CASE r.kind = "reset" /\ crowd[Venue(j)] # NoRow
      <4>1. Continue(j, [r EXCEPT !.at = "saveCrowd", !.had = TRUE])
        BY <1>1, <1>4, <3>1 DEF ReadCrowd
      <4>. QED
        BY <4>1
    <3>2. CASE r.kind = "reset" /\ crowd[Venue(j)] = NoRow
      <4>1. Continue(j, After(r))
        BY <1>1, <1>4, <3>2 DEF ReadCrowd
      <4>. QED
        BY <4>1
    <3>3. CASE r.kind # "reset"
      <4>1. \E had, pct : Continue(j, [r EXCEPT !.at = "saveCrowd", !.had = had, !.pct = pct])
        BY <1>1, <1>4, <3>3 DEF ReadCrowd
      <4>. QED
        BY <4>1
    <3>. QED
      BY <3>1, <3>2, <3>3
  <2>3. JobOK(n) /\ n.at # "saveVibe"
    <3>1. CASE n = After(r)
      BY <1>1, <2>1, <3>1, AfterOK
    <3>2. ASSUME NEW had, NEW pct, n = [r EXCEPT !.at = "saveCrowd", !.had = had, !.pct = pct]
          PROVE  JobOK(n) /\ n.at # "saveVibe"
      BY <1>1, <2>1, <3>2 DEF JobOK, JobRecord, Walking, Demo
    <3>3. CASE n = [r EXCEPT !.at = "saveCrowd", !.had = TRUE]
      BY <1>1, <2>1, <3>3 DEF JobOK, JobRecord, Walking, Demo
    <3>. QED
      BY <2>2, <3>1, <3>2, <3>3
  <2>. QED
    BY <1>2, <2>2, <2>3
<1>5. ASSUME SaveCrowd(j)
      PROVE  ScoreInv'
  <2>1. r.kind \in Demo /\ r.at = "saveCrowd" /\ r.at \in Walking
    BY <1>1, <1>5 DEF SaveCrowd, Running, Walking
  <2>2. PICK n : Continue(j, n) /\ (n = Idle \/ n = After(r) \/ n = [r EXCEPT !.at = "readVibe"])
    BY <1>1, <1>5 DEF SaveCrowd
  <2>3. n = Idle \/ (JobOK(n) /\ n.at # "saveVibe")
    <3>1. CASE n = After(r)
      BY <1>1, <2>1, <3>1, AfterOK
    <3>2. CASE n = [r EXCEPT !.at = "readVibe"]
      BY <1>1, <2>1, <3>2 DEF JobOK, JobRecord, Walking, Demo
    <3>. QED
      BY <2>2, <3>1, <3>2
  <2>. QED
    BY <1>2, <2>2, <2>3
<1>6. ASSUME ReadVibe(j)
      PROVE  ScoreInv'
  <2>1. r.kind \in Demo /\ r.at = "readVibe" /\ r.at \in Walking
    BY <1>1, <1>6 DEF ReadVibe, Running, Walking
  <2>2. Min(r.left) \in Venues /\ vibe[Min(r.left)] \in MaybeVibe
    BY <1>1, <2>1, FirstVenue DEF JobOK, ScoreInv, ScoreTypes
  <2>3. PICK n : /\ Continue(j, n)
                 /\ n = After(r) \/ n = [r EXCEPT !.at = "saveVibe", !.copy = vibe[Min(r.left)]]
    BY <1>1, <1>6 DEF ReadVibe, Venue
  <2>4. CASE n = After(r)
    BY <1>1, <1>2, <2>1, <2>3, <2>4, AfterOK
  <2>5. CASE n = [r EXCEPT !.at = "saveVibe", !.copy = vibe[Min(r.left)]]
    <3>1. JobOK(n) /\ n.copy = vibe[Min(n.left)]
      BY <1>1, <2>1, <2>2, <2>5 DEF JobOK, JobRecord, Walking, Demo
    <3>. QED
      BY <1>2, <2>3, <3>1
  <2>. QED
    BY <2>3, <2>4, <2>5
<1>7. ASSUME triggerVibeAlert(j)
      PROVE  ScoreInv'
  <2>1. r.kind \in Demo /\ r.at \in Walking /\ Continue(j, After(r))
    BY <1>1, <1>7 DEF triggerVibeAlert, Running, Walking, Demo
  <2>. QED
    BY <1>1, <1>2, <2>1, AfterOK
<1>8. ASSUME ClearRedemptions(j) \/ ResetOffers(j) \/ ClearNotifications(j) \/ MarkRedeemed(j)
      PROVE  ScoreInv'
  <2>1. PICK at, n : at \in {"offers", "notices", "analytics", "place"} /\
            n = [r EXCEPT !.at = at] /\ Continue(j, n)
    BY <1>1, <1>8 DEF ClearRedemptions, ResetOffers, ClearNotifications, MarkRedeemed
  <2>2. JobOK(n) /\ n.at # "saveVibe"
    BY <1>1, <2>1 DEF JobOK, JobRecord, Walking
  <2>. QED
    BY <1>2, <2>1, <2>2
<1>9. ASSUME ClearAnalytics(j) \/ TakePlace(j) \/ SaveCity(j) \/ JobFails(j)
      PROVE  ScoreInv'
  BY <1>2, <1>9 DEF ClearAnalytics, TakePlace, SaveCity, JobFails
<1>10. ASSUME FindVibe(j)
       PROVE  ScoreInv'
  <2>1. r.kind = "check" /\ r.at = "find" /\ r.left # {}
    BY <1>1, <1>10 DEF FindVibe, Running, JobOK
  <2>2. Min(r.left) \in Venues /\ vibe[Min(r.left)] \in MaybeVibe
    BY <1>1, <2>1, FirstVenue DEF JobOK, ScoreInv, ScoreTypes
  <2>3. PICK n : /\ Continue(j, n)
                 /\ n = Idle \/ (/\ vibe[Min(r.left)] # NoVibe
                                 /\ n = [r EXCEPT !.at = "saveVibe", !.copy = vibe[Min(r.left)]])
    BY <1>1, <1>10 DEF FindVibe, Venue
  <2>4. n = Idle \/ (JobOK(n) /\ n.copy = vibe[Min(n.left)])
    <3>1. ASSUME n = [r EXCEPT !.at = "saveVibe", !.copy = vibe[Min(r.left)]],
                 vibe[Min(r.left)] # NoVibe
          PROVE  JobOK(n) /\ n.copy = vibe[Min(n.left)]
      <4>1. JobRecord(n) /\ n.left = r.left /\ n.copy = vibe[Min(r.left)] /\ n.kind = "check"
            /\ n.all = r.all /\ n.score = r.score
        BY <1>1, <2>1, <3>1 DEF JobOK, JobRecord
      <4>. QED
        BY <1>1, <2>1, <2>2, <3>1, <4>1 DEF JobOK, Demo
    <3>. QED
      BY <2>3, <3>1
  <2>. QED
    BY <1>2, <2>3, <2>4
<1>11. ASSUME FindCity(j)
       PROVE  ScoreInv'
  <2>1. r.kind \in {"createCity", "updateCity", "deleteCity"}
    BY <1>1, <1>11 DEF FindCity, Running
  <2>2. PICK n : /\ Continue(j, n)
                 /\ \/ n = Idle \/ n = [r EXCEPT !.at = "saveCity"]
                    \/ \E new : n = [r EXCEPT !.at = "saveCity", !.row = new]
    BY <1>1, <1>11 DEF FindCity
  <2>3. ASSUME NEW new, n = [r EXCEPT !.at = "saveCity", !.row = new]
        PROVE  JobOK(n) /\ n.at # "saveVibe"
    <3>1. n = [kind |-> r.kind, at |-> "saveCity", hours |-> r.hours, all |-> r.all,
               left |-> r.left, pct |-> r.pct, had |-> r.had, copy |-> r.copy, score |-> r.score,
               id |-> r.id, row |-> new, alone |-> r.alone]
      BY <1>1, <2>3 DEF JobOK, JobRecord
    <3>2. JobRecord(n)
      BY <3>1 DEF JobRecord
    <3>3. n.kind = r.kind /\ n.at = "saveCity" /\ n.all = r.all /\ n.left = r.left
          /\ n.copy = r.copy
      BY <3>1
    <3>4. r.kind \notin Demo /\ r.kind # "check"
      BY <2>1 DEF Demo
    <3>. QED
      BY <1>1, <3>2, <3>3, <3>4, Outsider
  <2>4. ASSUME n = [r EXCEPT !.at = "saveCity"]
        PROVE  JobOK(n) /\ n.at # "saveVibe"
    <3>1. n = [kind |-> r.kind, at |-> "saveCity", hours |-> r.hours, all |-> r.all,
               left |-> r.left, pct |-> r.pct, had |-> r.had, copy |-> r.copy, score |-> r.score,
               id |-> r.id, row |-> r.row, alone |-> r.alone]
      BY <1>1, <2>4 DEF JobOK, JobRecord
    <3>2. JobRecord(n)
      BY <3>1 DEF JobRecord
    <3>3. n.kind = r.kind /\ n.at = "saveCity" /\ n.all = r.all /\ n.left = r.left
          /\ n.copy = r.copy
      BY <3>1
    <3>4. r.kind \notin Demo /\ r.kind # "check"
      BY <2>1 DEF Demo
    <3>. QED
      BY <1>1, <3>2, <3>3, <3>4, Outsider
  <2>5. n = Idle \/ (JobOK(n) /\ n.at # "saveVibe")
    BY <2>2, <2>3, <2>4
  <2>. QED
    BY <1>2, <2>2, <2>5
<1>. QED
  BY <1>3, <1>4, <1>5, <1>6, <1>7, <1>8, <1>9, <1>10, <1>11

\* A request writes the row of a venue: unless another holds a copy, nobody does now.
LEMMA WriteScore ==
    ASSUME ScoreInv, NEW j \in Jobs, NEW v \in Venues, NEW row \in VibeRow,
           NEW tally \in Tally, v \notin crossed => Follows(row, tally),
           vibe' = [vibe EXCEPT ![v] = row], checks' = [checks EXCEPT ![v] = tally],
           crossed' = IF Holders(v, j) # {} THEN crossed \cup {v} ELSE crossed,
           NEW n, JobOK(n), n.at # "saveVibe", Continue(j, n), job[j] # Idle, UNCHANGED boot
    PROVE  ScoreInv'
<1>1. vibe' \in [Venues -> MaybeVibe] /\ checks' \in [Venues -> Tally] /\ crossed' \subseteq Venues
  BY DEF ScoreInv, ScoreTypes, MaybeVibe
<1>2. ScoreTypes' /\ \A k \in Jobs : job'[k] = IF k = j THEN n ELSE job[k]
  BY <1>1, ContinueTyped DEF ScoreInv
<1>3. ASSUME NEW w \in Venues \ crossed'
      PROVE  /\ vibe'[w] = NoVibe => checks'[w] = NoTally
             /\ vibe'[w] # NoVibe => Follows(vibe'[w], checks'[w])
  <2>1. CASE w = v
    <3>1. w \notin crossed /\ vibe'[w] = row /\ checks'[w] = tally /\ Follows(row, tally)
      BY <1>3, <2>1 DEF ScoreInv, ScoreTypes
    <3>2. row.count \in Nat /\ NoVibe.count = -1
      BY <3>1 DEF Follows, Tally, NoVibe
    <3>. QED
      BY <3>1, <3>2
  <2>2. CASE w # v
    <3>1. w \in Venues \ crossed /\ vibe'[w] = vibe[w] /\ checks'[w] = checks[w]
      BY <1>3, <2>2 DEF ScoreInv, ScoreTypes
    <3>. QED
      BY <3>1 DEF ScoreInv
  <2>. QED
    BY <2>1, <2>2
<1>4. ASSUME NEW w \in Venues \ crossed', NEW k \in Jobs, Holding(k, w)'
      PROVE  job'[k].copy = vibe'[w]
  <2>1. k # j /\ Holding(k, w)
    BY <1>2, <1>4 DEF Holding, Venue
  <2>2. w # v
    BY <1>4, <2>1 DEF Holding, Holders
  <2>3. w \in Venues \ crossed /\ vibe'[w] = vibe[w]
    BY <1>4, <2>2 DEF ScoreInv, ScoreTypes
  <2>. QED
    BY <1>2, <2>1, <2>3 DEF ScoreInv
<1>. QED
  BY <1>2, <1>3, <1>4 DEF ScoreInv

\* The demo writes the score and the count back as it read them.
LEMMA SaveScore ==
    ASSUME DemoAssumption, ScoreInv, NEW j \in Jobs, SaveVibe(j)
    PROVE  ScoreInv'
<1>1. PICK r : r = job[j] /\ JobOK(r)
  BY JobKnown
<1>2. r.kind \in Demo /\ r.at = "saveVibe" /\ r.at \in Walking /\ r # Idle
  BY <1>1 DEF SaveVibe, Running, Walking, Idle
<1>3. PICK v \in Venues : v = Min(r.left) /\ v = Venue(j) /\ v \in r.left
  BY <1>1, <1>2, FirstVenue DEF JobOK, Venue
<1>4. UNCHANGED <<boot, checks>>
  BY DEF SaveVibe
<1>5. CASE r.copy # NoVibe \/ vibe[v] = NoVibe
  <2>1. PICK row : row = IF r.copy = NoVibe THEN FreshVibe
                         ELSE [r.copy EXCEPT !.seeded = r.kind = "reset"]
    OBVIOUS
  <2>2. PICK n : Continue(j, n) /\ (n = After(r) \/ n = [r EXCEPT !.at = "alert"])
    BY <1>1, <1>3, <1>5 DEF SaveVibe
  <2>3. JobOK(n) /\ n.at # "saveVibe"
    <3>1. CASE n = After(r)
      BY <1>1, <1>2, <3>1, AfterOK
    <3>2. CASE n = [r EXCEPT !.at = "alert"]
      BY <1>1, <1>2, <3>2 DEF JobOK, JobRecord, Walking, Demo
    <3>. QED
      BY <2>2, <3>1, <3>2
  <2>4. vibe' = [vibe EXCEPT ![v] = row] /\ checks' = [checks EXCEPT ![v] = checks[v]]
        /\ crossed' = IF Holders(v, j) # {} THEN crossed \cup {v} ELSE crossed
    BY <1>1, <1>3, <1>4, <1>5, <2>1 DEF SaveVibe, ScoreInv, ScoreTypes
  <2>5. checks[v] \in Tally
    BY DEF ScoreInv, ScoreTypes
  <2>6. CASE r.copy = NoVibe
    <3>1. row \in VibeRow /\ row.count = 0 /\ row.score = 0
      BY <2>1, <2>6 DEF FreshVibe, NoVibe, VibeRow
    <3>2. v \notin crossed => checks[v] = NoTally
      BY <1>5, <2>6 DEF ScoreInv
    <3>3. v \notin crossed => Follows(row, checks[v])
      BY <3>1, <3>2 DEF Follows, Distance, NoTally
    <3>. QED
      BY <1>1, <1>2, <1>4, <2>2, <2>3, <2>4, <2>5, <3>1, <3>3, WriteScore
  <2>7. CASE r.copy # NoVibe
    <3>1. PICK b \in BOOLEAN, s \in Int, c \in Nat :
              r.copy = [seeded |-> b, score |-> s, count |-> c]
      BY <1>1, <2>7 DEF JobOK, MaybeVibe, VibeRow
    <3>2. row = [seeded |-> r.kind = "reset", score |-> s, count |-> c]
      BY <2>1, <2>7, <3>1
    <3>3. (r.kind = "reset") \in BOOLEAN
      OBVIOUS
    <3>4. row \in VibeRow /\ row.score = r.copy.score /\ row.count = r.copy.count
      BY <3>1, <3>2, <3>3 DEF VibeRow
    <3>5. v \notin crossed => r.copy = vibe[v]
      BY <1>1, <1>2, <1>3, <2>7 DEF ScoreInv, Holding
    <3>6. v \notin crossed => Follows(row, checks[v])
      BY <2>7, <3>4, <3>5 DEF ScoreInv, Follows, Distance
    <3>. QED
      BY <1>1, <1>2, <1>4, <2>2, <2>3, <2>4, <2>5, <3>4, <3>6, WriteScore
  <2>. QED
    BY <2>6, <2>7
<1>6. CASE ~(r.copy # NoVibe \/ vibe[v] = NoVibe)
  BY <1>1, <1>2, <1>3, <1>6, StopScore DEF SaveVibe
<1>. QED
  BY <1>5, <1>6

\* A vibe check averages the row it read, which has moved on with the checks.
LEMMA CheckScore ==
    ASSUME DemoAssumption, ScoreInv, NEW j \in Jobs, submitVibeCheck(j)
    PROVE  ScoreInv'
<1>1. PICK r : r = job[j] /\ JobOK(r)
  BY JobKnown
<1>2. r.kind = "check" /\ r.at = "saveVibe" /\ r # Idle
  BY <1>1 DEF submitVibeCheck, Running, Idle
<1>3. PICK v \in Venues : v = Min(r.left) /\ v = Venue(j) /\ v \in r.left
  BY <1>1, <1>2, FirstVenue DEF JobOK, Venue
<1>4. PICK row \in VibeRow, s \in Nat : row = r.copy /\ s = r.score
  <2>1. r.copy \in VibeRow /\ r.score \in Scores
    BY <1>1, <1>2 DEF JobOK, MaybeVibe
  <2>2. r.score \in Nat
    <3>1. Scores \subseteq 1 .. 5
      BY DEF DemoAssumption
    <3>2. \A x : x \in 1 .. 5 => x \in Nat
      OBVIOUS
    <3>3. r.score \in 1 .. 5
      BY <2>1, <3>1
    <3>. QED
      BY <3>2, <3>3
  <2>. QED
    BY <2>1, <2>2
<1>5. checks[v] \in Tally /\ Counted(checks[v], s) \in Tally
  BY DEF ScoreInv, ScoreTypes, Tally, Counted
<1>6. v \notin crossed => row = vibe[v] /\ Follows(row, checks[v])
  BY <1>1, <1>2, <1>3, <1>4 DEF ScoreInv, Holding, JobOK
<1>7. v \notin crossed => Follows(Averaged(row, s), Counted(checks[v], s))
  BY <1>4, <1>5, <1>6, AverageFollows
<1>8. Averaged(row, s) \in VibeRow
  BY <1>4, <1>5, AverageFollows
<1>9. /\ vibe' = [vibe EXCEPT ![v] = Averaged(row, s)]
      /\ checks' = [checks EXCEPT ![v] = Counted(checks[v], s)]
      /\ crossed' = IF Holders(v, j) # {} THEN crossed \cup {v} ELSE crossed
      /\ Continue(j, Idle) /\ UNCHANGED boot
  BY <1>1, <1>3, <1>4 DEF submitVibeCheck, Counted, ScoreInv, ScoreTypes
<1>. QED
  BY <1>1, <1>2, <1>5, <1>7, <1>8, <1>9, IdleOK, WriteScore DEF Idle

\* A boot that goes on finds no request in progress, and leaves the vibe rows alone
\* but for the seed of all of them.
LEMMA BootScore ==
    ASSUME DemoAssumption, ScoreInv, ~Serving, boot' = [at |-> boot'.at, attempt |-> boot'.attempt],
           UNCHANGED job,
           \/ UNCHANGED <<vibe, checks, crossed>>
           \/ SeedVibes
    PROVE  ScoreInv'
<1>1. \A k \in Jobs : job[k] = Idle /\ job'[k] = Idle
  BY DEF ScoreInv, ScoreTypes
<1>2. \A v \in Venues, k \in Jobs : ~Holding(k, v)'
  BY <1>1 DEF Holding, Idle
<1>3. CASE UNCHANGED <<vibe, checks, crossed>>
  BY <1>1, <1>2, <1>3 DEF ScoreInv, ScoreTypes
<1>4. CASE SeedVibes
  <2>1. /\ vibe' = VENUE_VIBES /\ crossed' = crossed
        /\ checks' = [v \in Venues |-> [n |-> VENUE_VIBES[v].count, slack |-> 0,
                                        sum |-> VENUE_VIBES[v].count * VENUE_VIBES[v].score]]
    BY <1>4 DEF SeedVibes
  <2>2. vibe' \in [Venues -> MaybeVibe] /\ checks' \in [Venues -> Tally]
    BY <2>1, SeededVibes DEF MaybeVibe, Tally
  <2>3. ASSUME NEW v \in Venues
        PROVE  vibe'[v] # NoVibe /\ Follows(vibe'[v], checks'[v])
    <3>1. PICK s \in Int, c \in Nat, p \in Int :
              s = VENUE_VIBES[v].score /\ c = VENUE_VIBES[v].count /\ p = c * s /\ VENUE_VIBES[v] # NoVibe
      BY SeededVibes DEF VibeRow
    <3>2. vibe'[v] = VENUE_VIBES[v] /\ checks'[v] = [n |-> c, slack |-> 0, sum |-> p]
      BY <2>1, <3>1
    <3>. QED
      BY <3>1, <3>2 DEF Follows, Distance
  <2>4. ScoreTypes'
    BY <1>1, <2>1, <2>2 DEF ScoreInv, ScoreTypes
  <2>. QED
    BY <1>2, <2>3, <2>4 DEF ScoreInv
<1>. QED
  BY <1>3, <1>4

StepNames == {"count", "cities", "tags", "admin", "demoUser", "venues", "busyness", "vibes",
              "offers", "notices", "analytics", "accounts", "owners"}

\* The steps of a boot are distinct, and each has its rank.
LEMMA StepsKnown ==
    /\ DOMAIN Rank = StepNames /\ BootSteps = StepNames \cup {"waiting", "topUp", "backfill"}
    /\ \A s, t \in StepNames : Rank[s] \in 1 .. 13 /\ (Rank[s] = Rank[t] => s = t)
    /\ \A i \in 1 .. 13 : Rank[SeedSteps[i]] = i
<1>1. \A i \in 1 .. 13 : i = 1 \/ i = 2 \/ i = 3 \/ i = 4 \/ i = 5 \/ i = 6 \/ i = 7 \/ i = 8
                         \/ i = 9 \/ i = 10 \/ i = 11 \/ i = 12 \/ i = 13
  OBVIOUS
<1>2. {SeedSteps[i] : i \in 1 .. 13} = StepNames
  <2>1. \A i \in 1 .. 13 : SeedSteps[i] \in StepNames
    BY <1>1 DEF SeedSteps, StepNames
  <2>2. \A s \in StepNames : \E i \in 1 .. 13 : SeedSteps[i] = s
    <3>1. /\ SeedSteps[1] = "count" /\ SeedSteps[2] = "cities" /\ SeedSteps[3] = "tags"
          /\ SeedSteps[4] = "admin" /\ SeedSteps[5] = "demoUser" /\ SeedSteps[6] = "venues"
          /\ SeedSteps[7] = "busyness" /\ SeedSteps[8] = "vibes" /\ SeedSteps[9] = "offers"
          /\ SeedSteps[10] = "notices" /\ SeedSteps[11] = "analytics"
          /\ SeedSteps[12] = "accounts" /\ SeedSteps[13] = "owners"
      BY DEF SeedSteps
    <3>2. 1 \in 1 .. 13 /\ 2 \in 1 .. 13 /\ 3 \in 1 .. 13 /\ 4 \in 1 .. 13 /\ 5 \in 1 .. 13
          /\ 6 \in 1 .. 13 /\ 7 \in 1 .. 13 /\ 8 \in 1 .. 13 /\ 9 \in 1 .. 13 /\ 10 \in 1 .. 13
          /\ 11 \in 1 .. 13 /\ 12 \in 1 .. 13 /\ 13 \in 1 .. 13
      OBVIOUS
    <3>. QED
      BY <3>1, <3>2 DEF StepNames
  <2>. QED
    BY <2>1, <2>2
<1>3. \A i, k \in 1 .. 13 : SeedSteps[i] = SeedSteps[k] => i = k
  <2>1. ASSUME NEW i \in 1 .. 13, NEW k \in 1 .. 13, SeedSteps[i] = SeedSteps[k]
        PROVE  i = k
    BY <1>1, <2>1, SMTT(60) DEF SeedSteps
  <2>. QED
    BY <2>1
<1>4. DOMAIN Rank = StepNames /\ \A s \in StepNames :
          Rank[s] = CHOOSE i \in 1 .. 13 : SeedSteps[i] = s
  BY <1>2 DEF Rank
<1>5. ASSUME NEW s \in StepNames
      PROVE  Rank[s] \in 1 .. 13 /\ SeedSteps[Rank[s]] = s
  <2>1. \E i \in 1 .. 13 : SeedSteps[i] = s
    BY <1>2
  <2>. QED
    BY <1>4, <2>1
<1>. QED
  BY <1>2, <1>3, <1>4, <1>5 DEF BootSteps

\* Nobody is served during a boot, which touches the vibe rows only to seed them.
LEMMA BootKnown ==
    ASSUME ScoreTypes, Boot \/ SeedFails
    PROVE  /\ ~Serving /\ boot' = [at |-> boot'.at, attempt |-> boot'.attempt] /\ UNCHANGED job
           /\ UNCHANGED <<vibe, checks, crossed>> \/ SeedVibes
<1>1. boot = [at |-> boot.at, attempt |-> boot.attempt]
  BY DEF ScoreTypes
<1>2. \A s : Reach(s) => boot' = [at |-> boot'.at, attempt |-> boot'.attempt]
  BY <1>1 DEF Reach
<1>3. ASSUME SeedFails
      PROVE  ~Serving /\ boot' = [at |-> boot'.at, attempt |-> boot'.attempt] /\ UNCHANGED job
             /\ UNCHANGED <<vibe, checks, crossed>>
  BY <1>2, <1>3, StepsKnown DEF SeedFails, GiveUp, Serving, StepNames, database
<1>4. ASSUME CountVenues
      PROVE  ~Serving /\ boot' = [at |-> boot'.at, attempt |-> boot'.attempt] /\ UNCHANGED job
             /\ UNCHANGED <<vibe, checks, crossed>>
  BY <1>2, <1>4 DEF CountVenues, GiveUp, Serving, database, Requests
<1>5. ASSUME Retry
      PROVE  ~Serving /\ boot' = [at |-> boot'.at, attempt |-> boot'.attempt] /\ UNCHANGED job
             /\ UNCHANGED <<vibe, checks, crossed>>
  BY <1>5 DEF Retry, Serving, database, Requests, histories
<1>6. ASSUME SeedAdminUser \/ SeedDemoUser
      PROVE  ~Serving /\ boot' = [at |-> boot'.at, attempt |-> boot'.attempt] /\ UNCHANGED job
             /\ UNCHANGED <<vibe, checks, crossed>>
  BY <1>2, <1>6 DEF SeedAdminUser, SeedDemoUser, SeedUser, GiveUp, Serving, Requests
<1>7. ASSUME \/ SeedCities \/ SeedTags \/ SeedVenues \/ SeedBusyness \/ SeedOffers
             \/ SeedNotifications \/ SeedAnalytics \/ SeedBusinessUsers \/ BackfillVenueCityIds
      PROVE  ~Serving /\ boot' = [at |-> boot'.at, attempt |-> boot'.attempt] /\ UNCHANGED job
             /\ UNCHANGED <<vibe, checks, crossed>>
  BY <1>2, <1>7 DEF SeedCities, SeedTags, SeedVenues, SeedBusyness, SeedOffers,
     SeedNotifications, SeedAnalytics, SeedBusinessUsers, BackfillVenueCityIds, Serving, Requests,
     histories
<1>8. ASSUME SeedVibes
      PROVE  ~Serving /\ boot' = [at |-> boot'.at, attempt |-> boot'.attempt] /\ UNCHANGED job
  BY <1>2, <1>8 DEF SeedVibes, Serving, Requests
<1>. QED
  BY <1>3, <1>4, <1>5, <1>6, <1>7, <1>8 DEF Boot

LEMMA OthersScore ==
    ASSUME ScoreInv, Migrate \/ Restart \/ (\E v \in Venues : RenameVenue(v)) \/ UNCHANGED city
    PROVE  ScoreInv'
<1>0. UNCHANGED <<vibe, checks, crossed>>
  BY DEF Migrate, Restart, RenameVenue, city, database, histories, Requests
<1>1. CASE Migrate \/ UNCHANGED city
  <2>1. UNCHANGED <<boot, job>>
    BY <1>1 DEF Migrate, city, Requests
  <2>. QED
    BY <1>0, <2>1 DEF ScoreInv, ScoreTypes, Serving, Holding, Venue
<1>2. CASE Restart
  <2>1. job' = [k \in Jobs |-> Idle] /\ boot' = [at |-> "count", attempt |-> 1]
    BY <1>2 DEF Restart
  <2>2. ScoreTypes'
    BY <1>0, <2>1, IdleOK DEF ScoreInv, ScoreTypes
  <2>3. \A v \in Venues, k \in Jobs : ~Holding(k, v)'
    BY <2>1 DEF Holding, Idle
  <2>. QED
    BY <1>0, <2>2, <2>3 DEF ScoreInv
<1>3. CASE \E v \in Venues : RenameVenue(v)
  <2>1. job' = [k \in Jobs |-> [job[k] EXCEPT !.alone = FALSE]] /\ UNCHANGED boot /\ Serving
    BY <1>3 DEF RenameVenue
  <2>2. ASSUME NEW k \in Jobs
        PROVE  JobOK(job'[k]) /\ job'[k].at = job[k].at /\ job'[k].left = job[k].left
               /\ job'[k].copy = job[k].copy
    <3>1. PICK r, n : r = job[k] /\ n = [r EXCEPT !.alone = FALSE] /\ JobOK(r) /\ job'[k] = n
      BY <2>1, JobKnown
    <3>2. JobOK(n) /\ n.at = r.at /\ n.left = r.left /\ n.copy = r.copy
      BY <3>1, Accompanied
    <3>. QED
      BY <3>1, <3>2
  <2>3. ScoreTypes'
    <3>1. job' = [k \in Jobs |-> job'[k]] /\ Serving'
      BY <2>1 DEF Serving
    <3>. QED
      BY <1>0, <2>1, <2>2, <3>1 DEF ScoreInv, ScoreTypes
  <2>4. \A k \in Jobs, v \in Venues : Holding(k, v)' => Holding(k, v) /\ job'[k].copy = job[k].copy
    BY <2>2 DEF Holding, Venue
  <2>. QED
    BY <1>0, <2>3, <2>4 DEF ScoreInv
<1>. QED
  BY <1>1, <1>2, <1>3

LEMMA NextScore == DemoAssumption /\ ScoreInv /\ [CityNext]_city => ScoreInv'
<1>1. SUFFICES ASSUME DemoAssumption, ScoreInv, [CityNext]_city PROVE ScoreInv'
  OBVIOUS
<1>2. CASE Boot \/ SeedFails
  BY <1>1, <1>2, BootKnown, BootScore DEF ScoreInv
<1>3. CASE Migrate \/ Restart \/ (\E v \in Venues : RenameVenue(v)) \/ UNCHANGED city
  BY <1>1, <1>3, OthersScore
<1>4. ASSUME NEW j \in Jobs, Request(j) \/ Handle(j)
      PROVE  ScoreInv'
  BY <1>1, <1>4, RequestScore, CalmHandleScore, SaveScore, CheckScore DEF Handle
<1>. QED
  BY <1>1, <1>2, <1>3, <1>4 DEF CityNext

(* The score and the count of a venue are those of its vibe checks unless   *)
(* two requests have crossed at its row, for any venues and however many    *)
(* checks and scenarios run at once (submitVibeCheck, simulateTime).        *)
THEOREM ScoresFollowChecks == CitySpec => []ScoreFollowsChecks
<1>1. ScoreInv => ScoreFollowsChecks
  BY DEF ScoreInv, ScoreFollowsChecks, Follows, Distance
<1>. QED
  BY <1>1, DemoAssumption, InitScore, NextScore, PTL DEF CitySpec

-------------------------------------------------------------------------------
(* What a boot leaves. *)

CityRow == [slug : Names, name : Names, active : BOOLEAN]
Editing == {"updateCity", "deleteCity"}
Early == {"cities", "tags", "admin", "demoUser", "venues"}
Late == {"busyness", "vibes", "offers", "notices", "analytics", "accounts", "owners"}

\* What a request will write into a busyness row or a cities row.
WritesRows(r) ==
    /\ r.pct \in Nat
    /\ r.at = "saveCity" => r.kind \in Editing \cup {"createCity"}
    /\ r.kind = "createCity" => r.row \in CityRow
    /\ r.kind \in Editing => r.id \in CityIds /\ (r.at = "saveCity" => r.row \in CityRow)

WholeTypes ==
    /\ ScoreInv
    /\ boot.at \in BootSteps \cup {"up"} /\ schema \in BOOLEAN /\ owned \in BOOLEAN
    /\ home \in NoRow .. 3 /\ tags \in Nat
    /\ notices = [seed |-> notices.seed, alerts |-> notices.alerts]
    /\ crowd \in [Venues -> Int] /\ places \in Int /\ places >= NoRow
    /\ \A k \in Jobs : WritesRows(job[k])

\* No two cities have the same slug, and there is room for one more.
CitiesKept ==
    /\ cities \in [CityIds -> CityRow \cup {NoCity}]
    /\ \A c, d \in CityIds : cities[c].slug = cities[d].slug /\ c # d => cities[c] = NoCity

WithoutTables ==
    ~schema => /\ home = NoRow /\ tags = 0 /\ boot.at \in {"count", "waiting", "up"}
               /\ \A c \in CityIds : cities[c] = NoCity
               /\ \A k \in Jobs : job[k] = Idle

WasCut(steps) == broke \cap steps # {}

\* How far a boot has come, by what is there.
HomeKnown ==
    /\ boot.at \in Early => home = NoRow
    /\ boot.at \in Late => home \in CityIds
    /\ boot.at \in {"topUp", "backfill"} => home # NoRow
    /\ home = NoRow => boot.at \in {"count", "waiting"} \cup Early \/ WasCut(UpTo("venues"))

ManchesterKnown == boot.at \in (Early \ {"cities"}) \cup Late \cup {"backfill"} => HasCity("manchester")

TagsKnown ==
    /\ tags = 0 => /\ home = NoRow /\ boot.at \in {"count", "waiting", "cities", "tags", "up"}
                   /\ Serving => WasCut(UpTo("tags"))
    /\ tags >= 1 /\ home = NoRow => \/ boot.at \in {"admin", "demoUser", "venues"}
                                    \/ WasCut({"tags", "admin", "demoUser", "venues"})
    /\ tags > 1 => WasCut({"tags", "admin", "demoUser", "venues"})

\* What the steps after the venues fill and is not there.
Lacking(s) ==
    \/ s = "busyness" /\ \E v \in Venues : crowd[v] = NoRow
    \/ s = "vibes" /\ \E v \in Venues : vibe[v] = NoVibe
    \/ s = "offers" /\ places = NoRow
    \/ s = "notices" /\ ~notices.seed /\ "notices" \notin wiped
    \/ s = "analytics" /\ ~analytics /\ "analytics" \notin wiped
    \/ s = "owners" /\ ~owned

LackingKnown ==
    \A s \in Late : Lacking(s) => \/ WasCut(UpTo(s)) \/ home = NoRow
                                  \/ boot.at \in Late /\ Rank[boot.at] <= Rank[s]

WholeInv ==
    WholeTypes /\ CitiesKept /\ WithoutTables /\ HomeKnown /\ ManchesterKnown /\ TagsKnown
    /\ LackingKnown

\* The ranks of the steps, one by one.
LEMMA RanksKnown ==
    /\ Rank["count"] = 1 /\ Rank["cities"] = 2 /\ Rank["tags"] = 3 /\ Rank["admin"] = 4
    /\ Rank["demoUser"] = 5 /\ Rank["venues"] = 6 /\ Rank["busyness"] = 7 /\ Rank["vibes"] = 8
    /\ Rank["offers"] = 9 /\ Rank["notices"] = 10 /\ Rank["analytics"] = 11
    /\ Rank["accounts"] = 12 /\ Rank["owners"] = 13
<1>1. /\ SeedSteps[1] = "count" /\ SeedSteps[2] = "cities" /\ SeedSteps[3] = "tags"
      /\ SeedSteps[4] = "admin" /\ SeedSteps[5] = "demoUser" /\ SeedSteps[6] = "venues"
      /\ SeedSteps[7] = "busyness" /\ SeedSteps[8] = "vibes" /\ SeedSteps[9] = "offers"
      /\ SeedSteps[10] = "notices" /\ SeedSteps[11] = "analytics"
      /\ SeedSteps[12] = "accounts" /\ SeedSteps[13] = "owners"
  BY DEF SeedSteps
<1>2. 1 \in 1 .. 13 /\ 2 \in 1 .. 13 /\ 3 \in 1 .. 13 /\ 4 \in 1 .. 13 /\ 5 \in 1 .. 13
      /\ 6 \in 1 .. 13 /\ 7 \in 1 .. 13 /\ 8 \in 1 .. 13 /\ 9 \in 1 .. 13 /\ 10 \in 1 .. 13
      /\ 11 \in 1 .. 13 /\ 12 \in 1 .. 13 /\ 13 \in 1 .. 13
  OBVIOUS
<1>. QED
  BY <1>1, <1>2, StepsKnown

\* The steps up to a step, and that later ones owe what earlier ones do.
LEMMA UpToKnown ==
    /\ UpTo("cities") = {"count", "cities"} /\ UpTo("tags") = {"count", "cities", "tags"}
    /\ UpTo("venues") = {"count"} \cup Early
    /\ \A s \in Late : UpTo("venues") \subseteq UpTo(s) /\ s \in UpTo(s)
                       /\ \A t \in Late : Rank[t] <= Rank[s] => t \in UpTo(s)
<1>1. UpTo("cities") = {s \in StepNames : Rank[s] <= 2} /\ UpTo("tags") = {s \in StepNames : Rank[s] <= 3}
      /\ UpTo("venues") = {s \in StepNames : Rank[s] <= 6}
      /\ \A t : UpTo(t) = {s \in StepNames : Rank[s] <= Rank[t]}
  BY StepsKnown, RanksKnown DEF UpTo
<1>2. UpTo("cities") = {"count", "cities"}
  BY <1>1, RanksKnown DEF StepNames
<1>3. UpTo("tags") = {"count", "cities", "tags"}
  BY <1>1, RanksKnown DEF StepNames
<1>4. UpTo("venues") = {"count"} \cup Early
  BY <1>1, RanksKnown DEF StepNames, Early
<1>5. ASSUME NEW s \in Late
      PROVE  UpTo("venues") \subseteq UpTo(s) /\ s \in UpTo(s)
             /\ \A t \in Late : Rank[t] <= Rank[s] => t \in UpTo(s)
  <2>1. s \in StepNames /\ Rank[s] \in 7 .. 13 /\ Late \subseteq StepNames
    BY RanksKnown DEF Late, StepNames
  <2>. QED
    BY <1>1, <2>1, StepsKnown
<1>. QED
  BY <1>2, <1>3, <1>4, <1>5

\* The seeded percentages are numbers.
LEMMA SeededCrowd ==
    ASSUME DemoAssumption
    PROVE  VENUE_BUSYNESS \in [Venues -> Nat]
<1>1. ASSUME NEW v \in Venues
      PROVE  <<88, 92, 55, 60, 78, 45, 20, 50, 58, 30, 80, 65, 28, 15, 22>>[v + 1] \in Nat
  <2>1. PICK i : i = v + 1 /\ i \in 1 .. 15
    BY DEF DemoAssumption
  <2>. QED
    BY <2>1
<1>. QED
  BY <1>1 DEF VENUE_BUSYNESS

\* A scenario sets a venue to a percentage.
LEMMA ScenarioSets ==
    ASSUME NEW v, NEW hour, NEW pct \in getVenueStateForHour(v, hour)
    PROVE  pct \in Nat
<1>1. ASSUME NEW u \in DOMAIN SATURDAY_NIGHT_TIMELINE, NEW h \in DOMAIN SATURDAY_NIGHT_TIMELINE[u]
      PROVE  SATURDAY_NIGHT_TIMELINE[u][h] \in Nat
  <2>1. PICK night : night = << <<25, 50, 60, 85, 95>>, <<10, 15, 20, 55, 88, 95>>,
                                <<40, 55, 65, 80, 85>>, <<45, 60, 75, 85, 90>>, <<20, 45, 65, 82, 90>> >>
    OBVIOUS
  <2>2. SATURDAY_NIGHT_TIMELINE =
          [w \in 0 .. 4 |-> [g \in {k \in 0 .. 23 : ((k + 5) % 24) + 1 \in 1 .. Len(night[w + 1])} |->
                               night[w + 1][((g + 5) % 24) + 1]]]
    BY <2>1 DEF SATURDAY_NIGHT_TIMELINE
  <2>3. u \in 0 .. 4
    BY <2>2
  <2>4. PICK row : row = night[u + 1]
    OBVIOUS
  <2>5. row \in Seq(Nat)
    <3>1. /\ <<25, 50, 60, 85, 95>> \in Seq(Nat) /\ <<10, 15, 20, 55, 88, 95>> \in Seq(Nat)
          /\ <<40, 55, 65, 80, 85>> \in Seq(Nat) /\ <<45, 60, 75, 85, 90>> \in Seq(Nat)
          /\ <<20, 45, 65, 82, 90>> \in Seq(Nat)
      OBVIOUS
    <3>2. u = 0 \/ u = 1 \/ u = 2 \/ u = 3 \/ u = 4
      BY <2>3
    <3>3. /\ u = 0 => row = <<25, 50, 60, 85, 95>>
          /\ u = 1 => row = <<10, 15, 20, 55, 88, 95>>
          /\ u = 2 => row = <<40, 55, 65, 80, 85>>
          /\ u = 3 => row = <<45, 60, 75, 85, 90>>
          /\ u = 4 => row = <<20, 45, 65, 82, 90>>
      BY <2>1, <2>4
    <3>4. CASE u = 0
      <4>1. row = <<25, 50, 60, 85, 95>>
        BY <3>3, <3>4
      <4>. QED
        BY <3>1, <4>1, Zenon
    <3>5. CASE u = 1
      <4>1. row = <<10, 15, 20, 55, 88, 95>>
        BY <3>3, <3>5
      <4>. QED
        BY <3>1, <4>1, Zenon
    <3>6. CASE u = 2
      <4>1. row = <<40, 55, 65, 80, 85>>
        BY <3>3, <3>6
      <4>. QED
        BY <3>1, <4>1, Zenon
    <3>7. CASE u = 3
      <4>1. row = <<45, 60, 75, 85, 90>>
        BY <3>3, <3>7
      <4>. QED
        BY <3>1, <4>1, Zenon
    <3>8. CASE u = 4
      <4>1. row = <<20, 45, 65, 82, 90>>
        BY <3>3, <3>8
      <4>. QED
        BY <3>1, <4>1, Zenon
    <3>. QED
      BY <3>2, <3>4, <3>5, <3>6, <3>7, <3>8, Zenon
  <2>6. PICK i \in 1 .. Len(row) : SATURDAY_NIGHT_TIMELINE[u][h] = row[i]
    BY <2>2, <2>3, <2>4
  <2>. QED
    BY <2>5, <2>6
<1>2. ASSUME NEW u \in DOMAIN QUIET_AFTERNOON_TIMELINE, NEW h \in DOMAIN QUIET_AFTERNOON_TIMELINE[u]
      PROVE  QUIET_AFTERNOON_TIMELINE[u][h] \in Nat
  BY DEF QUIET_AFTERNOON_TIMELINE
<1>3. getDefaultStateForHour(hour) \subseteq Nat
  BY DEF getDefaultStateForHour
<1>4. PICK timeline \in {SATURDAY_NIGHT_TIMELINE, QUIET_AFTERNOON_TIMELINE} :
          getVenueStateForHour(v, hour) =
            IF v \in DOMAIN timeline /\ hour \in DOMAIN timeline[v] THEN {timeline[v][hour]}
            ELSE getDefaultStateForHour(hour)
  BY DEF getVenueStateForHour
<1>. QED
  BY <1>1, <1>2, <1>3, <1>4

\* A new database owes nothing yet, and an old one has everything.
LEMMA InitWhole == DemoAssumption /\ CityInit => WholeInv
<1>1. SUFFICES ASSUME DemoAssumption, CityInit PROVE WholeInv
  OBVIOUS
<1>2. PICK old \in BOOLEAN, place \in {Unlinked, 1} :
          /\ boot = [at |-> "count", attempt |-> 1] /\ schema = old
          /\ cities = [c \in CityIds |-> IF old /\ c = 1 THEN NewCity("manchester") ELSE NoCity]
          /\ home = (IF old THEN place ELSE NoRow) /\ tags = (IF old THEN 1 ELSE 0)
          /\ owned = old /\ notices = [seed |-> old, alerts |-> 0] /\ analytics = old
          /\ crowd = [v \in Venues |-> IF old THEN VENUE_BUSYNESS[v] ELSE NoRow]
          /\ vibe = [v \in Venues |-> IF old THEN VENUE_VIBES[v] ELSE NoVibe]
          /\ places = (IF old THEN 0 ELSE NoRow)
          /\ job = [k \in Jobs |-> Idle] /\ broke = {} /\ wiped = {}
  BY <1>1 DEF CityInit
<1>3. ScoreInv /\ boot.at = "count" /\ boot.at \notin Early \cup Late /\ ~Serving
  BY <1>1, <1>2, InitScore DEF Early, Late, Serving
<1>4. WholeTypes
  <2>1. WritesRows(Idle)
    BY DEF WritesRows, Idle, Editing
  <2>2. crowd \in [Venues -> Int]
    BY <1>1, <1>2, SeededCrowd DEF NoRow
  <2>3. boot.at \in BootSteps
    BY <1>3, StepsKnown DEF StepNames
  <2>. QED
    BY <1>2, <1>3, <2>1, <2>2, <2>3 DEF WholeTypes, NoRow, Unlinked
<1>5. CitiesKept
  <2>1. NewCity("manchester") \in CityRow /\ NewCity("manchester") # NoCity
        /\ NewCity("manchester").slug # NoCity.slug
    BY DEF NewCity, CityRow, Names, NoCity
  <2>. QED
    BY <1>2, <2>1 DEF CitiesKept
<1>6. WithoutTables
  BY <1>2 DEF WithoutTables
<1>7. HomeKnown /\ ManchesterKnown /\ TagsKnown
  BY <1>2, <1>3 DEF HomeKnown, ManchesterKnown, TagsKnown, NoRow, Unlinked, Early
<1>8. LackingKnown
  <2>1. ASSUME old, NEW s \in Late
        PROVE  ~Lacking(s)
    <3>1. \A v \in Venues : crowd[v] # NoRow /\ vibe[v] # NoVibe
      BY <1>1, <1>2, <2>1, SeededCrowd, SeededVibes DEF NoRow
    <3>. QED
      BY <1>2, <2>1, <3>1 DEF Lacking, NoRow
  <2>. QED
    BY <1>2, <2>1 DEF LackingKnown
<1>. QED
  BY <1>4, <1>5, <1>6, <1>7, <1>8 DEF WholeInv

\* What the server does once it is up takes nothing away that a boot has filled.
LEMMA ServedWhole ==
    ASSUME WholeInv, ScoreInv', Serving, schema, UNCHANGED <<boot, schema, home, tags, owned, broke>>,
           crowd' \in [Venues -> Int], \A v \in Venues : crowd'[v] = NoRow => crowd[v] = NoRow,
           \A v \in Venues : vibe'[v] = NoVibe => vibe[v] = NoVibe,
           places' \in Int, places' >= NoRow, places' = NoRow => places = NoRow,
           "notices" \in wiped => "notices" \in wiped',
           "analytics" \in wiped => "analytics" \in wiped',
           notices' = [seed |-> notices'.seed, alerts |-> notices'.alerts],
           ~notices'.seed => ~notices.seed \/ "notices" \in wiped',
           ~analytics' => ~analytics \/ "analytics" \in wiped',
           CitiesKept', \A k \in Jobs : WritesRows(job'[k])
    PROVE  WholeInv'
<1>1. WholeTypes' /\ WithoutTables'
  BY DEF WholeInv, WholeTypes, WithoutTables
<1>2. boot.at \notin Early \cup Late \cup {"topUp", "backfill"} /\ Serving'
  BY DEF Serving, Early, Late
<1>3. HomeKnown' /\ ManchesterKnown' /\ TagsKnown'
  BY <1>2 DEF WholeInv, HomeKnown, ManchesterKnown, TagsKnown, WasCut, UpTo, Serving
<1>4. \A s \in Late : Lacking(s)' => Lacking(s)
  BY DEF Lacking
<1>5. LackingKnown'
  BY <1>2, <1>4 DEF WholeInv, LackingKnown, WasCut, UpTo
<1>. QED
  BY <1>1, <1>3, <1>5 DEF WholeInv

LEMMA IdleWrites == WritesRows(Idle)
BY DEF WritesRows, Idle, Editing

\* What follows a venue writes no row of a city.
LEMMA AfterWrites ==
    ASSUME NEW r, JobOK(r), WritesRows(r), r.kind \in Demo, r.at \in Walking
    PROVE  WritesRows(After(r))
<1>1. PICK rest : rest = r.left \ {Min(r.left)}
  OBVIOUS
<1>2. PICK next : next = [r EXCEPT !.left = rest, !.had = FALSE, !.copy = NoVibe, !.pct = 0]
  OBVIOUS
<1>3. JobRecord(next) /\ next.kind = r.kind /\ next.row = r.row /\ next.id = r.id /\ next.pct = 0
  BY <1>2 DEF JobOK, JobRecord
<1>4. \/ \E a \in {"readCrowd", "readVibe", "redemptions"} : After(r) = [next EXCEPT !.at = a]
      \/ After(r) = [next EXCEPT !.at = "readVibe", !.left = r.all]
      \/ After(r) = [next EXCEPT !.at = "venues", !.hours = Tail(@), !.all = {}]
      \/ After(r) = Idle
  BY <1>1, <1>2 DEF After
<1>5. After(r) = Idle \/ (/\ After(r).kind = r.kind /\ After(r).at # "saveCity"
                          /\ After(r).pct = 0)
  <2>1. CASE \E a \in {"readCrowd", "readVibe", "redemptions"} : After(r) = [next EXCEPT !.at = a]
    BY <1>3, <2>1 DEF JobRecord
  <2>2. CASE After(r) = [next EXCEPT !.at = "readVibe", !.left = r.all]
    BY <1>3, <2>2 DEF JobRecord
  <2>3. CASE After(r) = [next EXCEPT !.at = "venues", !.hours = Tail(@), !.all = {}]
    BY <1>3, <2>3 DEF JobRecord
  <2>. QED
    BY <1>4, <2>1, <2>2, <2>3
<1>. QED
  BY <1>5, IdleWrites DEF WritesRows, Demo, Editing

LEMMA ContinueWrites ==
    ASSUME WholeInv, NEW j \in Jobs, NEW n, WritesRows(n), Continue(j, n)
    PROVE  \A k \in Jobs : WritesRows(job'[k])
BY DEF WholeInv, WholeTypes, ScoreInv, ScoreTypes, Continue

LEMMA JobWrites ==
    ASSUME WholeInv, NEW j \in Jobs
    PROVE  JobOK(job[j]) /\ WritesRows(job[j]) /\ (job[j] # Idle => Serving /\ schema)
BY DEF WholeInv, WholeTypes, ScoreInv, ScoreTypes, WithoutTables

\* A started request writes no row with its first call.
LEMMA StartWhole ==
    ASSUME WholeInv, ScoreInv', NEW j \in Jobs, NEW request, JobRecord(request), WritesRows(request),
           Start(j, request)
    PROVE  WholeInv'
<1>1. Serving /\ schema /\ UNCHANGED <<boot, database, histories>>
  BY DEF Start
<1>2. PICK begun : begun = [request EXCEPT !.alone = \A i \in Jobs : job[i] = Idle]
  OBVIOUS
<1>3. job' = [k \in Jobs |-> IF k = j THEN begun
                             ELSE IF job[k] = Idle THEN Idle ELSE [job[k] EXCEPT !.alone = FALSE]]
  BY <1>2 DEF Start
<1>4. WritesRows(begun)
  BY <1>2 DEF WritesRows, JobRecord
<1>5. ASSUME NEW k \in Jobs
      PROVE  WritesRows(job'[k])
  <2>1. CASE k = j \/ job[k] = Idle
    BY <1>3, <1>4, <2>1, IdleWrites
  <2>2. CASE k # j /\ job[k] # Idle
    <3>1. PICK r, n : r = job[k] /\ n = [r EXCEPT !.alone = FALSE] /\ JobOK(r) /\ WritesRows(r)
                      /\ job'[k] = n
      BY <1>3, <2>2, JobWrites
    <3>. QED
      BY <3>1 DEF JobOK, JobRecord, WritesRows
  <2>. QED
    BY <2>1, <2>2
<1>6. CitiesKept'
  BY <1>1 DEF WholeInv, CitiesKept, database
<1>. QED
  BY <1>1, <1>5, <1>6, ServedWhole DEF WholeInv, WholeTypes, database, histories

\* So it is for each of the endpoints.
LEMMA RequestWhole ==
    ASSUME DemoAssumption, WholeInv, ScoreInv', NEW j \in Jobs, Request(j)
    PROVE  WholeInv'
<1>1. JobRecord(Idle)
  BY DEF JobRecord, Idle
<1>2. ASSUME NEW request, Start(j, request), JobRecord(request) /\ WritesRows(request)
      PROVE  WholeInv'
  BY <1>2, StartWhole
<1>3. ASSUME NEW hours, Start(j, [Idle EXCEPT !.kind = "simulate", !.at = "venues", !.hours = hours])
      PROVE  WholeInv'
  <2>1. PICK r : r = [Idle EXCEPT !.kind = "simulate", !.at = "venues", !.hours = hours]
    OBVIOUS
  <2>2. JobRecord(r) /\ WritesRows(r)
    BY <1>1, <2>1 DEF JobRecord, WritesRows, Idle, Editing
  <2>. QED
    BY <1>2, <1>3, <2>1, <2>2
<1>4. ASSUME StartReset(j)
      PROVE  WholeInv'
  <2>1. PICK r : r = [Idle EXCEPT !.kind = "reset", !.at = "venues"]
    OBVIOUS
  <2>2. JobRecord(r) /\ WritesRows(r)
    BY <1>1, <2>1 DEF JobRecord, WritesRows, Idle, Editing
  <2>. QED
    BY <1>2, <1>4, <2>1, <2>2 DEF StartReset
<1>5. ASSUME NEW v, NEW s,
             Start(j, [Idle EXCEPT !.kind = "check", !.at = "find", !.left = {v}, !.score = s])
      PROVE  WholeInv'
  <2>1. PICK r : r = [Idle EXCEPT !.kind = "check", !.at = "find", !.left = {v}, !.score = s]
    OBVIOUS
  <2>2. JobRecord(r) /\ WritesRows(r)
    BY <1>1, <2>1 DEF JobRecord, WritesRows, Idle, Editing
  <2>. QED
    BY <1>2, <1>5, <2>1, <2>2
<1>6. ASSUME StartRedeem(j)
      PROVE  WholeInv'
  <2>1. PICK r : r = [Idle EXCEPT !.kind = "redeem", !.at = "mark"]
    OBVIOUS
  <2>2. JobRecord(r) /\ WritesRows(r)
    BY <1>1, <2>1 DEF JobRecord, WritesRows, Idle, Editing
  <2>. QED
    BY <1>2, <1>6, <2>1, <2>2 DEF StartRedeem
<1>7. ASSUME NEW n \in Names,
             Start(j, [Idle EXCEPT !.kind = "createCity", !.at = "find", !.row = NewCity(n)])
      PROVE  WholeInv'
  <2>1. PICK r : r = [Idle EXCEPT !.kind = "createCity", !.at = "find", !.row = NewCity(n)]
    OBVIOUS
  <2>2. NewCity(n) \in CityRow
    BY DEF NewCity, CityRow
  <2>3. JobRecord(r) /\ WritesRows(r)
    BY <1>1, <2>1, <2>2 DEF JobRecord, WritesRows, Idle, Editing
  <2>. QED
    BY <1>2, <1>7, <2>1, <2>3
<1>8. ASSUME NEW c \in CityIds, NEW kind \in Editing,
             Start(j, [Idle EXCEPT !.kind = kind, !.at = "find", !.id = c])
      PROVE  WholeInv'
  <2>1. PICK r : r = [Idle EXCEPT !.kind = kind, !.at = "find", !.id = c]
    OBVIOUS
  <2>2. JobRecord(r) /\ WritesRows(r)
    BY <1>1, <2>1 DEF JobRecord, WritesRows, Idle, Editing
  <2>. QED
    BY <1>2, <1>8, <2>1, <2>2
<1>. QED
  BY <1>3, <1>4, <1>5, <1>6, <1>7, <1>8
     DEF Request, StartSimulate, StartCheck, StartCreateCity, StartEditCity, Editing

\* Saving a city keeps the slugs apart.
LEMMA SaveCityKeeps ==
    ASSUME CitiesKept, NEW id, NEW row \in CityRow,
           cities' = IF \E c \in CityIds \ {id} : cities[c].slug = row.slug THEN cities
                     ELSE [cities EXCEPT ![id] = row]
    PROVE  CitiesKept'
<1>1. CASE \E c \in CityIds \ {id} : cities[c].slug = row.slug
  BY <1>1 DEF CitiesKept
<1>2. CASE \A c \in CityIds \ {id} : cities[c].slug # row.slug
  <2>1. \A c \in CityIds : cities'[c] = IF c = id THEN row ELSE cities[c]
    BY <1>2 DEF CitiesKept
  <2>2. cities' \in [CityIds -> CityRow \cup {NoCity}]
    BY <1>2 DEF CitiesKept
  <2>3. ASSUME NEW c \in CityIds, NEW d \in CityIds, cities'[c].slug = cities'[d].slug, c # d
        PROVE  cities'[c] = NoCity
    <3>1. CASE c # id /\ d # id
      BY <2>1, <2>3, <3>1 DEF CitiesKept
    <3>2. CASE c = id
      <4>1. cities[d].slug = row.slug /\ d \in CityIds \ {id}
        BY <2>1, <2>3, <3>2
      <4>. QED
        BY <1>2, <4>1
    <3>3. CASE d = id
      <4>1. cities[c].slug = row.slug /\ c \in CityIds \ {id}
        BY <2>1, <2>3, <3>3
      <4>. QED
        BY <1>2, <4>1
    <3>. QED
      BY <3>1, <3>2, <3>3
  <2>. QED
    BY <2>2, <2>3 DEF CitiesKept
<1>. QED
  BY <1>1, <1>2

\* Of three cities with two slugs one is free.
LEMMA RoomForCity ==
    ASSUME CitiesKept, ~HasCity("manchester")
    PROVE  FreeIds # {} /\ Min(FreeIds) \in FreeIds
<1>1. 1 \in CityIds /\ 2 \in CityIds /\ CityIds \subseteq Nat
  BY DEF CityIds
<1>2. \A c \in CityIds : cities[c] = NoCity \/ cities[c].slug = "leeds"
  BY DEF CitiesKept, CityRow, Names, HasCity
<1>3. cities[1] = NoCity \/ cities[2] = NoCity
  BY <1>1, <1>2 DEF CitiesKept
<1>4. FreeIds # {} /\ FreeIds \in SUBSET Nat
  BY <1>1, <1>3 DEF FreeIds
<1>. QED
  BY <1>4, LeastOf

\* Every call of a request leaves what the boots have filled.
LEMMA HandleWhole ==
    ASSUME DemoAssumption, WholeInv, ScoreInv', NEW j \in Jobs, Handle(j)
    PROVE  WholeInv'
<1>1. PICK r : r = job[j] /\ JobOK(r) /\ WritesRows(r) /\ (r # Idle => Serving /\ schema)
  BY JobWrites
<1>2. Idle.kind = "none" /\ Idle.at = "idle" /\ JobRecord(r)
  BY <1>1 DEF Idle, JobOK
<1>3. crowd \in [Venues -> Int] /\ places \in Int /\ places >= NoRow /\ CitiesKept
      /\ vibe \in [Venues -> MaybeVibe]
      /\ notices = [seed |-> notices.seed, alerts |-> notices.alerts]
  BY DEF WholeInv, WholeTypes, ScoreInv, ScoreTypes
<1>4. ASSUME NEW n, Continue(j, n), WritesRows(n), r # Idle,
             UNCHANGED <<boot, schema, cities, home, tags, owned, broke, crowd, vibe>>,
             places' \in Int, places' >= NoRow, places' = NoRow => places = NoRow,
             "notices" \in wiped => "notices" \in wiped',
             "analytics" \in wiped => "analytics" \in wiped',
             notices' = [seed |-> notices'.seed, alerts |-> notices'.alerts],
             ~notices'.seed => ~notices.seed \/ "notices" \in wiped',
             ~analytics' => ~analytics \/ "analytics" \in wiped'
      PROVE  WholeInv'
  <2>1. CitiesKept'
    BY <1>3, <1>4 DEF CitiesKept
  <2>2. \A k \in Jobs : WritesRows(job'[k])
    BY <1>4, ContinueWrites
  <2>. QED
    BY <1>1, <1>3, <1>4, <2>1, <2>2, ServedWhole
<1>5. ASSUME NEW n, Continue(j, n), WritesRows(n), r # Idle,
             UNCHANGED <<boot, database, broke, wiped>>
      PROVE  WholeInv'
  BY <1>3, <1>4, <1>5 DEF database
<1>6. ASSUME ReadVenues(j) PROVE WholeInv'
  <2>1. PICK found : found = (IF home = NoRow THEN {} ELSE Venues \ renamed)
    OBVIOUS
  <2>2. PICK m : m = [r EXCEPT !.all = found, !.left = found]
    OBVIOUS
  <2>3. PICK n : /\ Continue(j, n)
                 /\ n = IF found # {} THEN [m EXCEPT !.at = "readCrowd"]
                        ELSE IF m.kind = "reset" THEN [m EXCEPT !.at = "redemptions"]
                        ELSE IF Len(m.hours) > 1 THEN [m EXCEPT !.hours = Tail(@)] ELSE Idle
    BY <1>1, <1>6, <2>1, <2>2 DEF ReadVenues
  <2>4. r.kind \in Demo /\ r.at = "venues"
    BY <1>1, <1>6 DEF ReadVenues, Running
  <2>5. JobRecord(m) /\ m.kind = r.kind /\ m.at = "venues" /\ m.pct = r.pct
    BY <1>2, <2>2, <2>4 DEF JobRecord
  <2>6. n = Idle \/ (n.kind = r.kind /\ n.at # "saveCity" /\ n.pct = r.pct)
    BY <2>3, <2>5 DEF JobRecord
  <2>7. WritesRows(n)
    BY <1>1, <2>4, <2>6, IdleWrites DEF WritesRows, Demo, Editing
  <2>. QED
    BY <1>2, <1>5, <1>6, <2>3, <2>4, <2>7 DEF ReadVenues, histories, Demo
<1>7. ASSUME ReadCrowd(j) PROVE WholeInv'
  <2>1. r.kind \in Demo /\ r.at = "readCrowd" /\ r.at \in Walking
    BY <1>1, <1>7 DEF ReadCrowd, Running, Walking
  <2>2. PICK n : /\ Continue(j, n)
                 /\ \/ n = [r EXCEPT !.at = "saveCrowd", !.had = TRUE] \/ n = After(r)
                    \/ \E had, pct : /\ pct \in Nat
                                      /\ n = [r EXCEPT !.at = "saveCrowd", !.had = had, !.pct = pct]
    <3>1. CASE r.kind = "reset"
      BY <1>1, <1>7, <3>1 DEF ReadCrowd
    <3>2. CASE r.kind # "reset"
      <4>1. PICK pct \in getVenueStateForHour(Venue(j), Head(r.hours)) :
                \E had : Continue(j, [r EXCEPT !.at = "saveCrowd", !.had = had, !.pct = pct])
        BY <1>1, <1>7, <3>2 DEF ReadCrowd
      <4>2. pct \in Nat
        BY ScenarioSets
      <4>. QED
        BY <4>1, <4>2
    <3>. QED
      BY <3>1, <3>2
  <2>3. WritesRows(n)
    <3>1. CASE n = After(r)
      BY <1>1, <2>1, <3>1, AfterWrites
    <3>2. ASSUME NEW had, NEW pct \in Nat,
                 n = [r EXCEPT !.at = "saveCrowd", !.had = had, !.pct = pct]
          PROVE  WritesRows(n)
      BY <1>1, <1>2, <2>1, <3>2 DEF JobRecord, WritesRows, Demo, Editing
    <3>3. CASE n = [r EXCEPT !.at = "saveCrowd", !.had = TRUE]
      BY <1>1, <1>2, <2>1, <3>3 DEF JobRecord, WritesRows, Demo, Editing
    <3>. QED
      BY <2>2, <3>1, <3>2, <3>3
  <2>. QED
    BY <1>2, <1>5, <1>7, <2>1, <2>2, <2>3 DEF ReadCrowd, histories, Demo
<1>8. ASSUME SaveCrowd(j) PROVE WholeInv'
  <2>1. r.kind \in Demo /\ r.at = "saveCrowd" /\ r.at \in Walking /\ r # Idle
    BY <1>1, <1>2, <1>8 DEF SaveCrowd, Running, Walking, Demo
  <2>2. PICK n : Continue(j, n) /\ (n = Idle \/ n = After(r) \/ n = [r EXCEPT !.at = "readVibe"])
    BY <1>1, <1>8 DEF SaveCrowd
  <2>3. WritesRows(n)
    <3>1. CASE n = After(r)
      BY <1>1, <2>1, <3>1, AfterWrites
    <3>2. CASE n = [r EXCEPT !.at = "readVibe"]
      BY <1>1, <1>2, <2>1, <3>2 DEF JobRecord, WritesRows, Demo, Editing
    <3>. QED
      BY <2>2, <3>1, <3>2, IdleWrites
  <2>4. PICK v \in Venues : v = Venue(j)
    BY <1>1, <2>1, FirstVenue DEF JobOK, Venue
  <2>5. PICK p \in Nat : crowd' = [crowd EXCEPT ![v] = p] \/ UNCHANGED crowd
    <3>1. VENUE_BUSYNESS[v] \in Nat /\ r.pct \in Nat
      BY <1>1, SeededCrowd DEF WritesRows
    <3>. QED
      BY <1>1, <1>8, <2>4, <3>1 DEF SaveCrowd
  <2>6. crowd' \in [Venues -> Int] /\ \A u \in Venues : crowd'[u] = NoRow => crowd[u] = NoRow
    BY <1>3, <2>5 DEF NoRow
  <2>7. UNCHANGED <<boot, schema, cities, home, tags, owned, broke, vibe, places, notices, analytics,
                    wiped>>
    BY <1>8 DEF SaveCrowd, histories
  <2>8. CitiesKept' /\ \A k \in Jobs : WritesRows(job'[k])
    BY <1>3, <2>2, <2>3, <2>7, ContinueWrites DEF CitiesKept
  <2>. QED
    BY <1>1, <1>3, <2>1, <2>6, <2>7, <2>8, ServedWhole
<1>9. ASSUME ReadVibe(j) PROVE WholeInv'
  <2>1. r.kind \in Demo /\ r.at = "readVibe" /\ r.at \in Walking /\ r # Idle
    BY <1>1, <1>2, <1>9 DEF ReadVibe, Running, Walking, Demo
  <2>2. PICK n : /\ Continue(j, n)
                 /\ n = After(r) \/ n = [r EXCEPT !.at = "saveVibe", !.copy = vibe[Venue(j)]]
    BY <1>1, <1>9 DEF ReadVibe
  <2>3. WritesRows(n)
    <3>1. CASE n = After(r)
      BY <1>1, <2>1, <3>1, AfterWrites
    <3>2. CASE n = [r EXCEPT !.at = "saveVibe", !.copy = vibe[Venue(j)]]
      BY <1>1, <1>2, <2>1, <3>2 DEF JobRecord, WritesRows, Demo, Editing
    <3>. QED
      BY <2>2, <3>1, <3>2
  <2>. QED
    BY <1>5, <1>9, <2>1, <2>2, <2>3 DEF ReadVibe, histories
<1>10. ASSUME SaveVibe(j) \/ submitVibeCheck(j) PROVE WholeInv'
  <2>1. /\ r.kind \in Demo \cup {"check"} /\ r.at = "saveVibe" /\ r # Idle
        /\ submitVibeCheck(j) => r.kind = "check"
        /\ SaveVibe(j) => r.kind \in Demo /\ r.at \in Walking
    BY <1>1, <1>2, <1>10 DEF SaveVibe, submitVibeCheck, Running, Demo, Walking
  <2>2. PICK v \in Venues : v = Venue(j)
    <3>1. r.left # {} /\ r.left \subseteq Venues
      BY <1>1, <1>10, <2>1 DEF JobOK
    <3>2. Min(r.left) \in Venues
      BY <3>1, FirstVenue
    <3>. QED
      BY <1>1, <3>2 DEF Venue
  <2>3. PICK n : /\ Continue(j, n)
                 /\ n = Idle \/ (SaveVibe(j) /\ (n = After(r) \/ n = [r EXCEPT !.at = "alert"]))
    BY <1>1, <1>10 DEF SaveVibe, submitVibeCheck
  <2>4. WritesRows(n)
    <3>1. CASE n = After(r) /\ SaveVibe(j)
      BY <1>1, <2>1, <3>1, AfterWrites
    <3>2. CASE n = [r EXCEPT !.at = "alert"]
      BY <1>1, <1>2, <2>1, <3>2 DEF JobRecord, WritesRows, Demo, Editing
    <3>. QED
      BY <2>3, <3>1, <3>2, IdleWrites
  <2>5. PICK row \in VibeRow : vibe' = [vibe EXCEPT ![v] = row] \/ UNCHANGED vibe
    <3>1. CASE submitVibeCheck(j)
      <4>1. r.copy \in VibeRow /\ r.score \in Nat
        <5>1. r.copy \in VibeRow /\ r.score \in Scores
          BY <1>1, <2>1, <3>1 DEF JobOK, MaybeVibe
        <5>2. Scores \subseteq Nat
          BY DEF DemoAssumption
        <5>. QED
          BY <5>1, <5>2
      <4>2. PICK old \in VibeRow, s \in Nat, tally \in Tally : old = r.copy /\ s = r.score
        BY <1>3, <2>2, <4>1 DEF WholeInv, WholeTypes, ScoreInv, ScoreTypes
      <4>3. Averaged(old, s) \in VibeRow
        BY <4>2, AverageFollows
      <4>. QED
        BY <1>1, <2>2, <3>1, <4>2, <4>3 DEF submitVibeCheck
    <3>2. CASE SaveVibe(j)
      <4>1. FreshVibe \in VibeRow
        BY DEF FreshVibe, VibeRow
      <4>2. ASSUME r.copy # NoVibe
            PROVE  [r.copy EXCEPT !.seeded = r.kind = "reset"] \in VibeRow
        <5>1. PICK b \in BOOLEAN, s \in Int, c \in Nat :
                  r.copy = [seeded |-> b, score |-> s, count |-> c]
          BY <1>1, <4>2 DEF JobOK, MaybeVibe, VibeRow
        <5>2. [r.copy EXCEPT !.seeded = r.kind = "reset"]
                = [seeded |-> r.kind = "reset", score |-> s, count |-> c]
          BY <5>1
        <5>3. (r.kind = "reset") \in BOOLEAN
          OBVIOUS
        <5>. QED
          BY <5>2, <5>3 DEF VibeRow
      <4>. QED
        BY <1>1, <2>2, <3>2, <4>1, <4>2 DEF SaveVibe
    <3>. QED
      BY <1>10, <3>1, <3>2
  <2>6. \A u \in Venues : vibe'[u] = NoVibe => vibe[u] = NoVibe
    <3>1. row # NoVibe
      BY <2>5 DEF VibeRow, NoVibe
    <3>. QED
      BY <1>3, <2>5, <3>1
  <2>7. UNCHANGED <<boot, schema, cities, home, tags, owned, broke, crowd, places, notices, analytics,
                    wiped>>
    BY <1>10 DEF SaveVibe, submitVibeCheck
  <2>8. CitiesKept' /\ \A k \in Jobs : WritesRows(job'[k])
    BY <1>3, <2>3, <2>4, <2>7, ContinueWrites DEF CitiesKept
  <2>. QED
    BY <1>1, <1>3, <2>1, <2>6, <2>7, <2>8, ServedWhole
<1>11. ASSUME triggerVibeAlert(j) PROVE WholeInv'
  <2>1. r.kind \in Demo /\ r.at \in Walking /\ Continue(j, After(r)) /\ r # Idle
    BY <1>1, <1>2, <1>11 DEF triggerVibeAlert, Running, Walking, Demo
  <2>2. (~notices'.seed => ~notices.seed)
        /\ notices' = [seed |-> notices'.seed, alerts |-> notices'.alerts]
    BY <1>3, <1>11 DEF triggerVibeAlert
  <2>3. UNCHANGED <<boot, schema, cities, home, tags, owned, broke, crowd, vibe, places, analytics,
                    wiped>>
    BY <1>11 DEF triggerVibeAlert, histories
  <2>. QED
    BY <1>1, <1>3, <1>4, <2>1, <2>2, <2>3, AfterWrites
<1>12. ASSUME ClearRedemptions(j) \/ ResetOffers(j) \/ ClearNotifications(j) \/ MarkRedeemed(j)
       PROVE  WholeInv'
  <2>1. PICK at, n : at \in {"offers", "notices", "analytics", "place"} /\
            n = [r EXCEPT !.at = at] /\ Continue(j, n)
    BY <1>1, <1>12 DEF ClearRedemptions, ResetOffers, ClearNotifications, MarkRedeemed
  <2>2. WritesRows(n)
    BY <1>1, <1>2, <2>1 DEF JobRecord, WritesRows
  <2>3. r # Idle
    BY <1>1, <1>2, <1>12 DEF ClearRedemptions, ResetOffers, ClearNotifications, MarkRedeemed, Running
  <2>4. /\ UNCHANGED <<boot, schema, cities, home, tags, owned, broke, crowd, vibe, analytics>>
        /\ places' \in Int /\ places' >= NoRow /\ (places' = NoRow => places = NoRow)
        /\ ("notices" \in wiped => "notices" \in wiped')
        /\ ("analytics" \in wiped => "analytics" \in wiped')
        /\ (~notices'.seed => ~notices.seed \/ "notices" \in wiped')
        /\ notices' = [seed |-> notices'.seed, alerts |-> notices'.alerts]
    BY <1>3, <1>12 DEF ClearRedemptions, ResetOffers, ClearNotifications, MarkRedeemed, histories,
       NoRow
  <2>. QED
    BY <1>4, <2>1, <2>2, <2>3, <2>4
<1>13. ASSUME ClearAnalytics(j) PROVE WholeInv'
  BY <1>1, <1>2, <1>3, <1>4, <1>13, IdleWrites DEF ClearAnalytics, Running
<1>14. ASSUME TakePlace(j) PROVE WholeInv'
  <2>1. places' \in Int /\ places' >= NoRow /\ places' # NoRow
    BY <1>3, <1>14 DEF TakePlace, NoRow
  <2>. QED
    BY <1>1, <1>2, <1>3, <1>4, <1>14, <2>1, IdleWrites DEF TakePlace, Running, histories
<1>15. ASSUME FindVibe(j) PROVE WholeInv'
  <2>1. r.kind = "check" /\ r # Idle
    BY <1>1, <1>2, <1>15 DEF FindVibe, Running
  <2>2. PICK n : Continue(j, n) /\ (n = Idle \/ n = [r EXCEPT !.at = "saveVibe", !.copy = vibe[Venue(j)]])
    BY <1>1, <1>15 DEF FindVibe
  <2>3. ASSUME n = [r EXCEPT !.at = "saveVibe", !.copy = vibe[Venue(j)]]
        PROVE  WritesRows(n)
    <3>1. n.pct = r.pct /\ n.at = "saveVibe" /\ n.kind = "check"
      BY <1>1, <1>2, <2>1, <2>3 DEF JobRecord
    <3>. QED
      BY <1>1, <1>2, <3>1 DEF WritesRows, Editing
  <2>4. WritesRows(n)
    BY <2>2, <2>3, IdleWrites
  <2>. QED
    BY <1>5, <1>15, <2>1, <2>2, <2>4 DEF FindVibe, histories
<1>16. ASSUME FindCity(j) PROVE WholeInv'
  <2>1. r.kind \in Editing \cup {"createCity"} /\ r # Idle
    BY <1>1, <1>2, <1>16 DEF FindCity, Running, Editing
  <2>2. CASE r.kind = "createCity"
    <3>1. PICK n : Continue(j, n) /\ (n = Idle \/ n = [r EXCEPT !.at = "saveCity"])
      BY <1>1, <1>16, <2>2 DEF FindCity
    <3>2. ASSUME n = [r EXCEPT !.at = "saveCity"]
          PROVE  WritesRows(n)
      <4>1. n.pct = r.pct /\ n.kind = "createCity" /\ n.row = r.row
        BY <1>2, <2>2, <3>2 DEF JobRecord
      <4>. QED
        BY <1>1, <2>2, <4>1 DEF WritesRows, Editing
    <3>3. WritesRows(n)
      BY <3>1, <3>2, IdleWrites
    <3>. QED
      BY <1>5, <1>16, <2>1, <3>1, <3>3 DEF FindCity, histories
  <2>3. CASE r.kind \in Editing
    <3>1. PICK n, new : /\ Continue(j, n)
                        /\ n = Idle \/ (n = [r EXCEPT !.at = "saveCity", !.row = new] /\ new \in CityRow)
      <4>1. r.id \in CityIds /\ cities[r.id] \in CityRow \cup {NoCity}
        BY <1>1, <1>3, <2>3 DEF WritesRows, CitiesKept
      <4>2. CASE cities[r.id] = NoCity
        BY <1>1, <1>16, <2>3, <4>2 DEF FindCity, Editing
      <4>3. CASE cities[r.id] # NoCity
        <5>1. PICK row : row = cities[r.id] /\ row \in CityRow
          BY <4>1, <4>3
        <5>2. PICK new \in {[row EXCEPT !.active = r.kind # "deleteCity"]} \cup
                           {[row EXCEPT !.slug = n] : n \in {m \in Names : r.kind # "deleteCity"}} :
                  Continue(j, [r EXCEPT !.at = "saveCity", !.row = new])
          BY <1>1, <1>16, <2>3, <4>3, <5>1 DEF FindCity, Editing
        <5>3. row = [slug |-> row.slug, name |-> row.name, active |-> row.active]
              /\ row.slug \in Names /\ row.name \in Names /\ row.active \in BOOLEAN
          BY <5>1 DEF CityRow
        <5>4. new \in CityRow
          <6>1. CASE new = [row EXCEPT !.active = r.kind # "deleteCity"]
            <7>1. PICK b \in BOOLEAN : b = (r.kind # "deleteCity")
              OBVIOUS
            <7>2. new = [slug |-> row.slug, name |-> row.name, active |-> b]
              BY <5>3, <6>1, <7>1
            <7>. QED
              BY <5>3, <7>2 DEF CityRow
          <6>2. ASSUME NEW m \in Names, new = [row EXCEPT !.slug = m]
                PROVE  new \in CityRow
            BY <5>3, <6>2 DEF CityRow
          <6>. QED
            BY <5>2, <6>1, <6>2
        <5>. QED
          BY <5>2, <5>4
      <4>. QED
        BY <4>2, <4>3
    <3>2. ASSUME n = [r EXCEPT !.at = "saveCity", !.row = new], new \in CityRow
          PROVE  WritesRows(n)
      <4>1. n.pct = r.pct /\ n.kind = r.kind /\ n.id = r.id /\ n.row = new
        BY <1>2, <3>2 DEF JobRecord
      <4>. QED
        BY <1>1, <2>3, <3>2, <4>1 DEF WritesRows, Editing
    <3>3. WritesRows(n)
      BY <3>1, <3>2, IdleWrites
    <3>. QED
      BY <1>5, <1>16, <2>1, <3>1, <3>3 DEF FindCity, histories
  <2>. QED
    BY <2>1, <2>2, <2>3
<1>17. ASSUME SaveCity(j) PROVE WholeInv'
  <2>1. r.at = "saveCity" /\ r # Idle /\ r.row \in CityRow
    BY <1>1, <1>2, <1>17 DEF SaveCity, WritesRows
  <2>2. PICK id : cities' = IF \E c \in CityIds \ {id} : cities[c].slug = r.row.slug THEN cities
                            ELSE [cities EXCEPT ![id] = r.row]
    BY <1>1, <1>17 DEF SaveCity
  <2>3. CitiesKept'
    BY <1>3, <2>1, <2>2, SaveCityKeeps
  <2>4. UNCHANGED <<boot, schema, home, tags, owned, broke, crowd, vibe, places, notices, analytics,
                    wiped>> /\ Continue(j, Idle)
    BY <1>17 DEF SaveCity, histories
  <2>5. \A k \in Jobs : WritesRows(job'[k])
    BY <2>4, ContinueWrites, IdleWrites
  <2>. QED
    BY <1>1, <1>3, <2>1, <2>3, <2>4, <2>5, ServedWhole
<1>18. ASSUME JobFails(j) PROVE WholeInv'
  BY <1>1, <1>5, <1>18, IdleWrites DEF JobFails, histories
<1>. QED
  BY <1>6, <1>7, <1>8, <1>9, <1>10, <1>11, <1>12, <1>13, <1>14, <1>15, <1>16, <1>17, <1>18 DEF Handle

\* A boot that gives up is remembered where it did.
LEMMA GiveUpWhole ==
    ASSUME WholeInv, ScoreInv', ~Serving, boot.at # "waiting", GiveUp,
           UNCHANGED <<schema, cities, home, tags, owned, crowd, vibe, places, notices, analytics,
                       job, wiped>>
    PROVE  WholeInv'
<1>1. boot'.at = "up" /\ broke' = broke \cup {boot.at}
  BY DEF GiveUp, Reach, WholeInv, WholeTypes, ScoreInv, ScoreTypes
<1>2. boot.at \in {"count", "topUp", "backfill"} \cup Early \cup Late
  BY StepsKnown DEF WholeInv, WholeTypes, Serving, StepNames, Early, Late
<1>3. /\ boot'.at \notin {"topUp", "backfill", "count", "waiting", "admin", "demoUser", "venues"}
      /\ boot'.at \notin Early \cup Late /\ Serving'
  BY <1>1 DEF Early, Late, Serving
<1>4. \A steps : WasCut(steps)' <=> WasCut(steps) \/ boot.at \in steps
  BY <1>1 DEF WasCut
<1>5. WholeTypes' /\ CitiesKept' /\ WithoutTables' /\ ManchesterKnown'
  BY <1>1, <1>3 DEF WholeInv, WholeTypes, CitiesKept, WithoutTables, ManchesterKnown, Early
<1>6. HomeKnown'
  BY <1>2, <1>3, <1>4, UpToKnown DEF WholeInv, HomeKnown, Early, Late, UpTo, WasCut
<1>7. TagsKnown'
  BY <1>1, <1>2, <1>3, UpToKnown DEF WholeInv, TagsKnown, UpTo, WasCut, Early, Late
<1>8. LackingKnown'
  <2>1. ASSUME NEW s \in Late, Lacking(s)'
        PROVE  WasCut(UpTo(s))' \/ home' = NoRow
    <3>1. Lacking(s)
      BY <2>1 DEF Lacking
    <3>2. WasCut(UpTo(s)) \/ home = NoRow \/ (boot.at \in Late /\ Rank[boot.at] <= Rank[s])
      BY <3>1 DEF WholeInv, LackingKnown
    <3>3. (boot.at \in Late /\ Rank[boot.at] <= Rank[s]) => boot.at \in UpTo(s)
      BY UpToKnown
    <3>. QED
      BY <1>1, <3>2, <3>3 DEF WasCut, UpTo
  <2>. QED
    BY <2>1 DEF LackingKnown
<1>. QED
  BY <1>5, <1>6, <1>7, <1>8 DEF WholeInv

\* And so is one that is cut off.
LEMMA RestartWhole ==
    ASSUME WholeInv, ScoreInv', Restart
    PROVE  WholeInv'
<1>1. /\ boot'.at = "count" /\ broke' = broke \cup ({boot.at} \ {"up", "waiting", "count"})
      /\ job' = [k \in Jobs |-> Idle] /\ UNCHANGED <<database, wiped>>
  BY DEF Restart
<1>2. UNCHANGED <<schema, cities, home, tags, owned, crowd, vibe, places, notices, analytics>>
  BY <1>1 DEF database
<1>3. ~Serving' /\ boot'.at \notin Early \cup Late \cup {"topUp", "backfill", "up"}
      /\ boot'.at \in BootSteps
  BY <1>1, StepsKnown DEF Serving, Early, Late, StepNames
<1>4. WholeTypes' /\ CitiesKept' /\ WithoutTables' /\ ManchesterKnown'
  BY <1>1, <1>2, <1>3, IdleWrites
     DEF WholeInv, WholeTypes, CitiesKept, WithoutTables, ManchesterKnown, Early
<1>5. HomeKnown'
  BY <1>1, <1>3 DEF HomeKnown
<1>6. TagsKnown'
  BY <1>1, <1>2, <1>3 DEF WholeInv, TagsKnown, WasCut
<1>7. LackingKnown'
  <2>1. ASSUME NEW s \in Late, Lacking(s)'
        PROVE  WasCut(UpTo(s))' \/ home' = NoRow
    <3>1. Lacking(s)
      BY <1>1, <1>2, <2>1 DEF Lacking
    <3>2. WasCut(UpTo(s)) \/ home = NoRow \/ (boot.at \in Late /\ Rank[boot.at] <= Rank[s])
      BY <3>1 DEF WholeInv, LackingKnown
    <3>3. (boot.at \in Late /\ Rank[boot.at] <= Rank[s])
             => boot.at \in UpTo(s) /\ boot.at \notin {"up", "waiting", "count"}
      BY UpToKnown DEF Late
    <3>. QED
      BY <1>1, <1>2, <3>2, <3>3 DEF WasCut, UpTo
  <2>. QED
    BY <2>1 DEF LackingKnown
<1>. QED
  BY <1>4, <1>5, <1>6, <1>7 DEF WholeInv

\* The migration and the owners take nothing away either.
LEMMA OthersWhole ==
    ASSUME WholeInv, ScoreInv', Migrate \/ (\E v \in Venues : RenameVenue(v)) \/ UNCHANGED city
    PROVE  WholeInv'
<1>1. UNCHANGED <<boot, home, tags, owned, crowd, vibe, places, notices, analytics, broke, wiped>>
  BY DEF Migrate, RenameVenue, city, database, histories
<1>2. /\ schema' \in BOOLEAN /\ (schema => schema') /\ CitiesKept'
      /\ ~schema' => \A c \in CityIds : cities'[c] = NoCity
      /\ HasCity("manchester") => HasCity("manchester")'
  <2>1. CASE Migrate
    <3>1. cities' = [cities EXCEPT ![1] = NewCity("manchester")]
          /\ \A c \in CityIds : cities[c] = NoCity
      BY <2>1 DEF Migrate, WholeInv, WithoutTables
    <3>2. NewCity("manchester") \in CityRow /\ NewCity("manchester").slug # NoCity.slug
      BY DEF NewCity, CityRow, Names, NoCity
    <3>3. \A c \in CityIds : cities'[c] = IF c = 1 THEN NewCity("manchester") ELSE NoCity
      BY <3>1 DEF WholeInv, CitiesKept
    <3>4. NoCity.slug # "manchester"
      BY DEF NoCity
    <3>5. schema' = TRUE
      BY <2>1 DEF Migrate
    <3>6. cities' \in [CityIds -> CityRow \cup {NoCity}]
      BY <3>1, <3>2 DEF WholeInv, CitiesKept
    <3>. QED
      BY <3>1, <3>2, <3>3, <3>4, <3>5, <3>6 DEF CitiesKept, HasCity
  <2>2. CASE ~Migrate
    <3>1. UNCHANGED <<schema, cities>>
      BY <2>2 DEF RenameVenue, city, database
    <3>. QED
      BY <3>1 DEF WholeInv, WholeTypes, CitiesKept, WithoutTables, HasCity
  <2>. QED
    BY <2>1, <2>2
<1>3. ASSUME NEW k \in Jobs
      PROVE  WritesRows(job'[k]) /\ (job[k] = Idle \/ schema')
  <2>1. JobOK(job[k]) /\ WritesRows(job[k]) /\ (job[k] # Idle => schema)
    BY JobWrites
  <2>2. CASE UNCHANGED job
    BY <1>2, <2>1, <2>2
  <2>3. CASE job' = [i \in Jobs |-> [job[i] EXCEPT !.alone = FALSE]]
    <3>1. PICK r, n : r = job[k] /\ n = [r EXCEPT !.alone = FALSE] /\ JobOK(r) /\ WritesRows(r)
                      /\ job'[k] = n
      BY <2>1, <2>3
    <3>2. WritesRows(n)
      BY <3>1 DEF JobOK, JobRecord, WritesRows
    <3>. QED
      BY <1>2, <2>1, <3>1, <3>2
  <2>. QED
    BY <2>2, <2>3 DEF Migrate, Requests, RenameVenue, city
<1>4. WithoutTables'
  <2>1. CASE schema'
    BY <2>1 DEF WithoutTables
  <2>2. CASE ~schema'
    <3>1. home = NoRow /\ tags = 0 /\ boot.at \in {"count", "waiting", "up"}
          /\ \A k \in Jobs : job[k] = Idle
      BY <1>2, <2>2 DEF WholeInv, WithoutTables
    <3>2. ~(\E v \in Venues : RenameVenue(v))
      BY <3>1 DEF RenameVenue
    <3>3. UNCHANGED job
      BY <3>2 DEF Migrate, Requests, city
    <3>. QED
      BY <1>1, <1>2, <3>1, <3>3 DEF WithoutTables
  <2>. QED
    BY <2>1, <2>2
<1>5. WholeTypes'
  BY <1>1, <1>2, <1>3 DEF WholeInv, WholeTypes
<1>6. HomeKnown' /\ ManchesterKnown' /\ TagsKnown'
  BY <1>1, <1>2 DEF WholeInv, HomeKnown, ManchesterKnown, TagsKnown, WasCut, UpTo, Serving
<1>7. LackingKnown'
  <2>1. \A s \in Late : Lacking(s)' <=> Lacking(s)
    BY <1>1 DEF Lacking
  <2>. QED
    BY <1>1, <2>1 DEF WholeInv, LackingKnown, WasCut, UpTo
<1>. QED
  BY <1>2, <1>4, <1>5, <1>6, <1>7 DEF WholeInv

\* A step of the boot that goes on.
LEMMA StepWhole ==
    ASSUME DemoAssumption, WholeInv, ScoreInv',
           \/ CountVenues \/ Retry \/ SeedCities \/ SeedTags \/ SeedVenues \/ SeedBusyness
           \/ SeedVibes \/ SeedOffers \/ SeedNotifications \/ SeedAnalytics
           \/ SeedBusinessUsers \/ BackfillVenueCityIds \/ SeedAdminUser \/ SeedDemoUser,
           CountVenues \/ SeedAdminUser \/ SeedDemoUser => ~GiveUp
    PROVE  WholeInv'
<1>1. \A s : Reach(s) => boot'.at = s
  BY DEF Reach, WholeInv, WholeTypes, ScoreInv, ScoreTypes
<1>2. UNCHANGED <<schema, job, broke, wiped>>
  BY DEF CountVenues, Retry, SeedCities, SeedTags, SeedVenues, SeedBusyness, SeedVibes, SeedOffers,
     SeedNotifications, SeedAnalytics, SeedBusinessUsers, BackfillVenueCityIds, SeedAdminUser,
     SeedDemoUser, SeedUser, Requests, histories, database
<1>3. /\ crowd \in [Venues -> Int] /\ tags \in Nat /\ home \in NoRow .. 3 /\ CitiesKept
      /\ \A k \in Jobs : WritesRows(job'[k])
  BY <1>2 DEF WholeInv, WholeTypes
<1>4. ASSUME CountVenues \/ Retry PROVE WholeInv'
  <2>1. UNCHANGED <<cities, home, tags, owned, crowd, vibe, places, notices, analytics>>
    BY <1>4 DEF CountVenues, Retry, database
  <2>2. /\ boot.at \in {"count", "waiting"}
        /\ \/ boot'.at \in {"count", "waiting"}
           \/ boot'.at = "cities" /\ home = NoRow /\ schema
           \/ boot'.at = "topUp" /\ home # NoRow /\ schema
    BY <1>1, <1>4 DEF CountVenues, Retry
  <2>3. boot.at \notin Early \cup Late \cup {"topUp", "backfill", "up"} /\ ~Serving /\ ~Serving'
    BY <2>2 DEF Early, Late, Serving
  <2>4. boot'.at \in BootSteps /\ boot'.at \notin Late
    BY <2>2, StepsKnown DEF StepNames, Late
  <2>5. WholeTypes' /\ CitiesKept' /\ WithoutTables'
    BY <1>2, <1>3, <2>1, <2>2, <2>4 DEF WholeInv, WholeTypes, CitiesKept, WithoutTables
  <2>6. HomeKnown' /\ ManchesterKnown' /\ TagsKnown'
    BY <1>2, <2>1, <2>2, <2>3, <2>4
       DEF WholeInv, HomeKnown, ManchesterKnown, TagsKnown, WasCut, UpTo, Early
  <2>7. LackingKnown'
    <3>1. \A s \in Late : Lacking(s)' <=> Lacking(s)
      BY <1>2, <2>1 DEF Lacking
    <3>. QED
      BY <1>2, <2>1, <2>3, <3>1 DEF WholeInv, LackingKnown, WasCut, UpTo
  <2>. QED
    BY <2>5, <2>6, <2>7 DEF WholeInv
<1>5. ASSUME SeedCities PROVE WholeInv'
  <2>1. UNCHANGED <<home, tags, owned, crowd, vibe, places, notices, analytics>>
    BY <1>5 DEF SeedCities
  <2>2. \/ boot.at = "cities" /\ boot'.at = "tags"
        \/ boot.at = "topUp" /\ boot'.at = "backfill"
    BY <1>1, <1>5 DEF SeedCities
  <2>3. schema
    BY <2>2 DEF WholeInv, WithoutTables
  <2>4. CitiesKept' /\ HasCity("manchester")'
    <3>1. CASE HasCity("manchester")
      BY <1>3, <1>5, <3>1 DEF SeedCities, CitiesKept, HasCity
    <3>2. CASE ~HasCity("manchester")
      <4>1. PICK id, row : /\ id = Min(FreeIds) /\ row = NewCity("manchester")
                           /\ cities' = [cities EXCEPT ![id] = row]
        BY <1>5, <3>2 DEF SeedCities
      <4>2. id \in CityIds
        BY <1>3, <3>2, <4>1, RoomForCity DEF FreeIds
      <4>3. row \in CityRow /\ row.slug = "manchester"
        BY <4>1 DEF NewCity, CityRow, Names
      <4>4. cities' = IF \E c \in CityIds \ {id} : cities[c].slug = row.slug THEN cities
                      ELSE [cities EXCEPT ![id] = row]
        BY <3>2, <4>1, <4>3 DEF HasCity
      <4>5. CitiesKept'
        BY <1>3, <4>3, <4>4, SaveCityKeeps
      <4>. QED
        BY <1>3, <4>1, <4>2, <4>3, <4>5 DEF HasCity, CitiesKept
    <3>. QED
      BY <3>1, <3>2
  <2>5. boot'.at \in BootSteps /\ ~Serving /\ ~Serving'
    BY <2>2, StepsKnown DEF StepNames, Serving
  <2>6. WholeTypes' /\ WithoutTables'
    BY <1>2, <1>3, <2>1, <2>3, <2>5 DEF WholeInv, WholeTypes, WithoutTables
  <2>7. HomeKnown' /\ ManchesterKnown' /\ TagsKnown'
    BY <1>2, <2>1, <2>2, <2>4, <2>5
       DEF WholeInv, HomeKnown, ManchesterKnown, TagsKnown, WasCut, UpTo, Early, Late
  <2>8. LackingKnown'
    <3>1. \A s \in Late : Lacking(s)' <=> Lacking(s)
      BY <1>2, <2>1 DEF Lacking
    <3>2. boot.at \notin Late
      BY <2>2 DEF Late
    <3>. QED
      BY <1>2, <2>1, <3>1, <3>2 DEF WholeInv, LackingKnown, WasCut, UpTo
  <2>. QED
    BY <2>4, <2>6, <2>7, <2>8 DEF WholeInv
<1>6. ASSUME SeedTags \/ SeedAdminUser \/ SeedDemoUser \/ SeedVenues PROVE WholeInv'
  <2>1. UNCHANGED <<cities, owned, crowd, vibe, places, notices, analytics>>
    BY <1>6 DEF SeedTags, SeedAdminUser, SeedDemoUser, SeedUser, SeedVenues
  <2>2. /\ \/ boot.at = "tags" /\ boot'.at = "admin" /\ tags' = tags + 1 /\ home' = home
           \/ boot.at = "admin" /\ boot'.at = "demoUser" /\ tags' = tags /\ home' = home
           \/ boot.at = "demoUser" /\ boot'.at = "venues" /\ tags' = tags /\ home' = home
           \/ boot.at = "venues" /\ boot'.at = "busyness" /\ tags' = tags
              /\ home' = IdOf("manchester")
        /\ schema
    BY <1>1, <1>6
       DEF SeedTags, SeedAdminUser, SeedDemoUser, SeedUser, SeedVenues, WholeInv, WithoutTables
  <2>3. IdOf("manchester") \in CityIds
    BY <2>2 DEF WholeInv, ManchesterKnown, Early, HasCity, IdOf
  <2>4. /\ boot.at \in Early \ {"cities"} /\ boot.at \notin Late /\ home = NoRow
        /\ boot'.at \in (Early \ {"cities"}) \cup {"busyness"} /\ boot'.at \in BootSteps
        /\ ~Serving /\ ~Serving'
    BY <2>2, StepsKnown DEF Early, Late, Serving, StepNames, WholeInv, HomeKnown
  <2>5. WholeTypes' /\ CitiesKept' /\ WithoutTables'
    BY <1>2, <1>3, <2>1, <2>2, <2>3, <2>4
       DEF WholeInv, WholeTypes, CitiesKept, WithoutTables, CityIds, NoRow
  <2>6. HomeKnown' /\ ManchesterKnown'
    BY <1>2, <2>1, <2>2, <2>3, <2>4
       DEF WholeInv, HomeKnown, ManchesterKnown, HasCity, Early, Late, CityIds, NoRow
  <2>7. TagsKnown'
    BY <1>2, <1>3, <2>2, <2>3, <2>4 DEF WholeInv, TagsKnown, WasCut, CityIds, NoRow
  <2>8. LackingKnown'
    <3>1. \A s \in Late : Lacking(s)' <=> Lacking(s)
      BY <1>2, <2>1 DEF Lacking
    <3>2. \A s \in Late : boot'.at = "busyness" => boot'.at \in Late /\ Rank[boot'.at] <= Rank[s]
      BY RanksKnown DEF Late
    <3>. QED
      BY <1>2, <2>2, <2>4, <3>1, <3>2 DEF WholeInv, LackingKnown, WasCut, UpTo
  <2>. QED
    BY <2>5, <2>6, <2>7, <2>8 DEF WholeInv
<1>7. ASSUME \/ SeedBusyness \/ SeedVibes \/ SeedOffers \/ SeedNotifications \/ SeedAnalytics
             \/ SeedBusinessUsers
      PROVE  WholeInv'
  <2>1. UNCHANGED <<cities, home, tags>>
    BY <1>7 DEF SeedBusyness, SeedVibes, SeedOffers, SeedNotifications, SeedAnalytics,
       SeedBusinessUsers
  <2>2. \/ boot.at = "busyness" /\ boot'.at = "vibes" /\ crowd' = VENUE_BUSYNESS
           /\ UNCHANGED <<owned, vibe, places, notices, analytics>>
        \/ boot.at = "vibes" /\ boot'.at = "offers" /\ vibe' = VENUE_VIBES
           /\ UNCHANGED <<owned, crowd, places, notices, analytics>>
        \/ boot.at = "offers" /\ boot'.at = "notices" /\ places' = 0
           /\ UNCHANGED <<owned, crowd, vibe, notices, analytics>>
        \/ boot.at = "notices" /\ boot'.at = "analytics"
           /\ notices' = [notices EXCEPT !.seed = TRUE]
           /\ UNCHANGED <<owned, crowd, vibe, places, analytics>>
        \/ boot.at = "analytics" /\ boot'.at = "accounts" /\ analytics' = TRUE
           /\ UNCHANGED <<owned, crowd, vibe, places, notices>>
        \/ boot.at = "accounts" /\ boot'.at = "owners"
           /\ UNCHANGED <<owned, crowd, vibe, places, notices, analytics>>
        \/ boot.at = "owners" /\ boot'.at = "up" /\ owned' = TRUE
           /\ UNCHANGED <<crowd, vibe, places, notices, analytics>>
    BY <1>1, <1>7 DEF SeedBusyness, SeedVibes, SeedOffers, SeedNotifications, SeedAnalytics,
       SeedBusinessUsers
  <2>3. /\ boot.at \in Late /\ boot'.at \in Late \cup {"up"} /\ boot'.at \in BootSteps \cup {"up"}
        /\ boot'.at \notin Early \cup {"topUp", "backfill", "count", "waiting"}
    BY <2>2, StepsKnown DEF Late, StepNames, Early
  <2>4. home \in CityIds /\ home # NoRow /\ schema /\ tags >= 1
    <3>1. home \in CityIds /\ home # NoRow
      BY <2>3 DEF WholeInv, HomeKnown, CityIds, NoRow
    <3>. QED
      BY <1>3, <3>1 DEF WholeInv, WithoutTables, TagsKnown
  <2>5. crowd' \in [Venues -> Int] /\ places' \in Int /\ places' >= NoRow /\ owned' \in BOOLEAN
        /\ notices' = [seed |-> notices'.seed, alerts |-> notices'.alerts]
    <3>1. VENUE_BUSYNESS \in [Venues -> Int]
      BY SeededCrowd
    <3>2. crowd' \in [Venues -> Int]
      BY <1>3, <2>2, <3>1
    <3>3. places' \in Int /\ places' >= NoRow
      BY <2>2 DEF WholeInv, WholeTypes, NoRow
    <3>4. owned' \in BOOLEAN
      BY <2>2 DEF WholeInv, WholeTypes
    <3>5. notices' = [seed |-> notices'.seed, alerts |-> notices'.alerts]
      BY <2>2 DEF WholeInv, WholeTypes
    <3>. QED
      BY <3>2, <3>3, <3>4, <3>5
  <2>6. WholeTypes' /\ CitiesKept' /\ WithoutTables'
    BY <1>2, <1>3, <2>1, <2>3, <2>4, <2>5 DEF WholeInv, WholeTypes, CitiesKept, WithoutTables
  <2>7. HomeKnown' /\ ManchesterKnown' /\ TagsKnown'
    BY <1>2, <1>3, <2>1, <2>3, <2>4
       DEF WholeInv, HomeKnown, ManchesterKnown, TagsKnown, WasCut, HasCity
  <2>8. LackingKnown'
    <3>1. ASSUME NEW s \in Late, Lacking(s)'
          PROVE  WasCut(UpTo(s)) \/ (boot'.at \in Late /\ Rank[boot'.at] <= Rank[s])
      <4>1. CASE s = boot.at
        <5>1. \A v \in Venues : VENUE_BUSYNESS[v] # NoRow /\ VENUE_VIBES[v] # NoVibe
          BY SeededCrowd, SeededVibes DEF NoRow
        <5>2. boot.at # "accounts" => ~Lacking(s)'
          <6>1. boot.at = "notices" => notices'.seed = TRUE
            BY <2>2 DEF WholeInv, WholeTypes
          <6>. QED
            BY <2>2, <4>1, <5>1, <6>1 DEF Lacking, NoRow
        <5>3. boot.at = "accounts" => ~Lacking(s)'
          BY <4>1 DEF Lacking
        <5>. QED
          BY <3>1, <5>2, <5>3
      <4>2. CASE s # boot.at
        <5>1. Lacking(s)
          BY <1>2, <2>2, <3>1, <4>2 DEF Lacking
        <5>2. WasCut(UpTo(s)) \/ Rank[boot.at] <= Rank[s]
          BY <2>4, <5>1 DEF WholeInv, LackingKnown
        <5>3. Rank[boot.at] <= Rank[s] => boot'.at \in Late /\ Rank[boot'.at] <= Rank[s]
          BY <2>2, <4>2, RanksKnown DEF Late
        <5>. QED
          BY <5>2, <5>3
      <4>. QED
        BY <4>1, <4>2
    <3>. QED
      BY <1>2, <3>1 DEF LackingKnown, WasCut, UpTo
  <2>. QED
    BY <2>6, <2>7, <2>8 DEF WholeInv
<1>8. ASSUME BackfillVenueCityIds PROVE WholeInv'
  <2>1. /\ UNCHANGED <<cities, tags, owned, crowd, vibe, places, notices, analytics>>
        /\ boot.at = "backfill" /\ boot'.at = "up" /\ (home' = home \/ home' \in CityIds)
    BY <1>1, <1>8 DEF BackfillVenueCityIds
  <2>2. /\ boot.at \notin Early \cup Late /\ home # NoRow /\ home' # NoRow /\ schema
        /\ home' \in NoRow .. 3 /\ tags >= 1 /\ Serving'
        /\ boot'.at \notin Early \cup Late \cup {"topUp", "backfill"}
    BY <1>3, <2>1 DEF WholeInv, HomeKnown, WithoutTables, TagsKnown, Early, Late, CityIds, NoRow, Serving
  <2>3. WholeTypes' /\ CitiesKept' /\ WithoutTables'
    BY <1>2, <1>3, <2>1, <2>2 DEF WholeInv, WholeTypes, CitiesKept, WithoutTables
  <2>4. HomeKnown' /\ ManchesterKnown' /\ TagsKnown'
    BY <1>2, <1>3, <2>1, <2>2 DEF WholeInv, HomeKnown, ManchesterKnown, TagsKnown, WasCut, Early
  <2>5. LackingKnown'
    <3>1. \A s \in Late : Lacking(s)' <=> Lacking(s)
      BY <1>2, <2>1 DEF Lacking
    <3>. QED
      BY <1>2, <2>1, <2>2, <3>1 DEF WholeInv, LackingKnown, WasCut, UpTo
  <2>. QED
    BY <2>3, <2>4, <2>5 DEF WholeInv
<1>. QED
  BY <1>4, <1>5, <1>6, <1>7, <1>8

LEMMA NextWhole == DemoAssumption /\ WholeInv /\ [CityNext]_city => WholeInv'
<1>1. SUFFICES ASSUME DemoAssumption, WholeInv, [CityNext]_city PROVE WholeInv'
  OBVIOUS
<1>2. ScoreInv /\ ScoreInv'
  BY <1>1, NextScore DEF WholeInv, WholeTypes
<1>3. CASE SeedFails \/ ((CountVenues \/ SeedAdminUser \/ SeedDemoUser) /\ GiveUp)
  <2>1. ~Serving
    BY <1>2, <1>3, BootKnown DEF ScoreInv, Boot
  <2>2. GiveUp
    BY <1>3 DEF SeedFails
  <2>3. boot.at # "waiting"
    BY <1>3 DEF SeedFails, CountVenues, SeedAdminUser, SeedDemoUser, SeedUser
  <2>4. UNCHANGED <<schema, cities, home, tags, owned, crowd, vibe, places, notices, analytics, job,
                    wiped>>
    BY <1>3 DEF SeedFails, CountVenues, SeedAdminUser, SeedDemoUser, SeedUser, database, Requests
  <2>. QED
    BY <1>1, <1>2, <2>1, <2>2, <2>3, <2>4, GiveUpWhole
<1>4. CASE Boot /\ (CountVenues \/ SeedAdminUser \/ SeedDemoUser => ~GiveUp)
  BY <1>1, <1>2, <1>4, StepWhole DEF Boot
<1>5. CASE Restart
  BY <1>1, <1>2, <1>5, RestartWhole
<1>6. CASE Migrate \/ (\E v \in Venues : RenameVenue(v)) \/ UNCHANGED city
  BY <1>1, <1>2, <1>6, OthersWhole
<1>7. ASSUME NEW j \in Jobs, Request(j) \/ Handle(j)
      PROVE  WholeInv'
  BY <1>1, <1>2, <1>7, RequestWhole, HandleWhole
<1>. QED
  BY <1>1, <1>3, <1>4, <1>5, <1>6, <1>7 DEF CityNext

\* How a boot can end, and what that says of the cities and of the venues' city.
LEMMA EndOfBoot ==
    ASSUME DemoAssumption, WholeInv, WholeInv', CityNext, boot.at # "up", boot'.at = "up"
    PROVE  /\ ~HasCity("manchester")' => CutAt(UpTo("cities") \cup {"topUp"})
           /\ home' = Unlinked => \/ CutAt({"count", "topUp", "backfill"})
                                \/ ~\E c \in CityIds : cities'[c].active /\ cities'[c].name = "leeds"
<1>1. \A s : Reach(s) => boot'.at = s
  BY DEF Reach, WholeInv, WholeTypes, ScoreInv, ScoreTypes
<1>2. ~Serving
  BY DEF Serving
<1>3. CASE GiveUp /\ UNCHANGED <<home, cities>> /\ boot.at # "waiting"
  <2>1. \A steps : boot.at \in steps => CutAt(steps)
    BY <1>3 DEF GiveUp, CutAt
  <2>2. boot.at \in {"count", "topUp", "backfill"} \cup Early \cup Late
    BY <1>3, StepsKnown DEF WholeInv, WholeTypes, StepNames, Early, Late
  <2>3. ~HasCity("manchester")' => boot.at \in {"count", "cities", "topUp"}
    BY <1>3, <2>2 DEF WholeInv, ManchesterKnown, HasCity
  <2>4. home' = Unlinked => boot.at \in {"count", "topUp", "backfill"}
    BY <1>3, <2>2 DEF WholeInv, HomeKnown, Unlinked, NoRow, CityIds
  <2>. QED
    BY <2>1, <2>3, <2>4, UpToKnown
<1>4. CASE BackfillVenueCityIds
  <2>1. HasCity("manchester")'
    BY <1>4 DEF BackfillVenueCityIds, WholeInv, ManchesterKnown, HasCity
  <2>2. home' = Unlinked => ~\E c \in CityIds : cities'[c].active /\ cities'[c].name = "leeds"
    BY <1>4 DEF BackfillVenueCityIds, CityIds, Unlinked
  <2>. QED
    BY <2>1, <2>2
<1>5. CASE SeedBusinessUsers
  <2>1. boot.at = "owners" /\ UNCHANGED <<home, cities>>
    BY <1>1, <1>5 DEF SeedBusinessUsers
  <2>. QED
    BY <2>1 DEF WholeInv, ManchesterKnown, HomeKnown, HasCity, Late, CityIds, Unlinked
<1>6. CASE \/ CountVenues \/ SeedAdminUser \/ SeedDemoUser \/ SeedFails
  <2>1. GiveUp \/ \E s \in BootSteps : Reach(s)
    BY <1>6, StepsKnown
       DEF CountVenues, SeedAdminUser, SeedDemoUser, SeedUser, SeedFails, StepNames
  <2>2. \A s \in BootSteps : ~Reach(s)
    BY <1>1, StepsKnown DEF StepNames
  <2>3. UNCHANGED <<home, cities>> /\ boot.at # "waiting"
    BY <1>6 DEF CountVenues, SeedAdminUser, SeedDemoUser, SeedUser, SeedFails, database
  <2>. QED
    BY <1>3, <2>1, <2>2, <2>3
<1>7. ~(\/ Retry \/ SeedCities \/ SeedTags \/ SeedVenues \/ SeedBusyness \/ SeedVibes \/ SeedOffers
        \/ SeedNotifications \/ SeedAnalytics \/ Restart \/ Migrate)
  BY <1>1 DEF Retry, SeedCities, SeedTags, SeedVenues, SeedBusyness, SeedVibes, SeedOffers,
     SeedNotifications, SeedAnalytics, Restart, Migrate
<1>8. ~\E v \in Venues : RenameVenue(v)
  BY <1>2 DEF RenameVenue
<1>9. ASSUME NEW j \in Jobs PROVE ~Request(j) /\ ~Handle(j)
  <2>1. ~Request(j)
    BY <1>2 DEF Request, StartSimulate, StartReset, StartCheck, StartRedeem, StartCreateCity,
       StartEditCity, Start
  <2>2. Handle(j) => UNCHANGED boot
    BY DEF Handle, ReadVenues, ReadCrowd, SaveCrowd, ReadVibe, SaveVibe, triggerVibeAlert,
       ClearRedemptions, ResetOffers, ClearNotifications, ClearAnalytics, FindVibe,
       submitVibeCheck, MarkRedeemed, TakePlace, FindCity, SaveCity, JobFails
  <2>. QED
    BY <2>1, <2>2
<1>. QED
  BY <1>4, <1>5, <1>6, <1>7, <1>8, <1>9 DEF CityNext, Boot

(* When a boot ends, however it ended and whatever was there before, all    *)
(* that the seed fills is there, but for what some boot was cut off before  *)
(* and what a reset has cleared since (SeedService.onModuleInit).           *)
THEOREM BootsLeaveItWhole == CitySpec => BootLeavesItWhole
<1>1. DemoAssumption /\ WholeInv /\ WholeInv' /\ [CityNext]_city
        => [boot.at # "up" /\ boot'.at = "up" => LeftWhole]_city
  <2>1. SUFFICES ASSUME DemoAssumption, WholeInv, WholeInv', CityNext, boot.at # "up",
                        boot'.at = "up"
                 PROVE  LeftWhole
    OBVIOUS
  <2>2. \A steps : WasCut(steps)' => CutAt(steps)
    BY DEF WasCut, CutAt
  <2>3. boot'.at \notin Early \cup Late \cup {"count", "waiting", "admin", "demoUser", "venues"} /\ Serving'
    BY <2>1 DEF Early, Late, Serving
  <2>4. home' = NoRow => CutAt(UpTo("venues"))
    BY <2>1, <2>3 DEF WholeInv, HomeKnown, WasCut, CutAt, UpTo
  <2>5. /\ tags' = 0 => CutAt(UpTo("tags"))
        /\ tags' > 1 => CutAt({"tags", "admin", "demoUser", "venues"})
    BY <2>1, <2>3 DEF WholeInv, TagsKnown, WasCut, CutAt, UpTo
  <2>6. ASSUME NEW s \in Late, Lacking(s)'
        PROVE  CutAt(UpTo(s))
    <3>1. WasCut(UpTo(s))' \/ home' = NoRow
      BY <2>1, <2>3, <2>6 DEF WholeInv, LackingKnown
    <3>2. UpTo("venues") \subseteq UpTo(s)
      BY UpToKnown
    <3>. QED
      BY <2>4, <3>1, <3>2 DEF WasCut, CutAt, UpTo
  <2>7. /\ ((\E v \in Venues : crowd'[v] = NoRow) => CutAt(UpTo("busyness")))
        /\ ((\E v \in Venues : vibe'[v] = NoVibe) => CutAt(UpTo("vibes")))
        /\ (places' = NoRow => CutAt(UpTo("offers")))
        /\ (~notices'.seed => "notices" \in wiped' \/ CutAt(UpTo("notices")))
        /\ (~analytics' => "analytics" \in wiped' \/ CutAt(UpTo("analytics")))
        /\ (~owned' => CutAt(UpTo("owners")))
    BY <2>6 DEF Lacking, Late
  <2>. QED
    BY <2>1, <2>4, <2>5, <2>7, EndOfBoot DEF LeftWhole
<1>. QED
  BY <1>1, DemoAssumption, InitWhole, NextWhole, PTL DEF CitySpec, BootLeavesItWhole

-------------------------------------------------------------------------------
(* What a reset restores. *)

Walks(r) == (r.kind \in Demo /\ r.at \in Walking) \/ r.kind = "check"
CrowdSteps == {"readCrowd", "saveCrowd"}
VibeSteps == {"readVibe", "saveVibe"}
ClearSteps == {"redemptions", "offers", "notices", "analytics"}

CrowdRestored(v) == crowd[v] \in {NoRow, VENUE_BUSYNESS[v]}
VibeRestored(v) == vibe[v] # NoVibe => vibe[v].seeded

\* How far a reset has come beside which nothing else has run.
Progress(r) ==
    /\ r.at \in CrowdSteps \cup VibeSteps => r.all = Venues \ renamed
    /\ r.at \in CrowdSteps => \A v \in r.all \ r.left : CrowdRestored(v)
    /\ r.at \in VibeSteps => /\ \A v \in r.all : CrowdRestored(v)
                             /\ \A v \in r.all \ r.left : VibeRestored(v)
    /\ r.at \in ClearSteps => \A v \in Venues \ renamed : CrowdRestored(v) /\ VibeRestored(v)
    /\ r.at \in ClearSteps \ {"redemptions"} => redeemed = 0
    /\ r.at \in {"notices", "analytics"} => places \in {NoRow, 0}

Fits(r) ==
    /\ Walks(r) => home # NoRow
    /\ r.kind = "reset" => /\ r.pct = 0 /\ (r.at = "saveVibe" => r.copy # NoVibe)
                           /\ r.at \in {"venues"} \cup CrowdSteps \cup VibeSteps \cup ClearSteps
    /\ r.kind = "reset" /\ r.alone => Progress(r)

\* Without venues there are no rows of theirs; who runs alone has nobody beside it.
ResetInv ==
    /\ WholeInv
    /\ home = NoRow => \A v \in Venues : crowd[v] = NoRow /\ vibe[v] = NoVibe
    /\ \A j, k \in Jobs : job[j].alone /\ k # j => job[k] = Idle
    /\ \A k \in Jobs : Fits(job[k])

LEMMA IdleFits == Fits(Idle) /\ Fits(Idle)'
BY DEF Fits, Walks, Progress, Idle, Demo

LEMMA JobFits ==
    ASSUME ResetInv, NEW j \in Jobs
    PROVE  /\ JobOK(job[j]) /\ WritesRows(job[j]) /\ Fits(job[j])
           /\ job[j] # Idle => Serving /\ schema
           /\ job[j].alone => \A k \in Jobs \ {j} : job[k] = Idle
BY JobWrites DEF ResetInv

\* A request goes on: one that runs alone is the only one, so no other is disturbed.
LEMMA ContinueFits ==
    ASSUME ResetInv, WholeInv', NEW j \in Jobs, job[j] # Idle, NEW n, Continue(j, n),
           n.alone => job[j].alone, Fits(n)', UNCHANGED <<boot, home>>,
           home = NoRow => UNCHANGED <<crowd, vibe>>
    PROVE  ResetInv'
<1>1. \A k \in Jobs : job'[k] = IF k = j THEN n ELSE job[k]
  BY DEF ResetInv, WholeInv, WholeTypes, ScoreInv, ScoreTypes, Continue
<1>2. ASSUME NEW k \in Jobs, k # j
      PROVE  ~job[k].alone /\ Fits(job[k])'
  <2>1. ~job[k].alone
    BY <1>2, JobFits
  <2>2. Walks(job[k]) => home # NoRow
    BY <1>2, JobFits DEF Fits
  <2>3. job[k].kind = "reset" => /\ job[k].pct = 0 /\ (job[k].at = "saveVibe" => job[k].copy # NoVibe)
                                 /\ job[k].at \in {"venues"} \cup CrowdSteps \cup VibeSteps \cup ClearSteps
    BY JobFits DEF Fits
  <2>. QED
    BY <1>1, <1>2, <2>1, <2>2, <2>3 DEF Fits
<1>3. \A i, k \in Jobs : job'[i].alone /\ k # i => job'[k] = Idle
  BY <1>1, <1>2, JobFits
<1>. QED
  BY <1>1, <1>2, <1>3 DEF ResetInv

LEMMA StopFits ==
    ASSUME ResetInv, WholeInv', NEW j \in Jobs, job[j] # Idle, Continue(j, Idle),
           UNCHANGED <<boot, home>>, home = NoRow => UNCHANGED <<crowd, vibe>>
    PROVE  ResetInv'
<1>1. ~Idle.alone
  BY DEF Idle
<1>. QED
  BY <1>1, IdleFits, ContinueFits

\* A request other than a reset goes on.
LEMMA OtherFits ==
    ASSUME ResetInv, WholeInv', NEW j \in Jobs, job[j] # Idle, NEW n, Continue(j, n),
           job[j].kind # "reset", n = Idle \/ (n.kind = job[j].kind /\ n.alone = job[j].alone),
           Walks(n) => Walks(job[j]) \/ home # NoRow, UNCHANGED <<boot, home>>,
           ~Walks(job[j]) => UNCHANGED <<crowd, vibe>>
    PROVE  ResetInv'
<1>1. Walks(job[j]) => home # NoRow
  BY JobFits DEF Fits
<1>2. CASE n = Idle
  BY <1>1, <1>2, StopFits
<1>3. CASE n # Idle
  <2>1. Fits(n)'
    BY <1>1, <1>3 DEF Fits, Walks
  <2>. QED
    BY <1>1, <1>3, <2>1, ContinueFits
<1>. QED
  BY <1>2, <1>3

\* The next venue, the second loop, or the clearing.
LEMMA AfterReset ==
    ASSUME NEW r, JobOK(r), r.kind = "reset", r.at \in CrowdSteps \cup VibeSteps
    PROVE  /\ After(r).kind = "reset" /\ After(r).alone = r.alone /\ After(r).all = r.all
           /\ After(r).pct = 0
           /\ \/ /\ r.at \in CrowdSteps /\ After(r).at = "readCrowd"
                 /\ After(r).left = r.left \ {Min(r.left)}
              \/ /\ r.at \in CrowdSteps /\ After(r).at = "readVibe" /\ After(r).left = r.all
                 /\ r.left \ {Min(r.left)} = {}
              \/ /\ r.at \in VibeSteps /\ After(r).at = "readVibe"
                 /\ After(r).left = r.left \ {Min(r.left)}
              \/ /\ r.at \in VibeSteps /\ After(r).at = "redemptions"
                 /\ r.left \ {Min(r.left)} = {}
<1>1. PICK rest : rest = r.left \ {Min(r.left)}
  OBVIOUS
<1>2. PICK next : next = [r EXCEPT !.left = rest, !.had = FALSE, !.copy = NoVibe, !.pct = 0]
  OBVIOUS
<1>3. JobRecord(next) /\ next.kind = "reset" /\ next.alone = r.alone /\ next.all = r.all
      /\ next.pct = 0 /\ next.left = rest
  BY <1>2 DEF JobOK, JobRecord
<1>4. CASE r.at \in CrowdSteps
  <2>1. CASE rest # {}
    <3>1. After(r) = [next EXCEPT !.at = "readCrowd"]
      BY <1>1, <1>2, <1>4, <2>1 DEF After, CrowdSteps
    <3>. QED
      BY <1>1, <1>3, <1>4, <2>1, <3>1 DEF JobRecord
  <2>2. CASE rest = {}
    <3>1. After(r) = [next EXCEPT !.at = "readVibe", !.left = r.all]
      BY <1>1, <1>2, <1>4, <2>2 DEF After, CrowdSteps
    <3>. QED
      BY <1>1, <1>3, <1>4, <2>2, <3>1 DEF JobRecord
  <2>. QED
    BY <2>1, <2>2
<1>5. CASE r.at \in VibeSteps
  <2>1. CASE rest # {}
    <3>1. After(r) = [next EXCEPT !.at = "readVibe"]
      BY <1>1, <1>2, <1>5, <2>1 DEF After, VibeSteps
    <3>. QED
      BY <1>1, <1>3, <1>5, <2>1, <3>1 DEF JobRecord
  <2>2. CASE rest = {}
    <3>1. After(r) = [next EXCEPT !.at = "redemptions"]
      BY <1>1, <1>2, <1>5, <2>2 DEF After, VibeSteps
    <3>. QED
      BY <1>1, <1>3, <1>5, <2>2, <3>1 DEF JobRecord
  <2>. QED
    BY <2>1, <2>2
<1>. QED
  BY <1>4, <1>5

\* The next venue or hour of a scenario is of the same request.
LEMMA AfterOther ==
    ASSUME NEW r, JobOK(r), r.kind # "reset"
    PROVE  After(r) = Idle \/ (After(r).kind = r.kind /\ After(r).alone = r.alone)
<1>1. PICK rest : rest = r.left \ {Min(r.left)}
  OBVIOUS
<1>2. PICK next : next = [r EXCEPT !.left = rest, !.had = FALSE, !.copy = NoVibe, !.pct = 0]
  OBVIOUS
<1>3. JobRecord(next) /\ next.kind = r.kind /\ next.alone = r.alone
  BY <1>2 DEF JobOK, JobRecord
<1>4. \/ \E a \in {"readCrowd", "readVibe"} : After(r) = [next EXCEPT !.at = a]
      \/ After(r) = [next EXCEPT !.at = "venues", !.hours = Tail(@), !.all = {}]
      \/ After(r) = Idle
  BY <1>1, <1>2 DEF After
<1>5. CASE \E a \in {"readCrowd", "readVibe"} : After(r) = [next EXCEPT !.at = a]
  BY <1>3, <1>5 DEF JobRecord
<1>6. CASE After(r) = [next EXCEPT !.at = "venues", !.hours = Tail(@), !.all = {}]
  BY <1>3, <1>6 DEF JobRecord
<1>. QED
  BY <1>4, <1>5, <1>6

\* The venue at hand is restored, and a reset turns to what follows.
LEMMA AfterFits ==
    ASSUME NEW r, JobOK(r), Fits(r), r.kind = "reset", r.at \in CrowdSteps \cup VibeSteps,
           NEW v, v = Min(r.left), UNCHANGED <<home, renamed>>,
           \A u \in Venues : u # v => crowd'[u] = crowd[u] /\ vibe'[u] = vibe[u],
           r.at \in CrowdSteps => CrowdRestored(v)',
           r.at \in VibeSteps => UNCHANGED crowd /\ VibeRestored(v)'
    PROVE  Fits(After(r))'
<1>1. PICK n : n = After(r)
  OBVIOUS
<1>2. /\ n.kind = "reset" /\ n.alone = r.alone /\ n.all = r.all /\ n.pct = 0
      /\ \/ r.at \in CrowdSteps /\ n.at = "readCrowd" /\ n.left = r.left \ {v}
         \/ r.at \in CrowdSteps /\ n.at = "readVibe" /\ n.left = r.all /\ r.left \ {v} = {}
         \/ r.at \in VibeSteps /\ n.at = "readVibe" /\ n.left = r.left \ {v}
         \/ r.at \in VibeSteps /\ n.at = "redemptions" /\ r.left \ {v} = {}
  BY <1>1, AfterReset
<1>3. r.all \subseteq Venues /\ home # NoRow
  BY DEF JobOK, Fits, Walks, Demo, Walking, CrowdSteps, VibeSteps
<1>4. /\ n.at \in {"readCrowd", "readVibe", "redemptions"}
      /\ n.at \notin {"saveVibe", "offers", "notices", "analytics"}
      /\ n.at \in CrowdSteps <=> n.at = "readCrowd"
      /\ n.at \in VibeSteps <=> n.at = "readVibe"
      /\ n.at \in ClearSteps <=> n.at = "redemptions"
      /\ n.at \in {"venues"} \cup CrowdSteps \cup VibeSteps \cup ClearSteps
  BY <1>2 DEF CrowdSteps, VibeSteps, ClearSteps
<1>5. ASSUME r.alone
      PROVE  Progress(n)'
  <2>1. /\ r.all = Venues \ renamed
        /\ r.at \in CrowdSteps => \A u \in r.all \ r.left : CrowdRestored(u)
        /\ r.at \in VibeSteps => /\ \A u \in r.all : CrowdRestored(u)
                                 /\ \A u \in r.all \ r.left : VibeRestored(u)
    BY <1>5 DEF Fits, Progress
  <2>2. ASSUME r.at \in CrowdSteps, NEW u \in r.all, u \notin r.left \/ u = v
        PROVE  CrowdRestored(u)'
    BY <1>3, <2>1, <2>2 DEF CrowdRestored
  <2>3. ASSUME r.at \in VibeSteps, NEW u \in r.all
        PROVE  /\ CrowdRestored(u)'
               /\ u \notin r.left \/ u = v => VibeRestored(u)'
    BY <1>3, <2>1, <2>3 DEF CrowdRestored, VibeRestored
  <2>4. CASE n.at = "readCrowd"
    <3>1. r.at \in CrowdSteps /\ n.left = r.left \ {v}
      BY <1>2, <2>4
    <3>2. \A u \in n.all \ n.left : CrowdRestored(u)'
      BY <1>2, <2>2, <3>1
    <3>. QED
      BY <1>2, <1>4, <2>1, <2>4, <3>2 DEF Progress
  <2>5. CASE n.at = "readVibe"
    <3>1. \A u \in n.all : CrowdRestored(u)'
      <4>1. CASE r.at \in CrowdSteps /\ r.left \ {v} = {}
        BY <1>2, <2>2, <4>1
      <4>2. CASE r.at \in VibeSteps
        BY <1>2, <2>3, <4>2
      <4>. QED
        BY <1>2, <2>5, <4>1, <4>2
    <3>2. \A u \in n.all \ n.left : VibeRestored(u)'
      <4>1. CASE n.left = r.all
        BY <1>2, <4>1
      <4>2. CASE r.at \in VibeSteps /\ n.left = r.left \ {v}
        BY <1>2, <2>3, <4>2
      <4>. QED
        BY <1>2, <2>5, <4>1, <4>2
    <3>. QED
      BY <1>2, <1>4, <2>1, <2>5, <3>1, <3>2 DEF Progress
  <2>6. CASE n.at = "redemptions"
    <3>1. \A u \in Venues \ renamed : CrowdRestored(u)' /\ VibeRestored(u)'
      BY <1>2, <2>1, <2>3, <2>6
    <3>. QED
      BY <1>4, <2>6, <3>1 DEF Progress
  <2>. QED
    BY <1>4, <2>4, <2>5, <2>6
<1>. QED
  BY <1>1, <1>2, <1>3, <1>4, <1>5 DEF Fits

\* Each call of a reset restores what it says, or goes on.
LEMMA ResetHandles ==
    ASSUME DemoAssumption, ResetInv, WholeInv', NEW j \in Jobs, job[j].kind = "reset", Handle(j)
    PROVE  ResetInv'
<1>1. PICK r : r = job[j] /\ JobOK(r) /\ Fits(r) /\ r.kind = "reset" /\ r # Idle
  <2>1. Idle.kind # "reset"
    BY DEF Idle
  <2>. QED
    BY <2>1, JobFits
<1>2. JobRecord(r) /\ r.pct = 0 /\ crowd \in [Venues -> Int] /\ vibe \in [Venues -> MaybeVibe]
  BY <1>1 DEF JobOK, Fits, ResetInv, WholeInv, WholeTypes, ScoreInv, ScoreTypes
<1>3. ASSUME JobFails(j) PROVE ResetInv'
  BY <1>1, <1>3, StopFits DEF JobFails, database
<1>4. ASSUME ReadVenues(j) PROVE ResetInv'
  <2>1. PICK found : found = (IF home = NoRow THEN {} ELSE Venues \ renamed)
    OBVIOUS
  <2>2. PICK m : m = [r EXCEPT !.all = found, !.left = found]
    OBVIOUS
  <2>3. PICK n : /\ Continue(j, n)
                 /\ n = IF found # {} THEN [m EXCEPT !.at = "readCrowd"]
                        ELSE IF m.kind = "reset" THEN [m EXCEPT !.at = "redemptions"]
                        ELSE IF Len(m.hours) > 1 THEN [m EXCEPT !.hours = Tail(@)] ELSE Idle
    BY <1>1, <1>4, <2>1, <2>2 DEF ReadVenues
  <2>4. JobRecord(m) /\ m.kind = "reset" /\ m.all = found /\ m.left = found /\ m.pct = 0
        /\ m.alone = r.alone
    BY <1>1, <1>2, <2>2 DEF JobRecord
  <2>5. /\ n.kind = "reset" /\ n.pct = 0 /\ n.alone = r.alone /\ n.all = found /\ n.left = found
        /\ n.at = IF found # {} THEN "readCrowd" ELSE "redemptions"
    BY <2>3, <2>4 DEF JobRecord
  <2>6. UNCHANGED <<boot, home, crowd, vibe, renamed>>
    BY <1>4 DEF ReadVenues, database
  <2>7. Fits(n)'
    <3>1. CASE found # {}
      BY <2>1, <2>5, <2>6, <3>1
         DEF Fits, Progress, Walks, CrowdSteps, VibeSteps, ClearSteps, Demo, Walking
    <3>2. CASE found = {}
      <4>1. \A v \in Venues \ renamed : CrowdRestored(v)' /\ VibeRestored(v)'
        BY <2>1, <2>6, <3>2 DEF ResetInv, CrowdRestored, VibeRestored
      <4>2. n.at = "redemptions"
        BY <2>5, <3>2
      <4>3. ~Walks(n)
        BY <2>5, <4>2 DEF Walks, Walking
      <4>4. Progress(n)'
        BY <4>1, <4>2, <2>6 DEF Progress, CrowdSteps, VibeSteps, ClearSteps
      <4>. QED
        BY <2>5, <4>2, <4>3, <4>4 DEF Fits, ClearSteps, Walks
    <3>. QED
      BY <3>1, <3>2
  <2>. QED
    BY <1>1, <2>3, <2>5, <2>6, <2>7, ContinueFits
<1>5. ASSUME r.at \in CrowdSteps \cup VibeSteps
      PROVE  Min(r.left) \in Venues /\ Venue(j) = Min(r.left)
  <2>1. r.left # {} /\ r.left \subseteq Venues
    BY <1>1, <1>5 DEF JobOK, Demo, Walking, CrowdSteps, VibeSteps
  <2>. QED
    BY <1>1, <2>1, FirstVenue DEF Venue
<1>6. \A n : n = After(r) /\ r.at \in CrowdSteps \cup VibeSteps => n.alone = r.alone
  BY <1>1, AfterReset
<1>7. ASSUME ReadCrowd(j) PROVE ResetInv'
  <2>1. r.at = "readCrowd" /\ r.at \in CrowdSteps /\ r.at \notin VibeSteps
    BY <1>1, <1>7 DEF ReadCrowd, Running, CrowdSteps, VibeSteps
  <2>2. UNCHANGED <<boot, home, crowd, vibe, renamed, redeemed, places>>
    BY <1>7 DEF ReadCrowd, database
  <2>3. \/ Continue(j, [r EXCEPT !.at = "saveCrowd", !.had = TRUE])
        \/ crowd[Min(r.left)] = NoRow /\ Continue(j, After(r))
    BY <1>1, <1>5, <1>7, <2>1 DEF ReadCrowd
  <2>4. CASE crowd[Min(r.left)] = NoRow /\ Continue(j, After(r))
    <3>1. Fits(After(r))'
      BY <1>1, <2>1, <2>2, <2>4, AfterFits DEF CrowdRestored
    <3>. QED
      BY <1>1, <1>6, <2>1, <2>2, <2>4, <3>1, ContinueFits
  <2>5. CASE Continue(j, [r EXCEPT !.at = "saveCrowd", !.had = TRUE])
    <3>1. PICK n : n = [r EXCEPT !.at = "saveCrowd", !.had = TRUE]
      OBVIOUS
    <3>2. /\ n.kind = "reset" /\ n.pct = 0 /\ n.alone = r.alone /\ n.all = r.all /\ n.left = r.left
          /\ n.at = "saveCrowd"
      BY <1>1, <1>2, <3>1 DEF JobRecord
    <3>3. Fits(n)'
      BY <1>1, <2>1, <2>2, <3>2
         DEF Fits, Progress, Walks, CrowdSteps, VibeSteps, ClearSteps, Demo, Walking, CrowdRestored
    <3>. QED
      BY <1>1, <2>2, <2>5, <3>1, <3>2, <3>3, ContinueFits
  <2>. QED
    BY <2>3, <2>4, <2>5
<1>8. ASSUME SaveCrowd(j) PROVE ResetInv'
  <2>1. r.at = "saveCrowd" /\ r.at \in CrowdSteps /\ r.at \notin VibeSteps /\ home # NoRow
    BY <1>1, <1>8 DEF SaveCrowd, Running, CrowdSteps, VibeSteps, Fits, Walks, Demo, Walking
  <2>2. UNCHANGED <<boot, home, vibe, renamed>>
    BY <1>8 DEF SaveCrowd
  <2>3. PICK v \in Venues : v = Min(r.left) /\ v = Venue(j)
    BY <1>5, <2>1
  <2>4. \/ Continue(j, Idle)
        \/ crowd' = [crowd EXCEPT ![v] = VENUE_BUSYNESS[v]] /\ Continue(j, After(r))
    BY <1>1, <1>8, <2>3 DEF SaveCrowd
  <2>5. CASE Continue(j, Idle)
    BY <1>1, <2>1, <2>2, <2>5, StopFits
  <2>6. CASE crowd' = [crowd EXCEPT ![v] = VENUE_BUSYNESS[v]] /\ Continue(j, After(r))
    <3>1. \A u \in Venues : u # v => crowd'[u] = crowd[u]
      BY <1>2, <2>6
    <3>2. CrowdRestored(v)'
      BY <1>2, <2>6 DEF CrowdRestored
    <3>3. Fits(After(r))'
      BY <1>1, <2>1, <2>2, <2>3, <3>1, <3>2, AfterFits
    <3>. QED
      BY <1>1, <1>6, <2>1, <2>2, <2>6, <3>3, ContinueFits
  <2>. QED
    BY <2>4, <2>5, <2>6
<1>9. ASSUME ReadVibe(j) PROVE ResetInv'
  <2>1. r.at = "readVibe" /\ r.at \in VibeSteps /\ r.at \notin CrowdSteps
    BY <1>1, <1>9 DEF ReadVibe, Running, CrowdSteps, VibeSteps
  <2>2. UNCHANGED <<boot, home, crowd, vibe, renamed, redeemed, places>>
    BY <1>9 DEF ReadVibe, database
  <2>3. PICK v \in Venues : v = Min(r.left) /\ v = Venue(j)
    BY <1>5, <2>1
  <2>4. \/ vibe[v] # NoVibe /\ Continue(j, [r EXCEPT !.at = "saveVibe", !.copy = vibe[v]])
        \/ vibe[v] = NoVibe /\ Continue(j, After(r))
    BY <1>1, <1>9, <2>3 DEF ReadVibe
  <2>5. CASE vibe[v] = NoVibe /\ Continue(j, After(r))
    <3>1. Fits(After(r))'
      BY <1>1, <2>1, <2>2, <2>3, <2>5, AfterFits DEF VibeRestored
    <3>. QED
      BY <1>1, <1>6, <2>1, <2>2, <2>5, <3>1, ContinueFits
  <2>6. CASE vibe[v] # NoVibe /\ Continue(j, [r EXCEPT !.at = "saveVibe", !.copy = vibe[v]])
    <3>1. PICK n : n = [r EXCEPT !.at = "saveVibe", !.copy = vibe[v]]
      OBVIOUS
    <3>2. /\ n.kind = "reset" /\ n.pct = 0 /\ n.alone = r.alone /\ n.all = r.all /\ n.left = r.left
          /\ n.at = "saveVibe" /\ n.copy = vibe[v]
      BY <1>1, <1>2, <3>1 DEF JobRecord
    <3>3. Fits(n)'
      BY <1>1, <2>1, <2>2, <2>6, <3>2
         DEF Fits, Progress, Walks, CrowdSteps, VibeSteps, ClearSteps, Demo, Walking, CrowdRestored,
             VibeRestored
    <3>. QED
      BY <1>1, <2>2, <2>6, <3>1, <3>2, <3>3, ContinueFits
  <2>. QED
    BY <2>4, <2>5, <2>6
<1>10. ASSUME SaveVibe(j) PROVE ResetInv'
  <2>1. r.at = "saveVibe" /\ r.at \in VibeSteps /\ r.at \notin CrowdSteps /\ home # NoRow
        /\ r.copy # NoVibe
    BY <1>1, <1>10 DEF SaveVibe, Running, CrowdSteps, VibeSteps, Fits, Walks, Demo, Walking
  <2>2. UNCHANGED <<boot, home, crowd, renamed>>
    BY <1>10 DEF SaveVibe
  <2>3. PICK v \in Venues : v = Min(r.left) /\ v = Venue(j)
    BY <1>5, <2>1
  <2>4. PICK row : row = [r.copy EXCEPT !.seeded = r.kind = "reset"] /\ row.seeded
    <3>1. r.copy \in VibeRow
      BY <1>1, <2>1 DEF JobOK, MaybeVibe
    <3>2. PICK b, s, c : r.copy = [seeded |-> b, score |-> s, count |-> c]
      BY <3>1 DEF VibeRow
    <3>3. PICK row : row = [r.copy EXCEPT !.seeded = r.kind = "reset"]
      OBVIOUS
    <3>4. row.seeded = (r.kind = "reset")
      BY <3>2, <3>3
    <3>5. row.seeded
      BY <1>1, <3>4
    <3>. QED
      BY <3>3, <3>5
  <2>5. vibe' = [vibe EXCEPT ![v] = row] /\ Continue(j, After(r))
    <3>1. ~(r.pct >= 80)
      BY <1>2
    <3>. QED
      BY <1>1, <1>10, <2>1, <2>3, <2>4, <3>1 DEF SaveVibe
  <2>6. \A u \in Venues : u # v => vibe'[u] = vibe[u]
    BY <1>2, <2>5
  <2>7. VibeRestored(v)'
    BY <1>2, <2>4, <2>5 DEF VibeRestored
  <2>8. Fits(After(r))'
    BY <1>1, <2>1, <2>2, <2>3, <2>6, <2>7, AfterFits
  <2>. QED
    BY <1>1, <1>6, <2>1, <2>2, <2>5, <2>8, ContinueFits
<1>11. ASSUME ClearRedemptions(j) \/ ResetOffers(j) \/ ClearNotifications(j) PROVE ResetInv'
  <2>1. UNCHANGED <<boot, home, crowd, vibe, renamed>>
    BY <1>11 DEF ClearRedemptions, ResetOffers, ClearNotifications, histories
  <2>2. PICK at, n :
          /\ \/ r.at = "redemptions" /\ at = "offers" /\ redeemed' = 0
             \/ r.at = "offers" /\ at = "notices" /\ redeemed' = redeemed /\ places' \in {NoRow, 0}
             \/ r.at = "notices" /\ at = "analytics" /\ UNCHANGED <<redeemed, places>>
          /\ n = [r EXCEPT !.at = at] /\ Continue(j, n)
    BY <1>1, <1>11 DEF ClearRedemptions, ResetOffers, ClearNotifications, Running
  <2>3. n.kind = "reset" /\ n.pct = 0 /\ n.alone = r.alone /\ n.at = at
    BY <1>1, <1>2, <2>2 DEF JobRecord
  <2>4. r.at \in ClearSteps /\ n.at \in ClearSteps \ {"redemptions"} /\ ~Walks(n)
        /\ n.at \notin CrowdSteps \cup VibeSteps \cup {"saveVibe"}
    BY <2>2, <2>3 DEF ClearSteps, Walks, Walking, CrowdSteps, VibeSteps
  <2>5. r.alone => Progress(n)'
    <3>1. r.alone => \A u \in Venues \ renamed : CrowdRestored(u)' /\ VibeRestored(u)'
      BY <1>1, <2>1, <2>4 DEF Fits, Progress, CrowdRestored, VibeRestored
    <3>2. r.alone => redeemed' = 0 /\ (n.at \in {"notices", "analytics"} => places' \in {NoRow, 0})
      BY <1>1, <2>2, <2>3 DEF Fits, Progress, ClearSteps
    <3>. QED
      BY <2>1, <2>4, <3>1, <3>2 DEF Progress
  <2>6. Fits(n)'
    BY <2>3, <2>4, <2>5 DEF Fits
  <2>. QED
    BY <1>1, <2>1, <2>2, <2>3, <2>6, ContinueFits
<1>12. ASSUME ClearAnalytics(j) PROVE ResetInv'
  BY <1>1, <1>12, StopFits DEF ClearAnalytics
<1>13. ASSUME SaveCity(j) PROVE ResetInv'
  BY <1>1, <1>13 DEF SaveCity, Fits, CrowdSteps, VibeSteps, ClearSteps
<1>14. ~(triggerVibeAlert(j) \/ FindVibe(j) \/ submitVibeCheck(j) \/ MarkRedeemed(j) \/ TakePlace(j)
         \/ FindCity(j))
  BY <1>1 DEF triggerVibeAlert, FindVibe, submitVibeCheck, MarkRedeemed, TakePlace, FindCity, Running
<1>. QED
  BY <1>3, <1>4, <1>7, <1>8, <1>9, <1>10, <1>11, <1>12, <1>13, <1>14 DEF Handle

\* Each call of another request: a reset that runs beside it is not alone.
LEMMA OtherHandles ==
    ASSUME DemoAssumption, ResetInv, WholeInv', NEW j \in Jobs, job[j].kind # "reset", Handle(j)
    PROVE  ResetInv'
<1>1. PICK r : r = job[j] /\ JobOK(r) /\ JobRecord(r) /\ r.kind # "reset"
  BY JobFits DEF JobOK
<1>2. Idle.kind = "none" /\ Idle.at = "idle"
  BY DEF Idle
<1>3. ASSUME NEW n, Continue(j, n), r # Idle, Walks(r), n = Idle \/ (n.kind = r.kind /\ n.alone = r.alone),
             UNCHANGED <<boot, home>>
      PROVE  ResetInv'
  BY <1>1, <1>3, OtherFits
<1>4. ASSUME NEW n, Continue(j, n), r # Idle, n = Idle \/ (n.kind = r.kind /\ n.alone = r.alone),
             Walks(n) => home # NoRow, UNCHANGED <<boot, home, crowd, vibe>>
      PROVE  ResetInv'
  BY <1>1, <1>4, OtherFits
<1>5. ~Walks(Idle)
  BY <1>2 DEF Walks, Demo
<1>6. ASSUME NEW n, n = After(r)
      PROVE  n = Idle \/ (n.kind = r.kind /\ n.alone = r.alone)
  BY <1>1, <1>6, AfterOther
<1>7. ASSUME JobFails(j) PROVE ResetInv'
  BY <1>1, <1>4, <1>5, <1>7 DEF JobFails, database
<1>8. ASSUME ReadVenues(j) PROVE ResetInv'
  <2>1. PICK found : found = (IF home = NoRow THEN {} ELSE Venues \ renamed)
    OBVIOUS
  <2>2. PICK m : m = [r EXCEPT !.all = found, !.left = found]
    OBVIOUS
  <2>3. PICK n : /\ Continue(j, n)
                 /\ n = IF found # {} THEN [m EXCEPT !.at = "readCrowd"]
                        ELSE IF m.kind = "reset" THEN [m EXCEPT !.at = "redemptions"]
                        ELSE IF Len(m.hours) > 1 THEN [m EXCEPT !.hours = Tail(@)] ELSE Idle
    BY <1>1, <1>8, <2>1, <2>2 DEF ReadVenues
  <2>4. r.kind = "simulate" /\ r.at = "venues"
    BY <1>1, <1>8 DEF ReadVenues, Running, Demo
  <2>5. JobRecord(m) /\ m.kind = r.kind /\ m.at = "venues" /\ m.alone = r.alone
    BY <1>1, <2>2, <2>4 DEF JobRecord
  <2>6. n = Idle \/ (n.kind = r.kind /\ n.alone = r.alone /\ (n.at = "venues" \/ found # {}))
    BY <1>1, <2>3, <2>5 DEF JobRecord
  <2>7. Walks(n) => home # NoRow
    BY <1>5, <2>1, <2>4, <2>6 DEF Walks, Walking
  <2>. QED
    BY <1>2, <1>4, <1>8, <2>3, <2>4, <2>6, <2>7 DEF ReadVenues, database
<1>9. ASSUME ReadCrowd(j) PROVE ResetInv'
  <2>1. Walks(r) /\ r # Idle
    BY <1>1, <1>2, <1>9 DEF ReadCrowd, Running, Walks, Walking, Demo
  <2>2. PICK had, pct : Continue(j, [r EXCEPT !.at = "saveCrowd", !.had = had, !.pct = pct])
    BY <1>1, <1>9 DEF ReadCrowd
  <2>3. PICK n : n = [r EXCEPT !.at = "saveCrowd", !.had = had, !.pct = pct]
    OBVIOUS
  <2>4. n.kind = r.kind /\ n.alone = r.alone
    BY <1>1, <2>3 DEF JobRecord
  <2>. QED
    BY <1>3, <1>9, <2>1, <2>2, <2>3, <2>4 DEF ReadCrowd, database
<1>10. ASSUME SaveCrowd(j) PROVE ResetInv'
  <2>1. Walks(r) /\ r # Idle
    BY <1>1, <1>2, <1>10 DEF SaveCrowd, Running, Walks, Walking, Demo
  <2>2. PICK n : Continue(j, n) /\ (n = Idle \/ n = [r EXCEPT !.at = "readVibe"])
    BY <1>1, <1>10 DEF SaveCrowd
  <2>3. n = Idle \/ (n.kind = r.kind /\ n.alone = r.alone)
    BY <1>1, <2>2 DEF JobRecord
  <2>. QED
    BY <1>3, <1>10, <2>1, <2>2, <2>3 DEF SaveCrowd
<1>11. ASSUME ReadVibe(j) PROVE ResetInv'
  <2>1. Walks(r) /\ r # Idle
    BY <1>1, <1>2, <1>11 DEF ReadVibe, Running, Walks, Walking, Demo
  <2>2. PICK n : Continue(j, n) /\ n = [r EXCEPT !.at = "saveVibe", !.copy = vibe[Venue(j)]]
    BY <1>1, <1>11 DEF ReadVibe
  <2>3. n.kind = r.kind /\ n.alone = r.alone
    BY <1>1, <2>2 DEF JobRecord
  <2>. QED
    BY <1>3, <1>11, <2>1, <2>2, <2>3 DEF ReadVibe, database
<1>12. ASSUME SaveVibe(j) PROVE ResetInv'
  <2>1. Walks(r) /\ r # Idle
    BY <1>1, <1>2, <1>12 DEF SaveVibe, Running, Walks, Walking, Demo
  <2>2. PICK n : Continue(j, n) /\ (n = Idle \/ n = After(r) \/ n = [r EXCEPT !.at = "alert"])
    BY <1>1, <1>12 DEF SaveVibe
  <2>3. n = Idle \/ (n.kind = r.kind /\ n.alone = r.alone)
    BY <1>1, <1>6, <2>2 DEF JobRecord
  <2>. QED
    BY <1>3, <1>12, <2>1, <2>2, <2>3 DEF SaveVibe
<1>13. ASSUME triggerVibeAlert(j) PROVE ResetInv'
  <2>1. Walks(r) /\ r # Idle
    BY <1>1, <1>2, <1>13 DEF triggerVibeAlert, Running, Walks, Walking, Demo
  <2>. QED
    BY <1>1, <1>3, <1>6, <1>13, <2>1 DEF triggerVibeAlert
<1>14. ASSUME FindVibe(j) \/ submitVibeCheck(j) PROVE ResetInv'
  <2>1. Walks(r) /\ r # Idle
    BY <1>1, <1>2, <1>14 DEF FindVibe, submitVibeCheck, Running, Walks
  <2>2. PICK n : /\ Continue(j, n)
                 /\ n = Idle \/ n = [r EXCEPT !.at = "saveVibe", !.copy = vibe[Venue(j)]]
    BY <1>1, <1>14 DEF FindVibe, submitVibeCheck
  <2>3. n = Idle \/ (n.kind = r.kind /\ n.alone = r.alone)
    BY <1>1, <2>2 DEF JobRecord
  <2>4. UNCHANGED <<boot, home>>
    BY <1>14 DEF FindVibe, submitVibeCheck, database
  <2>. QED
    BY <1>3, <2>1, <2>2, <2>3, <2>4
<1>15. ASSUME MarkRedeemed(j) \/ TakePlace(j) PROVE ResetInv'
  <2>1. r.kind = "redeem" /\ r # Idle
    BY <1>1, <1>2, <1>15 DEF MarkRedeemed, TakePlace, Running
  <2>2. PICK n : Continue(j, n) /\ (n = Idle \/ n = [r EXCEPT !.at = "place"])
    BY <1>1, <1>15 DEF MarkRedeemed, TakePlace
  <2>3. n = Idle \/ (n.kind = r.kind /\ n.alone = r.alone)
    BY <1>1, <2>2 DEF JobRecord
  <2>4. ~Walks(n)
    BY <1>5, <2>1, <2>3 DEF Walks, Demo
  <2>. QED
    BY <1>4, <1>15, <2>1, <2>2, <2>3, <2>4 DEF MarkRedeemed, TakePlace
<1>16. ASSUME FindCity(j) PROVE ResetInv'
  <2>1. r.kind \in {"createCity", "updateCity", "deleteCity"} /\ r # Idle
    BY <1>1, <1>2, <1>16 DEF FindCity, Running
  <2>2. PICK n : /\ Continue(j, n)
                 /\ \/ n = Idle \/ n = [r EXCEPT !.at = "saveCity"]
                    \/ \E new : n = [r EXCEPT !.at = "saveCity", !.row = new]
    BY <1>1, <1>16 DEF FindCity
  <2>3. n = Idle \/ (n.kind = r.kind /\ n.alone = r.alone)
    <3>1. ASSUME NEW new, n = [r EXCEPT !.at = "saveCity", !.row = new]
          PROVE  n.kind = r.kind /\ n.alone = r.alone
      BY <1>1, <3>1 DEF JobRecord
    <3>2. CASE n = [r EXCEPT !.at = "saveCity"]
      BY <1>1, <3>2 DEF JobRecord
    <3>. QED
      BY <2>2, <3>1, <3>2
  <2>4. ~Walks(n)
    BY <1>5, <2>1, <2>3 DEF Walks, Demo
  <2>. QED
    BY <1>4, <1>16, <2>1, <2>2, <2>3, <2>4 DEF FindCity, database
<1>17. ASSUME SaveCity(j) PROVE ResetInv'
  BY <1>1, <1>2, <1>4, <1>5, <1>17 DEF SaveCity
<1>18. ~(ClearRedemptions(j) \/ ResetOffers(j) \/ ClearNotifications(j) \/ ClearAnalytics(j))
  BY <1>1 DEF ClearRedemptions, ResetOffers, ClearNotifications, ClearAnalytics, Running
<1>. QED
  BY <1>7, <1>8, <1>9, <1>10, <1>11, <1>12, <1>13, <1>14, <1>15, <1>16, <1>17, <1>18 DEF Handle

\* A request comes in: no other runs alone any more.
LEMMA StartFits ==
    ASSUME ResetInv, WholeInv', NEW j \in Jobs, NEW request, JobRecord(request), Start(j, request),
           request.kind = "reset" => request.at = "venues" /\ request.pct = 0,
           Walks(request) => home # NoRow
    PROVE  ResetInv'
<1>1. UNCHANGED <<boot, home, crowd, vibe, renamed, redeemed, places>>
  BY DEF Start, database
<1>2. PICK begun : begun = [request EXCEPT !.alone = \A i \in Jobs : job[i] = Idle]
  OBVIOUS
<1>3. job' = [k \in Jobs |-> IF k = j THEN begun
                             ELSE IF job[k] = Idle THEN Idle ELSE [job[k] EXCEPT !.alone = FALSE]]
  BY <1>2 DEF Start
<1>4. /\ begun.kind = request.kind /\ begun.at = request.at /\ begun.pct = request.pct
      /\ begun.alone = (\A i \in Jobs : job[i] = Idle)
  BY <1>2 DEF JobRecord
<1>5. Fits(begun)'
  <2>1. Walks(begun) => Walks(request)
    BY <1>4 DEF Walks
  <2>. QED
    BY <1>1, <1>4, <2>1 DEF Fits, Progress, Walks, CrowdSteps, VibeSteps, ClearSteps
<1>6. ~Idle.alone
  BY DEF Idle
<1>7. ASSUME NEW k \in Jobs, k # j
      PROVE  ~job'[k].alone /\ Fits(job[k])' /\ (job[k] = Idle => job'[k] = Idle)
  <2>1. CASE job[k] = Idle
    BY <1>3, <1>6, <1>7, <2>1, IdleFits
  <2>2. CASE job[k] # Idle
    <3>1. PICK r, n : r = job[k] /\ n = [r EXCEPT !.alone = FALSE] /\ JobRecord(r) /\ Fits(r)
                      /\ job'[k] = n
      BY <1>3, <1>7, <2>2, JobFits DEF JobOK
    <3>2. /\ n.kind = r.kind /\ n.at = r.at /\ n.pct = r.pct /\ n.copy = r.copy
          /\ ~n.alone
      BY <3>1 DEF JobRecord
    <3>. QED
      BY <1>1, <2>2, <3>1, <3>2 DEF Fits, Walks
  <2>. QED
    BY <2>1, <2>2
<1>8. \A i, k \in Jobs : job'[i].alone /\ k # i => job'[k] = Idle
  BY <1>3, <1>4, <1>7
<1>9. \A k \in Jobs : Fits(job[k])'
  BY <1>3, <1>5, <1>7
<1>. QED
  BY <1>1, <1>8, <1>9 DEF ResetInv

\* So it is for each of the endpoints.
LEMMA RequestFits ==
    ASSUME ResetInv, WholeInv', NEW j \in Jobs, Request(j)
    PROVE  ResetInv'
<1>1. JobRecord(Idle)
  BY DEF JobRecord, Idle
<1>2. ASSUME NEW hours, Start(j, [Idle EXCEPT !.kind = "simulate", !.at = "venues", !.hours = hours])
      PROVE  ResetInv'
  <2>1. PICK r : r = [Idle EXCEPT !.kind = "simulate", !.at = "venues", !.hours = hours]
    OBVIOUS
  <2>2. JobRecord(r) /\ r.kind = "simulate" /\ r.at = "venues"
    BY <1>1, <2>1 DEF JobRecord
  <2>. QED
    BY <1>2, <2>1, <2>2, StartFits DEF Walks, Walking
<1>3. ASSUME StartReset(j)
      PROVE  ResetInv'
  <2>1. PICK r : r = [Idle EXCEPT !.kind = "reset", !.at = "venues"]
    OBVIOUS
  <2>2. JobRecord(r) /\ r.kind = "reset" /\ r.at = "venues" /\ r.pct = 0
    BY <1>1, <2>1 DEF JobRecord, Idle
  <2>. QED
    BY <1>3, <2>1, <2>2, StartFits DEF Walks, Walking, StartReset
<1>4. ASSUME NEW v, NEW s, home # NoRow,
             Start(j, [Idle EXCEPT !.kind = "check", !.at = "find", !.left = {v}, !.score = s])
      PROVE  ResetInv'
  <2>1. PICK r : r = [Idle EXCEPT !.kind = "check", !.at = "find", !.left = {v}, !.score = s]
    OBVIOUS
  <2>2. JobRecord(r) /\ r.kind = "check"
    BY <1>1, <2>1 DEF JobRecord
  <2>. QED
    BY <1>4, <2>1, <2>2, StartFits
<1>5. ASSUME StartRedeem(j)
      PROVE  ResetInv'
  <2>1. PICK r : r = [Idle EXCEPT !.kind = "redeem", !.at = "mark"]
    OBVIOUS
  <2>2. JobRecord(r) /\ r.kind = "redeem"
    BY <1>1, <2>1 DEF JobRecord
  <2>. QED
    BY <1>5, <2>1, <2>2, StartFits DEF Walks, Demo, StartRedeem
<1>6. ASSUME NEW row, Start(j, [Idle EXCEPT !.kind = "createCity", !.at = "find", !.row = row])
      PROVE  ResetInv'
  <2>1. PICK r : r = [Idle EXCEPT !.kind = "createCity", !.at = "find", !.row = row]
    OBVIOUS
  <2>2. JobRecord(r) /\ r.kind = "createCity"
    BY <1>1, <2>1 DEF JobRecord
  <2>. QED
    BY <1>6, <2>1, <2>2, StartFits DEF Walks, Demo
<1>7. ASSUME NEW c, NEW kind \in Editing,
             Start(j, [Idle EXCEPT !.kind = kind, !.at = "find", !.id = c])
      PROVE  ResetInv'
  <2>1. PICK r : r = [Idle EXCEPT !.kind = kind, !.at = "find", !.id = c]
    OBVIOUS
  <2>2. JobRecord(r) /\ r.kind = kind
    BY <1>1, <2>1 DEF JobRecord
  <2>. QED
    BY <1>7, <2>1, <2>2, StartFits DEF Walks, Demo, Editing
<1>. QED
  BY <1>2, <1>3, <1>4, <1>5, <1>6, <1>7
     DEF Request, StartSimulate, StartCheck, StartCreateCity, StartEditCity, Editing

\* While no request is being worked on, only the rows matter.
LEMMA QuietFits ==
    ASSUME WholeInv', \A k \in Jobs : job'[k] = Idle,
           home' = NoRow => \A v \in Venues : crowd'[v] = NoRow /\ vibe'[v] = NoVibe
    PROVE  ResetInv'
<1>1. ~Idle.alone
  BY DEF Idle
<1>. QED
  BY <1>1, IdleFits DEF ResetInv

\* Without requests there is nothing to restore, but rows come only after the venues.
LEMMA BootFits ==
    ASSUME DemoAssumption, ResetInv, WholeInv', Boot \/ SeedFails \/ Restart
    PROVE  ResetInv'
<1>1. \A k \in Jobs : job'[k] = Idle
  <2>1. CASE Boot \/ SeedFails
    BY <2>1, BootKnown DEF ResetInv, WholeInv, WholeTypes, ScoreInv, ScoreTypes
  <2>2. CASE Restart
    BY <2>2 DEF Restart
  <2>. QED
    BY <2>1, <2>2
<1>2. home = NoRow => \A v \in Venues : crowd[v] = NoRow /\ vibe[v] = NoVibe
  BY DEF ResetInv
<1>3. CASE UNCHANGED <<home, crowd, vibe>>
  BY <1>1, <1>2, <1>3, QuietFits
<1>4. CASE BackfillVenueCityIds
  <2>1. home' = home \/ home' \in CityIds
    BY <1>4 DEF BackfillVenueCityIds
  <2>. QED
    BY <1>1, <1>2, <1>4, <2>1, QuietFits DEF BackfillVenueCityIds, CityIds, NoRow
<1>5. CASE SeedVenues
  <2>1. boot'.at \in Late
    BY <1>5 DEF SeedVenues, Reach, ResetInv, WholeInv, WholeTypes, ScoreInv, ScoreTypes, Late
  <2>2. home' # NoRow
    BY <2>1 DEF WholeInv, HomeKnown, CityIds, NoRow
  <2>. QED
    BY <1>1, <2>2, QuietFits
<1>6. CASE SeedBusyness \/ SeedVibes
  <2>1. boot.at \in Late /\ home' = home
    BY <1>6 DEF SeedBusyness, SeedVibes, Late
  <2>2. home' # NoRow
    BY <2>1 DEF ResetInv, WholeInv, HomeKnown, CityIds, NoRow
  <2>. QED
    BY <1>1, <2>2, QuietFits
<1>. QED
  BY <1>3, <1>4, <1>5, <1>6
     DEF Boot, CountVenues, Retry, SeedCities, SeedTags, SeedAdminUser, SeedDemoUser, SeedUser,
         SeedOffers, SeedNotifications, SeedAnalytics, SeedBusinessUsers, SeedFails, Restart, database

\* An owner who renames a venue leaves no reset alone.
LEMMA OthersFit ==
    ASSUME ResetInv, WholeInv', Migrate \/ (\E v \in Venues : RenameVenue(v)) \/ UNCHANGED city
    PROVE  ResetInv'
<1>1. CASE Migrate
  <2>1. \A k \in Jobs : job'[k] = Idle
    BY <1>1, JobFits DEF Migrate, Requests
  <2>. QED
    BY <1>1, <2>1, QuietFits DEF Migrate, ResetInv
<1>2. CASE \E v \in Venues : RenameVenue(v)
  <2>1. /\ job' = [k \in Jobs |-> [job[k] EXCEPT !.alone = FALSE]]
        /\ UNCHANGED <<home, crowd, vibe>>
    BY <1>2 DEF RenameVenue
  <2>2. ASSUME NEW k \in Jobs
        PROVE  Fits(job[k])' /\ ~job'[k].alone
    <3>1. PICK r, n : r = job[k] /\ n = [r EXCEPT !.alone = FALSE] /\ JobRecord(r) /\ Fits(r)
                      /\ job'[k] = n
      BY <2>1, JobFits DEF JobOK
    <3>2. /\ n.kind = r.kind /\ n.at = r.at /\ n.pct = r.pct /\ n.copy = r.copy
          /\ ~n.alone
      BY <3>1 DEF JobRecord
    <3>. QED
      BY <2>1, <3>1, <3>2 DEF Fits, Walks
  <2>. QED
    BY <2>1, <2>2 DEF ResetInv
<1>3. CASE UNCHANGED city
  <2>1. UNCHANGED <<home, crowd, vibe, renamed, redeemed, places, job>>
    BY <1>3 DEF city, database
  <2>. QED
    BY <2>1 DEF ResetInv, Fits, Progress, CrowdRestored, VibeRestored
<1>. QED
  BY <1>1, <1>2, <1>3

LEMMA InitReset == DemoAssumption /\ CityInit => ResetInv
<1>1. SUFFICES ASSUME DemoAssumption, CityInit PROVE ResetInv
  OBVIOUS
<1>2. (\A k \in Jobs : job[k] = Idle) /\ ~Idle.alone
  BY <1>1 DEF CityInit, Idle
<1>3. home = NoRow => \A v \in Venues : crowd[v] = NoRow /\ vibe[v] = NoVibe
  BY <1>1 DEF CityInit, NoRow, Unlinked
<1>. QED
  BY <1>1, <1>2, <1>3, InitWhole, IdleFits DEF ResetInv

LEMMA NextReset == DemoAssumption /\ ResetInv /\ [CityNext]_city => ResetInv'
<1>1. SUFFICES ASSUME DemoAssumption, ResetInv, [CityNext]_city PROVE ResetInv'
  OBVIOUS
<1>2. WholeInv'
  BY <1>1, NextWhole DEF ResetInv
<1>3. CASE Boot \/ SeedFails \/ Restart
  BY <1>1, <1>2, <1>3, BootFits
<1>4. CASE Migrate \/ (\E v \in Venues : RenameVenue(v)) \/ UNCHANGED city
  BY <1>1, <1>2, <1>4, OthersFit
<1>5. ASSUME NEW j \in Jobs, Request(j) \/ Handle(j)
      PROVE  ResetInv'
  BY <1>1, <1>2, <1>5, RequestFits, ResetHandles, OtherHandles
<1>. QED
  BY <1>1, <1>3, <1>4, <1>5 DEF CityNext

(* A reset beside which nothing else ran restores the demo, whatever the    *)
(* time machine, the users and the owners did before it, and whatever the   *)
(* boots had left out (resetDemo).                                          *)
THEOREM ResetsRestore == CitySpec => ResetRestores
<1>1. ResetInv /\ [CityNext]_city
        => [\A j \in Jobs :
              job[j].kind = "reset" /\ job[j].at = "analytics" /\ job[j].alone /\ ClearAnalytics(j) =>
                /\ \A v \in Venues \ renamed :
                     crowd[v] \in {NoRow, VENUE_BUSYNESS[v]} /\ (vibe[v] # NoVibe => vibe[v].seeded)
                /\ redeemed = 0 /\ places \in {NoRow, 0}]_city
  <2>1. SUFFICES ASSUME ResetInv, NEW j \in Jobs, job[j].kind = "reset", job[j].at = "analytics",
                        job[j].alone
                 PROVE  /\ \A v \in Venues \ renamed :
                             crowd[v] \in {NoRow, VENUE_BUSYNESS[v]} /\ (vibe[v] # NoVibe => vibe[v].seeded)
                        /\ redeemed = 0 /\ places \in {NoRow, 0}
    OBVIOUS
  <2>2. Progress(job[j])
    BY <2>1 DEF ResetInv, Fits
  <2>. QED
    BY <2>1, <2>2 DEF Progress, ClearSteps, CrowdRestored, VibeRestored
<1>. QED
  BY <1>1, DemoAssumption, InitReset, NextReset, PTL DEF CitySpec, ResetRestores

================================================================================
