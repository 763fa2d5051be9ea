------------------------------- MODULE DemoCity -------------------------------
(***************************************************************************)
(* The city the server starts with and the demo shows: SeedService, which  *)
(* fills an empty database when the process boots and tops up the cities   *)
(* of a full one; the demo's time machine and its reset; and the vibe      *)
(* checks, redemptions and city edits that go on meanwhile.  A boot and a  *)
(* request are rows of calls to the database, each an action; any call may *)
(* fail and the process may be restarted between any two (ecosystem.config *)
(* restarts it when it dies and when it outgrows its memory).              *)
(***************************************************************************)
EXTENDS Integers, Sequences, FiniteSets, FiniteSetsExt

CONSTANTS
    Venues,      \* the seeded venues, by their index in seed-data.ts
    Jobs,        \* the requests the server can work on at once
    Followed,    \* the venues the demo user has saved
    Scenarios,   \* the scenarios the demo is asked for
    Hours,       \* the hours it is asked for, of 0 .. 23
    Scores,      \* the vibe checks users submit, of 1 .. 5
    Kinds,       \* the endpoints in use
    MaxJobs,     \* bound: requests started
    MaxStops     \* bound: failed calls and restarts

ASSUME DemoAssumption ==
    /\ Venues \subseteq 0 .. 14 /\ Followed \subseteq Venues
    /\ Scores \subseteq 1 .. 5 /\ Hours \subseteq 0 .. 23
    /\ MaxJobs \in Nat /\ MaxStops \in Nat

VARIABLES
    boot,       \* how far the process has come, and with which attempt
    schema,     \* whether the migrations have been run
    cities,     \* the cities rows
    home,       \* the cityId of the venues
    tags,       \* how often the tags have been inserted
    users,      \* the seeded users, and "accounts" for the business users
    owned,      \* whether the venues have their owners
    crowd,      \* the percentage of each busyness row
    vibe,       \* the vibe rows
    places,     \* redemptionCount of the seeded offer
    redeemed,   \* the redemptions rows
    notices,    \* the notifications rows, by origin
    analytics,  \* whether the seeded analytics are there
    renamed,    \* the venues whose owner has renamed them
    job,        \* what each request is about to do, and what it has read
    started, stops,
    broke,      \* history: where a boot has been cut off, or given up
    wiped,      \* history: what a reset has cleared
    checks,     \* history: what the vibe checks of each venue come to
    crossed     \* history: the vibe rows saved while another request held a copy

database == <<schema, cities, home, tags, users, owned, crowd, vibe, places, redeemed,
              notices, analytics, renamed>>
histories == <<broke, wiped, checks, crossed>>
city == <<boot, database, job, started, stops, histories>>

NoRow == -1        \* of home: there are no venues yet
Unlinked == 0
CityIds == 1 .. 3
Names == {"manchester", "leeds"}

\* The order of the calls of seed(), after the count of the venues.
SeedSteps == <<"count", "cities", "tags", "admin", "demoUser", "venues", "busyness", "vibes",
               "offers", "notices", "analytics", "accounts", "owners">>
Rank == [s \in {SeedSteps[i] : i \in 1 .. 13} |-> CHOOSE i \in 1 .. 13 : SeedSteps[i] = s]
BootSteps == DOMAIN Rank \cup {"waiting", "topUp", "backfill"}

VENUE_BUSYNESS == [v \in Venues |->
    <<88, 92, 55, 60, 78, 45, 20, 50, 58, 30, 80, 65, 28, 15, 22>>[v + 1]]

\* vibeCheckScore in tenths, and responseCount.
VENUE_VIBES == [v \in Venues |->
    [seeded |-> TRUE,
     score |-> <<48, 49, 47, 45, 48, 44, 43, 45, 46, 45, 42, 45, 44, 42, 43>>[v + 1],
     count |-> <<142, 320, 98, 112, 205, 87, 56, 74, 91, 168, 134, 145, 63, 48, 72>>[v + 1]]]

NoVibe == [seeded |-> FALSE, score |-> 0, count |-> -1]
FreshVibe == [seeded |-> FALSE, score |-> 0, count |-> 0]
NoCity == [slug |-> "none", name |-> "none", active |-> FALSE]
NewCity(n) == [slug |-> n, name |-> n, active |-> TRUE]

\* all, left: the venues it found and those still to do; pct: what to set the venue
\* to; had, copy: the rows it has read; row: the cities row it is about to write;
\* alone: whether no other request has run beside it.
Idle == [kind |-> "none", at |-> "idle", hours |-> <<>>, all |-> {}, left |-> {}, pct |-> 0,
         had |-> FALSE, copy |-> NoVibe, score |-> 0, id |-> 0, row |-> NoCity,
         alone |-> FALSE]

CityTypeOK ==
    /\ boot \in [at : BootSteps \cup {"up"}, attempt : 1 .. 5]
    /\ schema \in BOOLEAN
    /\ \A c \in CityIds : {cities[c].slug, cities[c].name} \subseteq Names \cup {"none"}
    /\ home \in NoRow .. 3 /\ tags \in Nat
    /\ users \subseteq {"admin", "demo", "accounts"} /\ owned \in BOOLEAN
    /\ crowd \in [Venues -> NoRow .. 100]
    /\ \A v \in Venues : vibe[v].seeded \in BOOLEAN /\ vibe[v].score \in 0 .. 50
    /\ places \in NoRow .. MaxJobs /\ redeemed \in 0 .. MaxJobs
    /\ notices \in [seed : BOOLEAN, alerts : Nat]
    /\ analytics \in BOOLEAN /\ renamed \subseteq Venues
    /\ DOMAIN job = Jobs
    /\ started \in 0 .. MaxJobs /\ stops \in 0 .. MaxStops
    /\ broke \subseteq BootSteps /\ wiped \subseteq {"notices", "analytics", "redemptions"}

\* The database is new and without tables, or from before there were cities and
\* full: its venues are then of the city the migration has made for them, or of
\* one an administrator has yet to create.
CityInit ==
    \E old \in BOOLEAN, place \in {Unlinked, 1} :
        /\ ~old => place = 1
        /\ boot = [at |-> "count", attempt |-> 1]
        /\ schema = old
        /\ cities = [c \in CityIds |-> IF old /\ c = 1 THEN NewCity("manchester") ELSE NoCity]
        /\ home = IF old THEN place ELSE NoRow
        /\ tags = IF old THEN 1 ELSE 0
        /\ users = IF old THEN {"admin", "demo", "accounts"} ELSE {}
        /\ owned = old
        /\ crowd = [v \in Venues |-> IF old THEN VENUE_BUSYNESS[v] ELSE NoRow]
        /\ vibe = [v \in Venues |-> IF old THEN VENUE_VIBES[v] ELSE NoVibe]
        /\ places = IF old THEN 0 ELSE NoRow
        /\ redeemed = 0
        /\ notices = [seed |-> old, alerts |-> 0] /\ analytics = old
        /\ renamed = {}
        /\ job = [j \in Jobs |-> Idle]
        /\ started = 0 /\ stops = 0
        /\ broke = {} /\ wiped = {} /\ crossed = {}
        /\ checks = [v \in Venues |->
                        IF old THEN [n |-> VENUE_VIBES[v].count, slack |-> 0,
                                     sum |-> VENUE_VIBES[v].count * VENUE_VIBES[v].score]
                        ELSE [n |-> 0, slack |-> 0, sum |-> 0]]
-------------------------------------------------------------------------------
(* The boot: SeedService.onModuleInit, which the server waits for. *)

Serving == boot.at = "up"
Reach(step) == boot' = [boot EXCEPT !.at = step]
GiveUp == Reach("up") /\ broke' = broke \cup {boot.at}
Requests == <<job, started, stops>>
HasCity(slug) == \E c \in CityIds : cities[c].slug = slug
IdOf(slug) == CHOOSE c \in CityIds : cities[c].slug = slug
FreeIds == {c \in CityIds : cities[c] = NoCity}

\* npm run migration:run, by whoever deploys: one transaction, which also
\* inserts the supported cities.
Migrate ==
    /\ ~schema /\ schema' = TRUE
    /\ cities' = [cities EXCEPT ![1] = NewCity("manchester")]
    /\ UNCHANGED <<boot, home, tags, users, owned, crowd, vibe, places, redeemed, notices,
                   analytics, renamed, Requests, histories>>

\* Without tables the count fails with 42P01: five attempts, then the log.
CountVenues ==
    /\ boot.at = "count"
    /\ \/ /\ schema
          /\ Reach(IF home = NoRow THEN "cities" ELSE "topUp")
          /\ UNCHANGED broke
       \/ ~schema /\ boot.attempt < 5 /\ Reach("waiting") /\ UNCHANGED broke
       \/ ~schema /\ boot.attempt = 5 /\ GiveUp
    /\ UNCHANGED <<database, Requests, wiped, checks, crossed>>

Retry ==
    /\ boot.at = "waiting"
    /\ boot' = [at |-> "count", attempt |-> boot.attempt + 1]
    /\ UNCHANGED <<database, Requests, histories>>

SeedCities ==
    /\ boot.at \in {"cities", "topUp"}
    /\ IF HasCity("manchester") THEN UNCHANGED cities
       ELSE cities' = [cities EXCEPT ![Min(FreeIds)] = NewCity("manchester")]
    /\ Reach(IF boot.at = "cities" THEN "tags" ELSE "backfill")
    /\ UNCHANGED <<schema, home, tags, users, owned, crowd, vibe, places, redeemed, notices,
                   analytics, renamed, Requests, histories>>

\* tags.name is not unique: a seed that is run again inserts them again.
SeedTags ==
    /\ boot.at = "tags" /\ Reach("admin")
    /\ tags' = tags + 1
    /\ UNCHANGED <<schema, cities, home, users, owned, crowd, vibe, places, redeemed, notices,
                   analytics, renamed, Requests, histories>>

\* users.email is: a seed that is run again ends here.
SeedUser(step, user, next) ==
    /\ boot.at = step
    /\ \/ user \notin users /\ users' = users \cup {user} /\ Reach(next) /\ UNCHANGED broke
       \/ user \in users /\ UNCHANGED users /\ GiveUp
    /\ UNCHANGED <<schema, cities, home, tags, owned, crowd, vibe, places, redeemed, notices,
                   analytics, renamed, Requests, wiped, checks, crossed>>
SeedAdminUser == SeedUser("admin", "admin", "demoUser")
SeedDemoUser == SeedUser("demoUser", "demo", "venues")

SeedVenues ==
    /\ boot.at = "venues" /\ Reach("busyness")
    /\ home' = IdOf("manchester")
    /\ UNCHANGED <<schema, cities, tags, users, owned, crowd, vibe, places, redeemed, notices,
                   analytics, renamed, Requests, histories>>

SeedBusyness ==
    /\ boot.at = "busyness" /\ Reach("vibes")
    /\ crowd' = VENUE_BUSYNESS
    /\ UNCHANGED <<schema, cities, home, tags, users, owned, vibe, places, redeemed, notices,
                   analytics, renamed, Requests, histories>>

SeedVibes ==
    /\ boot.at = "vibes" /\ Reach("offers")
    /\ vibe' = VENUE_VIBES
    /\ checks' = [v \in Venues |-> [n |-> VENUE_VIBES[v].count, slack |-> 0,
                                    sum |-> VENUE_VIBES[v].count * VENUE_VIBES[v].score]]
    /\ UNCHANGED <<schema, cities, home, tags, users, owned, crowd, places, redeemed, notices,
                   analytics, renamed, Requests, broke, wiped, crossed>>

SeedOffers ==
    /\ boot.at = "offers" /\ Reach("notices")
    /\ places' = 0
    /\ UNCHANGED <<schema, cities, home, tags, users, owned, crowd, vibe, redeemed, notices,
                   analytics, renamed, Requests, histories>>

SeedNotifications ==
    /\ boot.at = "notices" /\ Reach("analytics")
    /\ notices' = [notices EXCEPT !.seed = TRUE]
    /\ UNCHANGED <<schema, cities, home, tags, users, owned, crowd, vibe, places, redeemed,
                   analytics, renamed, Requests, histories>>

SeedAnalytics ==
    /\ boot.at = "analytics" /\ Reach("accounts")
    /\ analytics' = TRUE
    /\ UNCHANGED <<schema, cities, home, tags, users, owned, crowd, vibe, places, redeemed,
                   notices, renamed, Requests, histories>>

\* Two saves: the accounts, then the venues with their owners.
SeedBusinessUsers ==
    /\ \/ /\ boot.at = "accounts" /\ Reach("owners")
          /\ users' = users \cup {"accounts"} /\ UNCHANGED owned
       \/ /\ boot.at = "owners" /\ Reach("up")
          /\ owned' = TRUE /\ UNCHANGED users
    /\ UNCHANGED <<schema, cities, home, tags, crowd, vibe, places, redeemed, notices, analytics,
                   renamed, Requests, histories>>

\* Mutant: looks the venues' city up under the name as the venue has it, not in
\* lower case as the map holds it.
BackfillByGivenName ==
    /\ boot.at = "backfill" /\ Reach("up")
    /\ LET found == {c \in CityIds : cities[c].active /\ cities[c].name = "Leeds"}
       IN  IF home = Unlinked /\ found # {} THEN home' \in found ELSE UNCHANGED home
    /\ UNCHANGED <<schema, cities, tags, users, owned, crowd, vibe, places, redeemed, notices,
                   analytics, renamed, Requests, histories>>

\* Venues without a city are those of Leeds; cityByName keeps one city of a name.
BackfillVenueCityIds ==
    /\ boot.at = "backfill" /\ Reach("up")
    /\ LET found == {c \in CityIds : cities[c].active /\ cities[c].name = "leeds"}
       IN  IF home = Unlinked /\ found # {} THEN home' \in found ELSE UNCHANGED home
    /\ UNCHANGED <<schema, cities, tags, users, owned, crowd, vibe, places, redeemed, notices,
                   analytics, renamed, Requests, histories>>

\* A call of the boot fails for another reason than a missing table.
SeedFails ==
    /\ boot.at \in BootSteps \ {"waiting"} /\ schema
    /\ stops < MaxStops /\ stops' = stops + 1
    /\ GiveUp
    /\ UNCHANGED <<database, job, started, wiped, checks, crossed>>

Restart ==
    /\ stops < MaxStops /\ stops' = stops + 1
    /\ boot' = [at |-> "count", attempt |-> 1]
    /\ broke' = broke \cup ({boot.at} \ {"up", "waiting", "count"})
    /\ job' = [j \in Jobs |-> Idle]
    /\ UNCHANGED <<database, started, wiped, checks, crossed>>
-------------------------------------------------------------------------------
(* Requests: each is a row of calls, and `job` holds what it has read. *)

\* venue index -> hour -> percentage, from 19 o'clock on; the night goes on past 23.
SATURDAY_NIGHT_TIMELINE ==
    LET night == << <<25, 50, 60, 85, 95>>, <<10, 15, 20, 55, 88, 95>>, <<40, 55, 65, 80, 85>>,
                    <<45, 60, 75, 85, 90>>, <<20, 45, 65, 82, 90>> >>
        Place(hour) == ((hour + 5) % 24) + 1
    IN  [v \in 0 .. 4 |-> [hour \in {h \in 0 .. 23 : Place(h) \in 1 .. Len(night[v + 1])} |->
                             night[v + 1][Place(hour)]]]
QUIET_AFTERNOON_TIMELINE ==
    [v \in {0, 2, 3, 7} |-> [hour \in {14} |-> CASE v = 0 -> 15 [] v = 2 -> 20 [] v = 3 -> 25
                                                 [] v = 7 -> 30]]

\* Drawn at random from a range, of which the two ends stand.
getDefaultStateForHour(hour) ==
    IF hour \in 6 .. 16 THEN {15, 29}
    ELSE IF hour \in 17 .. 19 THEN {35, 54}
    ELSE IF hour \in 20 .. 21 THEN {50, 69}
    ELSE {75, 94}

getVenueStateForHour(v, hour) ==
    LET timeline == IF v \in DOMAIN SATURDAY_NIGHT_TIMELINE /\ hour \in DOMAIN SATURDAY_NIGHT_TIMELINE[v]
                    THEN SATURDAY_NIGHT_TIMELINE ELSE QUIET_AFTERNOON_TIMELINE
    IN  IF v \in DOMAIN timeline /\ hour \in DOMAIN timeline[v] THEN {timeline[v][hour]}
        ELSE getDefaultStateForHour(hour)

\* The hours a scenario walks through.
runScenario(scenario) ==
    CASE scenario = "saturday-night" -> <<22>>
      [] scenario = "quiet-afternoon" -> <<14>>
      [] scenario = "quiet-evening" -> <<18>>
      [] scenario = "warming-up" -> <<20>>
      [] scenario = "peak-time" -> <<23>>
      [] scenario = "winding-down" -> <<1>>
      [] scenario = "peak-transition" -> <<19, 20, 21, 22>>
      [] OTHER -> <<>>

\* A request comes in; it and the others then no longer run alone.  Without tables
\* it fails at its first call, and leaves nothing.
Start(j, request) ==
    /\ Serving /\ schema /\ request.kind \in Kinds
    /\ job[j] = Idle
    /\ started < MaxJobs /\ started' = started + 1
    /\ job' = [k \in Jobs |->
                   IF k = j THEN [request EXCEPT !.alone = \A i \in Jobs : job[i] = Idle]
                   ELSE IF job[k] = Idle THEN Idle ELSE [job[k] EXCEPT !.alone = FALSE]]
    /\ UNCHANGED <<boot, database, stops, histories>>

StartSimulate(j) ==
    \E hours \in {runScenario(s) : s \in Scenarios} \cup {<<h>> : h \in Hours} :
        hours # <<>> /\ Start(j, [Idle EXCEPT !.kind = "simulate", !.at = "venues", !.hours = hours])
StartReset(j) == Start(j, [Idle EXCEPT !.kind = "reset", !.at = "venues"])
StartCheck(j) ==
    \E v \in Venues, s \in Scores :
        home # NoRow /\ Start(j, [Idle EXCEPT !.kind = "check", !.at = "find", !.left = {v}, !.score = s])
StartRedeem(j) ==
    places # NoRow /\ Start(j, [Idle EXCEPT !.kind = "redeem", !.at = "mark"])
StartCreateCity(j) ==
    \E n \in Names : Start(j, [Idle EXCEPT !.kind = "createCity", !.at = "find", !.row = NewCity(n)])
StartEditCity(j) ==
    \E c \in CityIds, kind \in {"updateCity", "deleteCity"} :
        Start(j, [Idle EXCEPT !.kind = kind, !.at = "find", !.id = c])

Continue(j, r) == job' = [job EXCEPT ![j] = r]
Running(j, kinds, step) == job[j].kind \in kinds /\ job[j].at = step
Venue(j) == Min(job[j].left)
Demo == {"simulate", "reset"}

\* Mutant: both loops of a reset use up one list of venues.
AfterOnce(r) ==
    LET rest == r.left \ {Min(r.left)}
        next == [r EXCEPT !.left = rest, !.had = FALSE, !.copy = NoVibe, !.pct = 0]
    IN  IF rest # {} THEN [next EXCEPT !.at = IF r.at \in {"readVibe", "saveVibe"} /\ r.kind = "reset"
                                             THEN "readVibe" ELSE "readCrowd"]
        ELSE IF r.kind = "reset" THEN [next EXCEPT !.at = "redemptions"]
        ELSE IF Len(r.hours) > 1 THEN [next EXCEPT !.at = "venues", !.hours = Tail(@), !.all = {}]
        ELSE Idle

\* What follows when the venue at hand is done with: the next one; the next hour of
\* the scenario, or its end; and in a reset the loop over the vibes after that over
\* the busyness, and the clearing after that.
After(r) ==
    LET rest == r.left \ {Min(r.left)}
        next == [r EXCEPT !.left = rest, !.had = FALSE, !.copy = NoVibe, !.pct = 0]
        inCrowd == r.kind = "simulate" \/ r.at \in {"readCrowd", "saveCrowd"}
    IN  IF rest # {} THEN [next EXCEPT !.at = IF inCrowd THEN "readCrowd" ELSE "readVibe"]
        ELSE IF r.kind = "reset"
        THEN IF inCrowd THEN [next EXCEPT !.at = "readVibe", !.left = r.all]
             ELSE [next EXCEPT !.at = "redemptions"]
        ELSE IF Len(r.hours) > 1 THEN [next EXCEPT !.at = "venues", !.hours = Tail(@), !.all = {}]
        ELSE Idle

\* simulateTime and resetDemo find the venues by their names.
ReadVenues(j) ==
    /\ Running(j, Demo, "venues")
    /\ LET found == IF home = NoRow THEN {} ELSE Venues \ renamed
           r == [job[j] EXCEPT !.all = found, !.left = found]
       IN  Continue(j, IF found # {} THEN [r EXCEPT !.at = "readCrowd"]
                       ELSE IF r.kind = "reset" THEN [r EXCEPT !.at = "redemptions"]
                       ELSE IF Len(r.hours) > 1 THEN [r EXCEPT !.hours = Tail(@)] ELSE Idle)
    /\ UNCHANGED <<boot, database, started, stops, histories>>

ReadCrowd(j) ==
    /\ Running(j, Demo, "readCrowd")
    /\ LET v == Venue(j)
           had == crowd[v] # NoRow
       IN  IF job[j].kind = "reset"
           THEN Continue(j, IF had THEN [job[j] EXCEPT !.at = "saveCrowd", !.had = TRUE]
                            ELSE After(job[j]))
           ELSE \E pct \in getVenueStateForHour(v, Head(job[j].hours)) :
                    Continue(j, [job[j] EXCEPT !.at = "saveCrowd", !.had = had, !.pct = pct])
    /\ UNCHANGED <<boot, database, started, stops, histories>>

\* venueId is unique: of two first rows for a venue the second is refused, and
\* with it the rest of the scenario.
SaveCrowd(j) ==
    /\ Running(j, Demo, "saveCrowd")
    /\ LET v == Venue(j)
       IN  IF job[j].had \/ crowd[v] = NoRow
           THEN /\ crowd' = [crowd EXCEPT ![v] = IF job[j].kind = "reset" THEN VENUE_BUSYNESS[v]
                                                  ELSE job[j].pct]
                /\ Continue(j, IF job[j].kind = "reset" THEN After(job[j])
                               ELSE [job[j] EXCEPT !.at = "readVibe"])
           ELSE UNCHANGED crowd /\ Continue(j, Idle)
    /\ UNCHANGED <<boot, schema, cities, home, tags, users, owned, vibe, places, redeemed, notices,
                   analytics, renamed, started, stops, histories>>

ReadVibe(j) ==
    /\ Running(j, Demo, "readVibe")
    /\ LET row == vibe[Venue(j)]
       IN  Continue(j, IF job[j].kind = "reset" /\ row = NoVibe THEN After(job[j])
                       ELSE [job[j] EXCEPT !.at = "saveVibe", !.copy = row])
    /\ UNCHANGED <<boot, database, started, stops, histories>>

\* Requests that have read the row of v and will write it.
Holders(v, j) == {k \in Jobs \ {j} : job[k].at = "saveVibe" /\ v \in job[k].left
                                       /\ Venue(k) = v /\ job[k].copy # NoVibe}

\* The tags are set, and the score and the count written back as they were read.
SaveVibe(j) ==
    /\ Running(j, Demo, "saveVibe")
    /\ LET v == Venue(j)
           copy == job[j].copy
       IN  IF copy # NoVibe \/ vibe[v] = NoVibe
           THEN /\ vibe' = [vibe EXCEPT ![v] =
                                IF copy = NoVibe THEN FreshVibe
                                ELSE [copy EXCEPT !.seeded = job[j].kind = "reset"]]
                /\ crossed' = IF Holders(v, j) # {} THEN crossed \cup {v} ELSE crossed
                /\ Continue(j, IF job[j].pct >= 80 THEN [job[j] EXCEPT !.at = "alert"]
                               ELSE After(job[j]))
           ELSE UNCHANGED <<vibe, crossed>> /\ Continue(j, Idle)
    /\ UNCHANGED <<boot, schema, cities, home, tags, users, owned, crowd, places, redeemed, notices,
                   analytics, renamed, started, stops, broke, wiped, checks>>

\* One notice for each user who has saved the venue: here the demo user.
triggerVibeAlert(j) ==
    /\ Running(j, {"simulate"}, "alert")
    /\ notices' = IF Venue(j) \in Followed /\ "demo" \in users
                  THEN [notices EXCEPT !.alerts = @ + 1] ELSE notices
    /\ Continue(j, After(job[j]))
    /\ UNCHANGED <<boot, schema, cities, home, tags, users, owned, crowd, vibe, places, redeemed,
                   analytics, renamed, started, stops, histories>>

\* The second half of resetDemo.
ClearRedemptions(j) ==
    /\ Running(j, {"reset"}, "redemptions")
    /\ redeemed' = 0 /\ Continue(j, [job[j] EXCEPT !.at = "offers"])
    /\ UNCHANGED <<boot, schema, cities, home, tags, users, owned, crowd, vibe, places, notices,
                   analytics, renamed, started, stops, histories>>
ResetOffers(j) ==
    /\ Running(j, {"reset"}, "offers")
    /\ places' = IF places = NoRow THEN NoRow ELSE 0
    /\ Continue(j, [job[j] EXCEPT !.at = "notices"])
    /\ UNCHANGED <<boot, schema, cities, home, tags, users, owned, crowd, vibe, redeemed, notices,
                   analytics, renamed, started, stops, histories>>
ClearNotifications(j) ==
    /\ Running(j, {"reset"}, "notices")
    /\ notices' = [seed |-> FALSE, alerts |-> 0] /\ wiped' = wiped \cup {"notices"}
    /\ Continue(j, [job[j] EXCEPT !.at = "analytics"])
    /\ UNCHANGED <<boot, schema, cities, home, tags, users, owned, crowd, vibe, places, redeemed,
                   analytics, renamed, started, stops, broke, checks, crossed>>
ClearAnalytics(j) ==
    /\ Running(j, {"reset"}, "analytics")
    /\ analytics' = FALSE /\ wiped' = wiped \cup {"analytics"}
    /\ Continue(j, Idle)
    /\ UNCHANGED <<boot, schema, cities, home, tags, users, owned, crowd, vibe, places, redeemed,
                   notices, renamed, started, stops, broke, checks, crossed>>
FindVibe(j) ==
    /\ Running(j, {"check"}, "find")
    /\ LET row == vibe[Venue(j)]
       IN  Continue(j, IF row = NoVibe THEN Idle ELSE [job[j] EXCEPT !.at = "saveVibe", !.copy = row])
    /\ UNCHANGED <<boot, database, started, stops, histories>>

\* Mutant: the score is cut off after one decimal.
AveragedDown(row, s) ==
    LET count == row.count + 1
    IN  [row EXCEPT !.score = (row.score * row.count + 10 * s) \div count, !.count = count]

\* The mean of all scores, rounded to one decimal (halves up) at every check.
Averaged(row, s) ==
    LET count == row.count + 1
        sum == row.score * row.count + 10 * s
    IN  [row EXCEPT !.score = (2 * sum + count) \div (2 * count), !.count = count]

submitVibeCheck(j) ==
    /\ Running(j, {"check"}, "saveVibe")
    /\ LET v == Venue(j)
       IN  /\ vibe' = [vibe EXCEPT ![v] = Averaged(job[j].copy, job[j].score)]
           /\ crossed' = IF Holders(v, j) # {} THEN crossed \cup {v} ELSE crossed
           /\ checks' = [checks EXCEPT ![v] =
                            [n |-> @.n + 1, sum |-> @.sum + 10 * job[j].score,
                             slack |-> @.slack + @.n + 1]]
    /\ Continue(j, Idle)
    /\ UNCHANGED <<boot, schema, cities, home, tags, users, owned, crowd, places, redeemed, notices,
                   analytics, renamed, started, stops, broke, wiped>>

\* A redemption leaves its row, and takes its place later.
MarkRedeemed(j) ==
    /\ Running(j, {"redeem"}, "mark")
    /\ redeemed' = redeemed + 1 /\ Continue(j, [job[j] EXCEPT !.at = "place"])
    /\ UNCHANGED <<boot, schema, cities, home, tags, users, owned, crowd, vibe, places, notices,
                   analytics, renamed, started, stops, histories>>
TakePlace(j) ==
    /\ Running(j, {"redeem"}, "place")
    /\ places' = places + 1 /\ Continue(j, Idle)
    /\ UNCHANGED <<boot, schema, cities, home, tags, users, owned, crowd, vibe, redeemed, notices,
                   analytics, renamed, started, stops, histories>>

\* createCity looks for the slug; updateCity and deleteCity read the row they edit.
FindCity(j) ==
    /\ Running(j, {"createCity", "updateCity", "deleteCity"}, "find")
    /\ LET r == job[j]
           row == cities[r.id]
       IN  IF r.kind = "createCity"
           THEN Continue(j, IF HasCity(r.row.slug) THEN Idle ELSE [r EXCEPT !.at = "saveCity"])
           ELSE IF row = NoCity THEN Continue(j, Idle)
           ELSE \E new \in {[row EXCEPT !.active = r.kind # "deleteCity"]} \cup
                           {[row EXCEPT !.slug = n] : n \in {m \in Names : r.kind # "deleteCity"}} :
                    Continue(j, [r EXCEPT !.at = "saveCity", !.row = new])
    /\ UNCHANGED <<boot, database, started, stops, histories>>

\* cities.slug is unique: a row that would repeat one is refused.
SaveCity(j) ==
    /\ job[j].at = "saveCity"
    /\ LET id == IF job[j].kind = "createCity" THEN Min(FreeIds) ELSE job[j].id
       IN  cities' = IF \E c \in CityIds \ {id} : cities[c].slug = job[j].row.slug THEN cities
                     ELSE [cities EXCEPT ![id] = job[j].row]
    /\ Continue(j, Idle)
    /\ UNCHANGED <<boot, schema, home, tags, users, owned, crowd, vibe, places, redeemed, notices,
                   analytics, renamed, started, stops, histories>>

\* The owner gives the venue another name (updateVenue of the business service).
RenameVenue(v) ==
    /\ Serving /\ "rename" \in Kinds /\ home # NoRow /\ owned
    /\ started < MaxJobs /\ started' = started + 1
    /\ renamed' = renamed \cup {v}
    /\ job' = [j \in Jobs |-> [job[j] EXCEPT !.alone = FALSE]]
    /\ UNCHANGED <<boot, schema, cities, home, tags, users, owned, crowd, vibe, places, redeemed,
                   notices, analytics, stops, histories>>

\* A call of a request fails: the request ends there, with what it has done.
JobFails(j) ==
    /\ job[j] # Idle /\ stops < MaxStops /\ stops' = stops + 1
    /\ Continue(j, Idle)
    /\ UNCHANGED <<boot, database, started, histories>>

Boot ==
    \/ CountVenues \/ Retry \/ SeedCities \/ SeedTags \/ SeedAdminUser \/ SeedDemoUser
    \/ SeedVenues \/ SeedBusyness \/ SeedVibes \/ SeedOffers \/ SeedNotifications
    \/ SeedAnalytics \/ SeedBusinessUsers \/ BackfillVenueCityIds

Request(j) ==
    \/ StartSimulate(j) \/ StartReset(j) \/ StartCheck(j) \/ StartRedeem(j)
    \/ StartCreateCity(j) \/ StartEditCity(j)

Handle(j) ==
    \/ ReadVenues(j) \/ ReadCrowd(j) \/ SaveCrowd(j) \/ ReadVibe(j) \/ SaveVibe(j)
    \/ triggerVibeAlert(j)
    \/ ClearRedemptions(j) \/ ResetOffers(j) \/ ClearNotifications(j) \/ ClearAnalytics(j)
    \/ FindVibe(j) \/ submitVibeCheck(j) \/ MarkRedeemed(j) \/ TakePlace(j)
    \/ FindCity(j) \/ SaveCity(j) \/ JobFails(j)

CityNext ==
    \/ Boot \/ Migrate \/ SeedFails \/ Restart
    \/ \E j \in Jobs : Request(j) \/ Handle(j)
    \/ \E v \in Venues : RenameVenue(v)

CitySpec == CityInit /\ [][CityNext]_city
-------------------------------------------------------------------------------
CutAt(steps) == broke' \cap steps # {}
UpTo(step) == {s \in DOMAIN Rank : Rank[s] <= Rank[step]}

\* What a boot owes: all that the seed fills is there, but for what some boot was cut
\* off before, and what a reset has cleared since; the tags are there once, unless a
\* boot was cut off between them and the venues, whose count decides on the next
\* boot's seed; and the venues have the city of their name when there is one.
LeftWhole ==
    /\ ~HasCity("manchester")' => CutAt(UpTo("cities") \cup {"topUp"})
    /\ tags' = 0 => CutAt(UpTo("tags"))
    /\ tags' > 1 => CutAt({"tags", "admin", "demoUser", "venues"})
    /\ home' = NoRow => CutAt(UpTo("venues"))
    /\ (\E v \in Venues : crowd'[v] = NoRow) => CutAt(UpTo("busyness"))
    /\ (\E v \in Venues : vibe'[v] = NoVibe) => CutAt(UpTo("vibes"))
    /\ places' = NoRow => CutAt(UpTo("offers"))
    /\ ~notices'.seed => "notices" \in wiped' \/ CutAt(UpTo("notices"))
    /\ ~analytics' => "analytics" \in wiped' \/ CutAt(UpTo("analytics"))
    /\ ~owned' => CutAt(UpTo("owners"))
    /\ home' = Unlinked => \/ CutAt({"count", "topUp", "backfill"})
                           \/ ~\E c \in CityIds : cities'[c].active /\ cities'[c].name = "leeds"

\* When a boot ends it has left what it owes, however it ended (onModuleInit logs
\* whatever goes wrong and the server goes up).
BootLeavesItWhole == [][boot.at # "up" /\ boot'.at = "up" => LeftWhole]_city

\* A reset beside which nothing else ran leaves the demo as it was seeded: the
\* percentages and vibe tags of all venues that have rows, but those whose owner has
\* renamed them, no redemption, and no place of an offer taken (resetDemo finds
\* venues by their seeded names, and undoes what the time machine and the users did).
ResetRestores ==
    [][\A j \in Jobs :
        job[j].kind = "reset" /\ job[j].at = "analytics" /\ job[j].alone /\ ClearAnalytics(j) =>
            /\ \A v \in Venues \ renamed :
                 crowd[v] \in {NoRow, VENUE_BUSYNESS[v]} /\ (vibe[v] # NoVibe => vibe[v].seeded)
            /\ redeemed = 0 /\ places \in {NoRow, 0}]_city

\* The score and the count of a venue are those of the vibe checks it has had, up to
\* the rounding of each, unless its row was saved while another request held a copy
\* of it: then a check may be lost (submitVibeCheck and the time machine read the row
\* and save it whole).
ScoreFollowsChecks ==
    \A v \in Venues \ crossed :
        vibe[v] # NoVibe =>
            LET off == checks[v].n * vibe[v].score - checks[v].sum
            IN  vibe[v].count = checks[v].n /\ 2 * (IF off < 0 THEN -off ELSE off) <= checks[v].slack

===============================================================================
