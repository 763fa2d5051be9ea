SPECIFICATION ClockSpec
CONSTANTS
    Seeded = {1, 2, 4, 5, 10, 11}
    Own <- OwnOffers
    Skews = {0, 60}
    MaxMinutes = 35
    MaxEdits = 1
    MaxOutages = 1
INVARIANTS OpenAsAdvertised StatusIsHonest FalseAlarmHasACause
PROPERTIES EndIsAnnounced
CHECK_DEADLOCK FALSE
