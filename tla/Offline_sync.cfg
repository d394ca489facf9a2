\* Two events of one phone, one admin, the retry worker, one letter, one kill.
SPECIFICATION FairSpec
CONSTANTS
  NumItems = 2
  Effect <- Trade
  Opening = 0
  MaxQueue = 2
  MaxTries = 1
  MaxReplays = 2
  Upload = {u1}
  Admin = {a1}
  Worker = Worker
  Nobody = Nobody
  MaxLetters = 1
  MaxKills = 1
INVARIANT SettledIsBooked
PROPERTY EachKeyBookedOnce
PROPERTY EverythingSettles
CHECK_DEADLOCK FALSE
