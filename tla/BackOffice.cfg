\* Small back-office desks next to each other.
SPECIFICATION OfficeSpec
CONSTANTS
  NumLogs = 2
  MaxVolume = 2
  MaxDrafts = 1
  KeptDays = 0
  MaxDays = 2
  MaxEdits = 1
  ByHand = {k1}
  Payer = {"worker", "admin"}
  Worker = "worker"
  Clerk = {c1, c2}
  Trial = 1
  Month = 2
  Year = 3
  Notice = 1
  Grace = 1
  MaxDay = 2
  MaxSubs = 2
  MaxInvoices = 2
  MaxChoices = 2
  Ref = {t1, noref}
  NoRef = noref
  Order = {o1}
  Run = {r1, r2}
  MaxAmount = 2
  MaxPayments = 1
  MaxLines = 2
  MaxBegun = 3
  Sku = {s1, s2}
  NoSku = nosku
  Malformed = bad
  Unset = unset
  Asked = {1, 2}
  Handler = {h1}
  MaxActions = 1
  MaxTargets = 2
  MaxChanges = 2
  OneHandler = TRUE
  Unit = {jin, box, bag}
  Rated = {s1}
  AnySku = any
  Factor = {1}
  Maker = {m1}
  MaxRelations = 3
  OneMaker = TRUE
INVARIANTS VoiceBooks RenewalsDisjoint TaskIsTrue CatalogueAgrees
PROPERTIES LapseIsNoticed DoneStaysDone
CHECK_DEADLOCK FALSE
