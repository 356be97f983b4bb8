\* Two requests at once, three in all, two configurations.
CONSTANTS
  Slots = {s1, s2}
  Configs = {offered, standard}
  Offered = offered
  Standard = standard
  Blank = Blank
  MaxRequests = 3
  None = None
SPECIFICATION FairSpec
INVARIANTS LikeOneAtATime AssetIsStored
PROPERTIES SavingEnds
