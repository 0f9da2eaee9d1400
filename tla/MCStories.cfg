SPECIFICATION MCSpec
CONSTANTS
  Stories = {s1, s2}
  Events = {1, 2, 3}
  NoEvent = 0
  Names = {n1, n2}
  Runners = {r1, r2}
  First = r1
  Beats = {"casting", "release_date", "trailer", "production_start"}
  About = {"casting", "release_date", "trailer", "texts", "overlap"}
  AttachLimit = 1
  Window = 1
  DedupDays = 1
  Recency = 1
  MaxGroups = 2
  MaxDay = 3
SYMMETRY Symmetry
  
PROPERTIES NoDoubleAnnounce ModerationStands
CHECK_DEADLOCK FALSE
