SPECIFICATION MCSpec
CONSTANTS
  Films = {1, 2, 3, 4}
  People = {11, 12, 13, 14}
  Popular = {1, 3, 4}
  Titled = {2}
  Followed = {13, 14}
  Credits <- MCCredits
  Tranches = {"director", "cast", "followed"}
  Corroboration = 2
  Threshold = 2
  MaxMoves = 1
  MaxDeaths = 1
  About = {"reread", "vouched", "canceled"}
PROPERTIES InPlayIsReread VouchedIsAdmitted 
