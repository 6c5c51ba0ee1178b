CONSTANTS
  Senders = {baton, shell}
  Events = events
  None = None
SPECIFICATION FairSpec
INVARIANTS TypeOK WokenWhenSent NeverDeaf
PROPERTY Released
