SPECIFICATION FairSpec
CONSTANTS
  Seid = {q1}
  NoSeid = none
  Configuration <- OneAssociates
  MaxFault = 2
INVARIANTS
  TypeOK
  OneRemovalPerStart
PROPERTIES
  StaysAssociated
  StaleSessionsRemoved
  SessionsRestored
