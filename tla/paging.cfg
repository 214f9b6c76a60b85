SPECIFICATION FairSpec
CONSTANTS
  Walk = {w1, w2}
  Given = Given
  Zero = Zero
  Item <- Items
  Listings <- SmallListings
INVARIANTS TypeOK YieldsTheListing
PROPERTY WalkEnds
CHECK_DEADLOCK FALSE
