\* One spare slot and one new version, which may be any of the candidates; the
\* device is the zone board.
CONSTANTS
  SlotIds = {1, 2}
  MaxVersion = 2
  Schema = 1
  Schemas = {1, 2}
  Board = 2
  Plans <- MCPlans
SPECIFICATION PipeSpec
INVARIANT ActiveSlotIntact
INVARIANT StateMatchesStore
INVARIANT ValidateExact
INVARIANT ImagesPartition
INVARIANT BootsClosedImage
PROPERTY AtomicUpdates
