SPECIFICATION Spec
CONSTANTS
  Owners = {alice, bob}
  Nobody = Nobody
  Calls = {c1, c2, c3}
  NoCall = NoCall
  Runs = {chat1, chat2}
  NoRun = NoRun
  Chats = {chat1, chat2}
  Conversations = {tab, other}
  change = change
  tab = tab
  other = other
  Conversation <- MCConversation
SYMMETRY Symmetry
INVARIANTS WorkStaysWithItsOwner ReservedMeansIdle AbortsAreDelivered LiveRunsCanBeStopped
PROPERTIES MountedAfterCleanup ImplementsOwnerMount
