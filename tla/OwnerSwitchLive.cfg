SPECIFICATION Spec
CONSTANTS
  Owners = {alice}
  Nobody = Nobody
  Calls = {c1, c2, c3}
  NoCall = NoCall
  Runs = {change}
  NoRun = NoRun
  Chats = {}
  Conversations = {tab, other}
  change = change
  tab = tab
  other = other
  Conversation <- MCConversation
PROPERTY EverythingIsAnswered
