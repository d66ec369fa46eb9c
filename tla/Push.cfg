CONSTANTS
  Requests = {r1, r2, r3}
  Users = {u1, u2}
  Agents = {a1}
  Passwords = {p1, p2}
  Offers = {{}, {"model", "name"}}
  Tokens = {t1}
  None = None
SPECIFICATION Spec
SYMMETRY Symmetry
CONSTRAINT OneBroken
INVARIANTS SameConversation ConversationHasAgent ConnectIsStored ChangeKnowsPassword OffStaysOff KeysWithToken
CHECK_DEADLOCK FALSE
