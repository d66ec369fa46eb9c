CONSTANTS
  Msgs = {m1, m2}
  AgentMsgs = {m2}
  Attachments = {f1}
  Requests = {r1, r2, r3}
  None = None
SPECIFICATION Spec
SYMMETRY Symmetry
INVARIANTS NothingLeftBehind AttachmentIsWhole ReadCountedOnce DeletedTextOnlyByRace DevicesUpToDate
CHECK_DEADLOCK FALSE
