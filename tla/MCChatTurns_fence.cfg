SPECIFICATION Spec
CONSTANTS
  private = private
  group = group
  sp = sp
  sg = sg
  ada = ada
  t1 = t1
  t2 = t2
  Conversations = {private}
  Sessions = {sp}
  Characters = {ada}
  Groups = {}
  Turns = {t1}
  Workers = {w1}
  ConversationOf <- PrivateConversationOf
  CharacterOf <- PrivateCharacterOf
  SessionOf <- InPrivate
  OriginOf <- UserOnly
  ChatOutcomes = {"sent", "failed"}
  MaxActiveTurns = 1
  DailyMessages = 1
  MaxAttempt = 2
  LastDay = 1
  NoWorker = NoWorker
  NoJob = NoJob
  NoClear = NoClear
INVARIANTS
  DeletedTurnIsPurged
CHECK_DEADLOCK FALSE
