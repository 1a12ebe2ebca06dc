SPECIFICATION Spec
CONSTANTS
  private = private
  group = group
  sp = sp
  sg = sg
  ada = ada
  t1 = t1
  t2 = t2
  Conversations = {private}
  Sessions = {sp}
  Characters = {ada}
  Groups = {}
  Turns = {t1, t2}
  Workers = {w1}
  ConversationOf <- PrivateConversationOf
  CharacterOf <- PrivateCharacterOf
  SessionOf <- InPrivate
  OriginOf <- UserOnly
  ChatOutcomes = {"sent", "failed"}
  MaxActiveTurns = 2
  DailyMessages = 1
  MaxAttempt = 2
  LastDay = 2
  NoWorker = NoWorker
  NoJob = NoJob
  NoClear = NoClear
SYMMETRY Interchangeable
INVARIANTS
  OneReplyPerConversation
  UsageMatchesOutcome
  QuotaHeld
  StoppedDeliveryIsCharged
  AckIsTruth
  SupersededRunIsFenced
  SceneChain
  FencesSpareTheLive
PROPERTIES
  ImplementsMainTurns
  ImplementsReplySlots
CHECK_DEADLOCK FALSE
