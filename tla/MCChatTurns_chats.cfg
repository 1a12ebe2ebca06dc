SPECIFICATION FairSpec
CONSTANTS
  private = private
  group = group
  sp = sp
  sg = sg
  ada = ada
  t1 = t1
  t2 = t2
  Conversations = {private, group}
  Sessions = {sp, sg}
  Characters = {ada}
  Groups = {group}
  Turns = {t1, t2}
  Workers = {w1, w2}
  ConversationOf <- GroupConversationOf
  CharacterOf <- GroupCharacterOf
  SessionOf <- InBoth
  OriginOf <- UserOnly
  ChatOutcomes = {"sent", "failed"}
  MaxActiveTurns = 1
  DailyMessages = 2
  MaxAttempt = 1
  LastDay = 1
  NoWorker = NoWorker
  NoJob = NoJob
  NoClear = NoClear
INVARIANTS
  ReplyCapacity
  ClosedConversationIsQuiet
PROPERTIES
  EveryReplyEnds
CHECK_DEADLOCK FALSE
