SPECIFICATION ServerSpec
CONSTANTS
  s1 = s1  s2 = s2  v1 = v1  q1 = q1  a1 = a1  a2 = a2  t1 = t1  t2 = t2
  Streams = {"s1", "s2"}
  Queries = {"q1"}
  Sentences <- MCSentences
  Refusals = {"refusal"}
  Alike <- MCAlike
  Foreign = {"nepali"}
  Drafts <- MCDrafts
  AllDrafts <- MCAllDrafts
  Fails = {"q1", "s1"}
  MaxAsking = 2
  Sids <- MCSids
  Ips = {"ip"}
  IpOf <- MCIpOf
  Qids = {q1}
  Uploads = 1
  Limit = 1
  Admins = {a1, a2}
  Reloaders = {a2}
  Voices = {v1}
  MaxCrashes = 1
  OutreachIds = {"lost", "fee", "dao"}
  Asked <- MCAsked
  Pages <- MCPages
  TopKGov = 3
  Senders = {t1, t2}
  MaxDrafts = 2
  MaxSends = 3
  MaxDeaths = 1
INVARIANTS AnswersAreWhole InterviewsAreKept OfficeIsAskedOnce
PROPERTY RequestsComeToAnEnd
CHECK_DEADLOCK FALSE
