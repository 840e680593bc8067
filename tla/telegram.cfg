SPECIFICATION Spec
CONSTANTS
  c1 = c1
  c2 = c2
  Calls = {c1, c2}
  Tries = 2
  Attempts = 2
  NoCall = NoCall
  MaxTrouble = 1
  t1 = t1
  t2 = t2
  Threads = {t1, t2}
  Dcs = {2, 4}
  FirstDc = 2
  TrueDc = 4
  FileDc = 2
  SoLanThuGoiApi = 3
  ChoToiDaGiay = 60
  TongChoToiDaGiay = 180
  SoLanThuMayChuHong = 5
  Scenes <- AccountScenes
  a1 = a1
  a2 = a2
  a3 = a3
  w1 = w1
  w2 = w2
  r1 = r1
  Accounts <- Seats
  Writers = {w1, w2}
  Readers = {r1}
  NoAccount = NoAccount
  PoolScenes <- Teams
  MaxChanges = 2
INVARIANTS TypeOK AnswerIsOwn PendingIsWaiting FirstRequestWrapped
           BudgetsKept LoginSurvivesRestart LoadMatchesWriters FailsOnlyWhenNobodyCan
PROPERTIES LogoutHasACause 
CHECK_DEADLOCK FALSE
