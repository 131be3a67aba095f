CONSTANTS
  Threads = {t1, t2}
  Names = {"an", "bo", "cy"}
  Passwords = {"p1", "p2"}
  FirstUsers <- MCFirstUsers
  Rooms = {1, 2, 3}
  RoomPlayers <- MCRoomPlayers
  StoredRooms = {1, 2}
  Questions = {101, 102}
  PerRound = 1
  MaxQuestions = 3
  MatchCost = 2
  MaxRequests = 5
SPECIFICATION Spec
CHECK_DEADLOCK FALSE
SYMMETRY Symmetry
INVARIANTS TypeOK OneOwnerPerName PasswordIsKnown MatchIsItsRoom
