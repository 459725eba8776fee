SPECIFICATION SoundSpec
CONSTANTS
  a = a
  b = b
  Orphan = Orphan
  Sound <- MCSound
  Stream = {a}
  Slot = {1}
  MaxSoundPlay = 1
  Length = 1
INVARIANTS
  FedWhilePlaying
  ToldOnce
CHECK_DEADLOCK FALSE
