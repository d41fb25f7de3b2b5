SPECIFICATION FairSpec
CONSTANTS
  USB_FRAMES_PER_ASRC_INPUT_FRAME = 2
  Outputs = {0, 1}
  SendSize = 4
  Rates = {44100, 48000}
  NoRate = 0
  MaxNotified = 2
INVARIANTS
  TypeOK
  NoLostWakeUp
  RoomWhileFilling
PROPERTIES
  RefillStartsEmpty
  PlaybackResumes
