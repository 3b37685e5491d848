SPECIFICATION SessionSpec
CONSTANTS
  INT_BITS = 10
  VERT_SIZE = 3
  LINE_SIZE = 3
  SCREEN_WIDTH = 4
  BUFFER_SIZE = 6
  MAX_ARGS = 3
  LINE_BUFFER = 5
  MAX_PCS = 64
  MAX_NAME_LENGTH = 32
  PROCESS_NAME_MAX_LENGTH = 32
  INFO_STR_LENGTH = 16
  MAX_PIPE_NAME_LENGTH = 64
  Keys = {"n", " ", "&", "|"}
  Commands <- CommandWords
  ExitCommand <- ExitWord
  Texts <- SmallTexts
  MaxKeys = 6
  OffHours = 1540
INVARIANTS RequestIsTheLine TextStaysOnScreen LibraryAgrees
CHECK_DEADLOCK FALSE
