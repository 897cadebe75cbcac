CONSTANTS
  Names <- MCNames
  Gifs <- MCGifs
  Dirs <- MCDirs
  Lengths <- MCLengths
  MAX_FILE_SIZE = 2
  MaxGif = 2
  NoGif = NoGif
SPECIFICATION Spec
INVARIANTS TypeOK NothingLeaks
PROPERTIES ImplementsStore HandlersEnd ShowsEveryGif
