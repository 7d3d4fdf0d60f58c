\* Both servers; two frames for the echo server, one frame and three lines for the other.
CONSTANTS
  Short = 2
  Long = 4
  Buffer = 6
  Nul = "nul"
  Junk = "junk"
  MaxJunk = 1
  Texts <- SomeTexts
  Lines <- SomeLines
  Newline = "nl"
  Exit = "exit"
  LineSize = 4
  Digests <- SomeDigests
  MaxFrames <- FewFrames
  MaxLines = 3
  MaxOut = 6
SPECIFICATION Spec
INVARIANTS TypeOK AnswerFirst AcceptKeyRight HeadersTellLength EchoesInOrder LinesConserved
PROPERTIES EndsForAReason RequestAnswered TypedIsTaken
\* The process ends, or waits in read() and select() for good.
CHECK_DEADLOCK FALSE
