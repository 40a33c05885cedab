SPECIFICATION ConsoleSpec
CONSTANTS
  Users = {p1, p2}
  NoUser = nobody
  BufSize = 3
  Width = 6
  Plain = {"a"}
  MaxRead = 2
  Rows = 2
  Cols = 1
PROPERTIES ImplementsTerminal LineRead
