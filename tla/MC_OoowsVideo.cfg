\* Two text cells, one pixel byte; characters NUL and 'A'; a plain
\* attribute (light gray on black) and one with the blink/bright-background
\* bit set; three buffer writes and two notifications in flight.
CONSTANTS
  NCells = 2
  NPix = 1
  Chars = {0, 65}
  Attrs = {7, 143}
  Pixels = {0, 1}
  MaxWrites = 3
  MaxNotifs = 2
SPECIFICATION Spec
INVARIANTS
  TypeOK
  DisplayCurrent
CHECK_DEADLOCK FALSE
