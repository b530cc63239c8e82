SPECIFICATION Spec
CONSTANTS
  MaxLoop = 3
  MaxAdds = 3
INVARIANTS OnTheList
CHECK_DEADLOCK FALSE
