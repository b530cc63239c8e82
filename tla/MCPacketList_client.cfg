SPECIFICATION Spec
CONSTANTS
  Nodes = {n1, n2, n3, n4}
  NoNode = NoNode
  MaxLoop = 5
  Word = 8
  BufSize = 1
  MaxAdds = 7
SYMMETRY NodeSymmetry
INVARIANTS ListInUse  
PROPERTIES QueueUnlessLooped
CHECK_DEADLOCK FALSE
