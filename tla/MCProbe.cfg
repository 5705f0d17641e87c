SPECIFICATION Spec
CONSTANTS
  AddrCount = 2
  Timeout = 3
  Protocols = {"tcp", "udp", "icmp"}
  MaxEintr = 2
  MaxForeign = 2
INVARIANTS
  AddressBudget
  InterruptLag
  ResultIsRight
