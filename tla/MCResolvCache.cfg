SPECIFICATION ResolvSpec
CONSTANTS
  Threads = {t1, t2}
  Nobody = Nobody
  q1 = q1
  q2 = q2
  q3 = q3
  wlan = wlan
  Devices <- TwoDevices
  Hash <- Hashes
  NoName = NoName
  Ttls = {0, 1}
  Generations = {0, 1}
  NULL = NULL
SYMMETRY Symmetry
INVARIANTS
  TableMatchesList
  FlushComplete
  HandleStaysValid
