\* Two overlapping registrations; a key of another user.
SPECIFICATION Spec
CONSTANTS
  m1 = m1
  m2 = m2
  Users = {u1, u2}
  Labels = {l1}
  Keys = {k1, k2, k3}
  Machines = {m1, m2}
  Gpu <- DifferentGpus
  Rows = {r1, r2}
  Requests = {q1, q2}
  NoRow = NoRow
  NoKey = NoKey
  NoRequest = NoRequest
INVARIANTS
  TypeOK
  KeysHold
  NodesHold
SYMMETRY Interchangeable
