\* As LruCache.cfg, with mmap failing.
CONSTANTS
  k1 = k1
  k2 = k2
  k3 = k3
  k4 = k4
  c1 = c1
  c2 = c2
  o1 = o1
  o2 = o2
  o3 = o3
  o4 = o4
  Keys = {k1, k2, k3, k4}
  Clients = {c1, c2}
  Objects = {o1, o2, o3, o4}
  NoObj = NoObj
  Capacity = 2
SPECIFICATION Spec
SYMMETRY Symmetry
INVARIANT CachedIsMapped
