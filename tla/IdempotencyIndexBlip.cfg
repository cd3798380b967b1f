SPECIFICATION Spec
CONSTANTS
  s1 = s1
  s2 = s2
  c1 = c1
  c2 = c2
  a1 = a1
  a2 = a2
  NoCaller = NoCaller
  Servers = {s1, s2}
  Callers = {c1, c2}
  Home <- MCHome
  Keys = {k1}
  Args = {a1}
  MaxRuns = 2
  MaxSeconds = 1
  Grace = 0
  Ttl = 1
  Events = {"blip"}
PROPERTIES
  BlipKeepsReplay
