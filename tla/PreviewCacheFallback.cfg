SPECIFICATION Spec
CONSTANTS
  Callers = {c1, c2}
  Urls = {u1, u2}
  Copies = {v1, v2}
  Ttl = 1
  Nil = Nil
PROPERTY
  SetIsKeptSomewhere
