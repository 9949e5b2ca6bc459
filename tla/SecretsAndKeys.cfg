SPECIFICATION Spec
CONSTANTS
  sa = sa  ra = ra  ka = ka  kb = kb  pa = pa  pb = pb  la = la  c1 = c1  c2 = c2
  Nothing = Nothing
  NoPayload = NoPayload
  Secrets = {sa}
  Rings = {ra}
  KeyIds = {ka, kb}
  Payloads = {pa, pb}
  Labels = {la}
  Algorithms = {"symmetric", "rsa"}
  Clients = {c1, c2}
  MaxVersions = 2
  MaxMaterials = 3
INVARIANTS
  TypeOK
  MaterialKept
  PayloadsKept
SYMMETRY Symmetric
