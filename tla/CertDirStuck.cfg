SPECIFICATION FairSpec
CONSTANTS
  cert = cert  key = key  legacy = legacy  c1 = c1  c2 = c2
  d1 = d1  d2 = d2  d3 = d3  d4 = d4
  Names = {cert, key, legacy}
  CertNames = {cert, key}
  Certs = {c1, c2}
  Missing = Missing
  Torn = Torn
  Earlier <- Releases
  Dirs = {d1, d2, d3}
  NoDir = NoDir
  MaxDisturbances = 1
PROPERTIES AlwaysWritable
