SPECIFICATION Spec
CONSTANTS
  w1 = w1
  w2 = w2
  dashed = dashed
  underscored = underscored
  prod = prod
  labKey = labKey
  prodKey = prodKey
  v1 = v1
  v2 = v2
  pw1 = pw1
  pw2 = pw2
  None = None
  MaxCommands = 2
  Writers <- MCWriters
  Names <- MCNames
  Values <- MCValues
  Passwords <- MCPasswords
  EnvKeys <- MCEnvKeys
  EnvKey <- MCEnvKey
  ImportName <- MCImportName
  Lines <- MCLines
  Environment <- MCEnvironment
  FirstMaps <- MCFirstMaps
SYMMETRY MCSymmetry
INVARIANT
  TypeOK
PROPERTIES
  ChangesAreWhole
  MigrationIsWhole
  ListedHaveSecrets
  StoreComesFirst
