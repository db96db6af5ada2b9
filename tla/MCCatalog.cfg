SPECIFICATION Spec
CONSTANTS
  s1 = s1
  s2 = s2
  s3 = s3
  Sounds = {s1, s2, s3}
  Fruitful <- FewSlots
  PerTag = 2
  Programmes <- Histories
  MaxCrashes = 1
SYMMETRY SoundSymmetry
INVARIANTS CatalogTypeOK SeedFilesSound PlaysWhatItSays MigrationAgrees
 
