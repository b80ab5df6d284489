SPECIFICATION Spec
CONSTANTS
  attacker = attacker
  DbUsers = {"daemon", "command"}
  Addresses <- MCAddresses
  Family <- MCFamily
  InitialTables <- MCTables
  ConfigFiles <- MCConfigFiles
  Launches <- MCLaunches
  MaxOccasions = 1
INVARIANTS
  TypeOK
  VersionIsEarned
  SchemaReady
  
  
  
  LastWordIsStopped
  
PROPERTIES
  InitializeKeepsElements
  PublishedIsWhole
