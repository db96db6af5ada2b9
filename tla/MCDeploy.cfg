SPECIFICATION Spec
CONSTANT SeedFiles <- Editions
INVARIANTS DeploymentTypeOK SchemaMatchesRevision UpgradeNeverStuck ServedSchemaFits
PROPERTY JobsKept
