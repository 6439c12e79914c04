SPECIFICATION Spec
CONSTANTS
    Kinds = {"direct", "harness", "production"}
    MaxBoots = 2
    MaxReplugs = 1
CHECK_DEADLOCK FALSE
INVARIANTS RecordIsConsistent CleanAckMeansQuiet
PROPERTIES AdapterIsReturned CredentialKeptWhileMember
