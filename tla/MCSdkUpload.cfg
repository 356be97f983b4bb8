\* Two uploads of files of one name, up to three units in parts of two.
CONSTANTS
  None = None
  key = key
  Uploads = {u, v}
  Keys = {key}
  KeyOf <- MCKeyOf
  Kinds = {"multipart", "single", "dashboard"}
  PartFields = {"part_number", "partNumber"}
  PartSize = 2
  DefaultCount = 2
  MaxSize = 3
SPECIFICATION UploadFairSpec
INVARIANTS UploadIInv ObjectIsWhole ReturnedWasStored OutcomeFollowsField
PROPERTIES UploadEnds
CHECK_DEADLOCK FALSE
