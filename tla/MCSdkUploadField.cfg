\* One upload, with the name this API gives to the number of a part (handler.go:323).
CONSTANTS
  None = None
  key = key
  Uploads = {u}
  Keys = {key}
  KeyOf <- MCKeyOf
  Kinds = {"multipart", "single"}
  PartFields = {"part_number"}
  PartSize = 2
  DefaultCount = 2
  MaxSize = 3
SPECIFICATION UploadSpec
INVARIANTS FaultFreeReturns
CHECK_DEADLOCK FALSE
