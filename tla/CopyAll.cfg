SPECIFICATION Spec
CONSTANTS
  Setups <- AllSetups
  MaxRegions = 2
  MayRefuse = {"blocks", "dump", "staging", "decoded", "marked", "debug", "analysis", "decompress_set", "watermark_set", "encode_set", "view", "oneshot"}
INVARIANTS TypeOK DeliveredThroughStaging ReadsOrdered NothingLost NullOnlyIfRefusedOr3D
CHECK_DEADLOCK FALSE
